------------------------- MODULE Iso2022JpEncoder -------------------------
(***************************************************************************)
(* detail::iso2022jp_encode_one and iso2022jp_encode_flush, driven over a  *)
(* range of scalar values as encode_view does: one action encodes one      *)
(* scalar value, or asks for what is owed at the end.  `wire` is what the  *)
(* view yields; a report view yields an error in place of the bytes of a   *)
(* scalar value that has none.                                             *)
(***************************************************************************)
EXTENDS Iso2022JpCodes

CONSTANTS
  Texts,     \* the sequences of scalar values the encoder is run over
  Report     \* the view's error_mode is report

VARIABLES
  text,     \* the scalar values of the base range
  read,     \* how many of them the iterator has passed
  state,    \* iso2022jp_encode_state::state
  wire,     \* the bytes yielded so far
  done      \* encode_view::iterator::done_

vars == <<text, read, state, wire, done>>

\* iso2022jp_encode_state::state: ASCII and Roman are 0 and 1 here too.
Jis == 2

\* The escape sequence into each mode of the encoder.
EscapeInto(m) ==
  CASE m = ASCII -> <<ESC, LeftParen, LetterB>>
    [] m = Roman -> <<ESC, LeftParen, LetterJ>>
    [] m = Jis   -> <<ESC, Dollar, LetterB>>

Init ==
  /\ text \in Texts
  /\ read = 0
  /\ state = ASCII
  /\ wire = <<>>
  /\ done = FALSE

Here == text[read + 1]

\* Put bytes in mode m on the wire, behind the escape sequence that mode needs.
Write(m, bytes) ==
  /\ wire' = wire \o (IF state = m THEN <<>> ELSE EscapeInto(m)) \o bytes
  /\ state' = m

Read ==
  /\ read < Len(text)
  /\ read' = read + 1
  /\ UNCHANGED <<text, done>>

\* U+00A5 and U+203E.
EncodeRoman ==
  /\ Read
  /\ \/ Here = Yen /\ Write(Roman, <<Backslash>>)
     \/ Here = Overline /\ Write(Roman, <<Tilde>>)

EncodeAscii ==
  /\ Read
  /\ Here < 128
  /\ Write(ASCII, <<Here>>)

\* reverse_index_for<tables::shift_jis>: the first pointer of a code point.
InJis(cp) == \E p \in Pointers : Jis0208[p] = cp
FirstPointer(cp) ==
  CHOOSE p \in Pointers : Jis0208[p] = cp /\ \A q \in 0 .. p - 1 : Jis0208[q] # cp

Multibyte == Here >= 128 /\ Here \notin {Yen, Overline}

\* Mutant: the mode the stream is now in is not recorded.
EncodeJisForgetsMode ==
  /\ Read
  /\ Multibyte
  /\ InJis(Here)
  /\ LET p == FirstPointer(Here)
     IN  wire' = wire \o EscapeInto(Jis) \o <<(p \div 94) + 33, (p % 94) + 33>>
  /\ UNCHANGED state

EncodeJis ==
  /\ Read
  /\ Multibyte
  /\ InJis(Here)
  /\ LET p == FirstPointer(Here)
     IN  Write(Jis, <<(p \div 94) + 33, (p % 94) + 33>>)

\* The replacement returns to ASCII; a report view drops it, and the encoder is
\* in ASCII all the same.
QuestionMark == 63

\* Mutant: the replacement is written in whatever mode the stream is in.
EncodeUnmappedBare ==
  /\ Read
  /\ Multibyte
  /\ ~InJis(Here)
  /\ wire' = Append(wire, QuestionMark)
  /\ UNCHANGED state

EncodeUnmapped ==
  /\ Read
  /\ Multibyte
  /\ ~InJis(Here)
  /\ IF Report THEN state' = ASCII /\ UNCHANGED wire
     ELSE Write(ASCII, <<QuestionMark>>)

\* Mutant: the Roman mode is not a shift state.
FlushJisOnly ==
  /\ read = Len(text)
  /\ state = Jis
  /\ Write(ASCII, <<>>)
  /\ UNCHANGED <<text, read, done>>

Flush ==
  /\ read = Len(text)
  /\ state # ASCII
  /\ Write(ASCII, <<>>)
  /\ UNCHANGED <<text, read, done>>

\* Mutant: the end of the range is the end of the view.
FinishUnflushed ==
  /\ ~done
  /\ read = Len(text)
  /\ done' = TRUE
  /\ UNCHANGED <<text, read, state, wire>>

Finish ==
  /\ ~done
  /\ read = Len(text)
  /\ state = ASCII
  /\ done' = TRUE
  /\ UNCHANGED <<text, read, state, wire>>

Next ==
  \/ EncodeRoman
  \/ EncodeAscii
  \/ EncodeJis
  \/ EncodeUnmapped
  \/ Flush
  \/ Finish

Spec == Init /\ [][Next]_vars
=============================================================================
