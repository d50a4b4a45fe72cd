------------------------- MODULE Iso2022JpDecoder -------------------------
(***************************************************************************)
(* detail::iso2022jp_decode_one, driven to the end of its input as         *)
(* decode_view does: read a byte, from the bytes put back if there are any *)
(* and from the base range otherwise, and act on it as the machine's state *)
(* says.  One action is one turn of the loop of iso2022jp_decode_one; a    *)
(* call returns, and the view has an element, when `out` grows.            *)
(*                                                                         *)
(* An input iterator cannot back up.  The bytes an abandoned escape        *)
(* sequence has to read again are kept in `pending`, and whether that      *)
(* really is backing up is what this module is about.                      *)
(***************************************************************************)
EXTENDS Iso2022JpCodes

CONSTANT Inputs    \* the byte sequences the decoder is run over

ASSUME InputsAssumption == Inputs \subseteq Seq(Byte)

VARIABLES
  input,         \* the bytes of the base range
  current,       \* how many of them the iterator `current` has passed
  state,         \* iso2022jp_decode_state::state
  output_state,  \* the mode to go back to
  output_flag,   \* an escape sequence was the last thing decoded
  lead,          \* a lead byte, or the second byte of an escape sequence
  pending,       \* the bytes put back
  out,           \* the elements so far, each with the position it ended at
  done           \* decode_view::iterator::done_

vars == <<input, current, state, output_state, output_flag, lead, pending,
          out, done>>

Init ==
  /\ input \in Inputs
  /\ current = 0
  /\ state = ASCII
  /\ output_state = ASCII
  /\ output_flag = FALSE
  /\ lead = 0
  /\ pending = <<>>
  /\ out = <<>>
  /\ done = FALSE

\* How far into the input the decoder has got, the bytes put back not counted.
Position == current - Len(pending)

-----------------------------------------------------------------------------
\* Reading a byte.  Unread is what is still put back once it has been read.
HasByte == pending # <<>> \/ current < Len(input)
TheByte == IF pending # <<>> THEN Head(pending) ELSE input[current + 1]
Unread  == IF pending # <<>> THEN Tail(pending) ELSE <<>>

\* Mutant: a byte put back moves the iterator on as well.
ReadAdvancing(leave) ==
  /\ HasByte
  /\ current' = current + 1
  /\ pending' = leave
  /\ UNCHANGED <<input, done>>

Read(leave) ==
  /\ HasByte
  /\ current' = IF pending # <<>> THEN current ELSE current + 1
  /\ pending' = leave
  /\ UNCHANGED <<input, done>>

Emit(r) == out' = Append(out, [result |-> r, upto |-> Position'])

\* The error lambda: give up on what was being read and go back to the mode.
Fail(r) ==
  /\ state' = output_state
  /\ output_flag' = FALSE
  /\ Emit(r)
  /\ UNCHANGED output_state

-----------------------------------------------------------------------------
\* case 5: the byte after ESC.
EscapeStartIntermediate ==
  /\ state = EscapeStart
  /\ Read(Unread)
  /\ TheByte \in {Dollar, LeftParen}
  /\ lead' = TheByte
  /\ state' = Escape
  /\ UNCHANGED <<output_state, output_flag, out>>

\* Mutant: the ESC that began nothing is put back too.
EscapeStartOtherFromEsc ==
  /\ state = EscapeStart
  /\ Read(<<ESC, TheByte>>)
  /\ TheByte \notin {Dollar, LeftParen}
  /\ Fail(Invalid)
  /\ UNCHANGED lead

EscapeStartOther ==
  /\ state = EscapeStart
  /\ Read(<<TheByte>>)
  /\ TheByte \notin {Dollar, LeftParen}
  /\ Fail(Invalid)
  /\ UNCHANGED lead

\* Mutant: an error inside the sequence would go back to the old mode.
EscapeSwitchStateOnly(m) ==
  /\ state = Escape
  /\ Read(Unread)
  /\ Designates(lead, TheByte, m)
  /\ lead' = 0
  /\ state' = m
  /\ output_flag' = ~output_flag
  /\ IF output_flag THEN Emit(Invalid) ELSE UNCHANGED out
  /\ UNCHANGED output_state

\* case 6: the byte after ESC $ or ESC (.
EscapeSwitch(m) ==
  /\ state = Escape
  /\ Read(Unread)
  /\ Designates(lead, TheByte, m)
  /\ lead' = 0
  /\ output_state' = m
  /\ state' = m
  /\ output_flag' = ~output_flag
  /\ IF output_flag THEN Emit(Invalid) ELSE UNCHANGED out

\* Mutants: the two bytes are put back in the wrong order, or only the last is.
EscapeOtherSwapped ==
  /\ state = Escape
  /\ Read(<<TheByte, lead>>)
  /\ \A m \in Modes : ~Designates(lead, TheByte, m)
  /\ lead' = 0
  /\ Fail(Invalid)

EscapeOtherLastOnly ==
  /\ state = Escape
  /\ Read(<<TheByte>>)
  /\ \A m \in Modes : ~Designates(lead, TheByte, m)
  /\ lead' = 0
  /\ Fail(Invalid)

EscapeOther ==
  /\ state = Escape
  /\ Read(<<lead, TheByte>>)
  /\ \A m \in Modes : ~Designates(lead, TheByte, m)
  /\ lead' = 0
  /\ Fail(Invalid)

\* ESC in every other state, case 4 included: the lead byte is forgotten.
BeginEscape ==
  /\ state \in Modes \cup {TrailByte}
  /\ Read(Unread)
  /\ TheByte = ESC
  /\ state' = EscapeStart
  /\ UNCHANGED <<output_state, output_flag, lead, out>>

\* case 3: the first byte of a pair.
ReadLead ==
  /\ state = LeadByte
  /\ Read(Unread)
  /\ TheByte # ESC
  /\ \/ /\ JisByte(TheByte)
        /\ lead' = TheByte
        /\ state' = TrailByte
        /\ UNCHANGED <<output_state, output_flag, out>>
     \/ /\ ~JisByte(TheByte)
        /\ Fail(Invalid)
        /\ UNCHANGED lead

\* case 4: the second byte of a pair.
ReadTrail ==
  /\ state = TrailByte
  /\ Read(Unread)
  /\ TheByte # ESC
  /\ Fail(PairResult(lead, TheByte))
  /\ UNCHANGED lead

\* Mutant: a character does not count as output after an escape sequence.
ReadPlainKeepsFlag ==
  /\ state \in {ASCII, Roman, Katakana}
  /\ Read(Unread)
  /\ TheByte # ESC
  /\ Emit(PlainResult(state, TheByte))
  /\ UNCHANGED <<state, output_state, output_flag, lead>>

\* default: ASCII, Roman and Katakana.
ReadPlain ==
  /\ state \in {ASCII, Roman, Katakana}
  /\ Read(Unread)
  /\ TheByte # ESC
  /\ output_flag' = FALSE
  /\ Emit(PlainResult(state, TheByte))
  /\ UNCHANGED <<state, output_state, lead>>

-----------------------------------------------------------------------------
\* The end of the input, met by decode_one or by the view's flush().

\* iso2022jp_decode_state::at_end
AtEnd == pending = <<>> /\ state \in Modes

EndOfInput == ~HasByte /\ ~done /\ UNCHANGED <<input, current>>

\* Mutant: the end of the range is the end of the view.
FinishAnywhere ==
  /\ EndOfInput
  /\ done' = TRUE
  /\ UNCHANGED <<state, output_state, output_flag, lead, pending, out>>

Finish ==
  /\ EndOfInput
  /\ AtEnd
  /\ done' = TRUE
  /\ UNCHANGED <<state, output_state, output_flag, lead, pending, out>>

\* Mutant: an ESC at the end of the input is forgotten.
TruncatedPairOnly ==
  /\ EndOfInput
  /\ state = TrailByte
  /\ UNCHANGED <<lead, pending, done>>
  /\ Fail(Truncated)

TruncatedPairOrEscape ==
  /\ EndOfInput
  /\ state \in {TrailByte, EscapeStart}
  /\ UNCHANGED <<lead, pending, done>>
  /\ Fail(Truncated)

TruncatedIntermediate ==
  /\ EndOfInput
  /\ state = Escape
  /\ pending' = <<lead>>
  /\ lead' = 0
  /\ UNCHANGED done
  /\ Fail(Truncated)

DecodeByte ==
  \/ EscapeStartIntermediate
  \/ EscapeStartOther
  \/ \E m \in Modes : EscapeSwitch(m)
  \/ EscapeOther
  \/ BeginEscape
  \/ ReadLead
  \/ ReadTrail
  \/ ReadPlain

Next ==
  \/ DecodeByte
  \/ Finish
  \/ TruncatedPairOrEscape
  \/ TruncatedIntermediate

Spec == Init /\ [][Next]_vars

\* The caller iterates to the end: begin() and ++ until the sentinel.
FairSpec == Spec /\ WF_vars(Next)
-----------------------------------------------------------------------------
Elements == [result : Results, upto : Nat]

\* Every variable has the values its declaration in the code allows.
TypeOK ==
  /\ input \in Seq(Byte)
  /\ current \in 0 .. Len(input)
  /\ state \in ASCII .. Escape
  /\ output_state \in Modes
  /\ output_flag \in BOOLEAN
  /\ lead \in Byte
  /\ pending \in Seq(Byte)
  /\ Len(pending) <= 2
  /\ out \in Seq(Elements)
  /\ done \in BOOLEAN

\* The bytes put back are the bytes of the input just before `current`, in
\* their order: reading them again is what backing the iterator up would be.
\* Breaks if a byte is put back over one that has not been read again yet.
PutBackIsBackingUp ==
  /\ Len(pending) <= current
  /\ \A k \in 1 .. Len(pending) : pending[k] = input[Position + k]

\* Outside a sequence the machine is in the mode an error would return it to;
\* inside a pair that mode is JIS X 0208.
ModeToReturnTo ==
  /\ state \in Modes => output_state = state
  /\ state = TrailByte => output_state = LeadByte

\* When the view reports its end, every byte has been decoded and none is
\* left put back or half-read.
DoneMeansAllDecoded == done => Position = Len(input) /\ AtEnd

\* Each element ends at a later byte than the one before it, bytes put back
\* not counted.  decode_view's operator== and its termination rest on it.
ElementsAdvance ==
  /\ \A i, j \in 1 .. Len(out) : i < j => out[i].upto < out[j].upto
  /\ \A i \in 1 .. Len(out) : out[i].upto <= Position

\* Iteration reaches the sentinel: bytes put back are never put back for ever.
Terminates == <>done

-----------------------------------------------------------------------------
IsScalar(r) == r[1] = "scalar"

\* What a text is: characters, and between them at most one escape sequence at
\* a time.  Here, of what follows the first n bytes of s in mode m, where `fresh`
\* says that an escape sequence comes just before it; ok[k] has the modes, each
\* with its `fresh`, in which what follows the first k bytes is a text.
TextFollows(s, ok, n, m, fresh) ==
  \/ n = Len(s)
  \/ /\ n + 3 <= Len(s) /\ ~fresh /\ s[n + 1] = ESC
     /\ \E to \in Modes : Designates(s[n + 2], s[n + 3], to) /\ <<to, TRUE>> \in ok[n + 3]
  \/ /\ n + 1 <= Len(s) /\ m # LeadByte /\ s[n + 1] # ESC
     /\ IsScalar(PlainResult(m, s[n + 1])) /\ <<m, FALSE>> \in ok[n + 1]
  \/ /\ n + 2 <= Len(s) /\ m = LeadByte /\ JisByte(s[n + 1])
     /\ IsScalar(PairResult(s[n + 1], s[n + 2])) /\ <<m, FALSE>> \in ok[n + 2]

WellFormed(s) ==
  LET ok[n \in 0 .. Len(s)] ==
        {w \in Modes \X BOOLEAN : TextFollows(s, ok, n, w[1], w[2])}
  IN  <<ASCII, FALSE>> \in ok[0]

\* A well-formed text decodes without an error, wherever its escapes fall.
WellFormedHasNoError ==
  done /\ WellFormed(input) => \A i \in 1 .. Len(out) : IsScalar(out[i].result)

\* A malformed text does not pass for a well-formed one: whatwg::transcode_string
\* says that "a byte sequence `from` does not allow decodes to U+FFFD".
MalformedHasError ==
  done /\ ~WellFormed(input) => \E i \in 1 .. Len(out) : ~IsScalar(out[i].result)

\* Bytes of the sequence being read that have not become an element yet.
HalfRead ==
  CASE state = TrailByte   -> 1
    [] state = EscapeStart -> 1
    [] state = Escape      -> 2
    [] OTHER               -> 0

\* The byte-at-a-time machine takes the tokens of the stream, in order, and
\* yields for each what the stream does.
Stream == INSTANCE Iso2022JpStream
            WITH pos  <- Position - HalfRead,
                 mode <- output_state,
                 flag <- output_flag

ImplementsStream == Stream!Spec
=============================================================================
