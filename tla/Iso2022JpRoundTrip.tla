------------------------ MODULE Iso2022JpRoundTrip ------------------------
(***************************************************************************)
(* text | encode(iso_2022_jp) | decode(iso_2022_jp): the decoder reads the *)
(* bytes the encoder yields, asking for more when it has none left.  Both  *)
(* keep a shift state, and nothing but the bytes between them keeps the    *)
(* two in step.                                                            *)
(***************************************************************************)
EXTENDS Iso2022JpCodes

CONSTANTS
  Texts,     \* the sequences of scalar values that are encoded
  Report     \* the encode_view's error_mode is report

ASSUME EncoderAssumption ==
  /\ Texts \subseteq Seq(Nat)
  /\ Report \in BOOLEAN

VARIABLES
  text, read, mode, wire, written,                        \* the encoder's
  current, state, output_state, output_flag, lead,        \* the decoder's
  pending, out, done

encoder == <<text, read, mode, wire, written>>
decoder == <<current, state, output_state, output_flag, lead, pending, out, done>>
vars    == <<encoder, decoder>>

Enc == INSTANCE Iso2022JpEncoder WITH state <- mode, done <- written
Dec == INSTANCE Iso2022JpDecoder WITH input <- wire, Inputs <- {<<>>}

Init == Enc!Init /\ Dec!Init

Encode == ~Dec!HasByte /\ Enc!Next /\ UNCHANGED decoder
Decode == Dec!DecodeByte /\ UNCHANGED encoder

\* The encoder has reached its end, and so has the decoder's base range.
AtEnd ==
  /\ written
  /\ Dec!Finish \/ Dec!TruncatedPairOrEscape \/ Dec!TruncatedIntermediate
  /\ UNCHANGED encoder

Next == Encode \/ Decode \/ AtEnd

Spec == Init /\ [][Next]_vars

FairSpec == Spec /\ WF_vars(Next)
-----------------------------------------------------------------------------
HasBytes(cp) == cp < 128 \/ cp \in {Yen, Overline} \/ Enc!InJis(cp)

\* What a scalar value is read back as.
ReadBackAs(cp) == Scalar(IF HasBytes(cp) THEN cp ELSE Enc!QuestionMark)

\* `decode(encode(codepoints)) == codepoints`, with '?' for those that have no
\* bytes.  A character read in the wrong mode, or an escape sequence right
\* after another one, which the decoder answers with an error, breaks it.
RoundTrip ==
  done => [i \in 1 .. Len(out) |-> out[i].result] = [i \in 1 .. Len(text) |-> ReadBackAs(text[i])]

\* The decoder holds nothing of a character back: whenever it has read all the
\* bytes there are and is not inside a sequence, it has yielded every character
\* written, and nothing besides.
KeepsUp == ~Dec!HasByte /\ state \in Modes => Len(out) = read

\* The stream is left in ASCII, the state its reader started in: the encoder
\* "owes an escape sequence returning to ASCII after the last scalar value"
\* (whatwg/encoder.hpp:39-40), for a text that follows it to be read rightly.
EndsInAscii == done => output_state = ASCII

\* The two modes agree whenever the decoder has read all that was written.
InStep ==
  ~Dec!HasByte /\ state \in Modes =>
    output_state = IF mode = Enc!Jis THEN LeadByte ELSE mode

\* The whole text is read back.
Terminates == <>done
=============================================================================
