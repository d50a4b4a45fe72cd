----------------------------- MODULE EncodeView -----------------------------
(***************************************************************************)
(* encode_view over an arbitrary codec: its iterators begun, incremented,  *)
(* copied and compared (src/include/beman/transcode/encode_view.hpp).      *)
(*                                                                         *)
(* load() asks the codec once, so a step is a whole operation.             *)
(***************************************************************************)
EXTENDS CodecView, SequencesExt

CONSTANTS
  Scalars,      \* scalar values the base range can hold
  IllFormed,    \* what is wrong with the other code units it can hold
  CodecBytes    \* what the result of a codec can have in its bytes

Replacement == "U+FFFD"

VARIABLES
  mode,         \* error_mode
  base          \* the code units of the base range

own == <<mode, base>>

Flushable == "flushable_text_encoder" \in models

\* len_ is Len(buf), and error is is_error_ and error_.
Iterator(current, codec, buf, pos, error, done) ==
  [kind |-> "iterator", current |-> current, codec |-> codec, buf |-> buf,
   pos |-> pos, error |-> error, done |-> done]

Init ==
  /\ models \in SUBSET {"flushable_text_encoder", "equality_comparable"}
  /\ mode \in {"replacement", "report"}
  /\ base \in [1 .. Length -> Scalars \cup IllFormed]
  /\ NothingYet

-----------------------------------------------------------------------------
\* The codec.

Results(owes) == [engaged : {TRUE}, owes : owes, error : BOOLEAN, bytes : CodecBytes]

Nullopt(c) == [engaged |-> FALSE, owes |-> c, error |-> FALSE, bytes |-> <<>>]

OwesNothing(r) == ~r.engaged \/ (~r.error /\ r.bytes = <<>>)

\* encode_one: "the encoded form of `cp`, or an error"; an encoded form has at
\* least a byte (load() leaves len_ at 0 otherwise, and ++ would not stop).
EncodeOutcomes == {r \in Results(Codecs) : r.error \/ r.bytes # <<>>}

\* flush: nothing owed, something of what is owed, or an empty result.
FlushOutcomes(c) ==
  Results(0 .. c - 1) \cup {Nullopt(c), [Nullopt(c) EXCEPT !.engaged = TRUE]}

\* The codec of an iterator in state c does o when asked to do op with `given`.
Does(i, op, given, c, outcomes, o) ==
  /\ CodecDoes(<<op, given, c>>, outcomes, o)
  /\ calls' = [calls EXCEPT ![i] = Append(@, <<op, given, o>>)]

-----------------------------------------------------------------------------
\* The iterator.

\* The element it stands on.
Element(x) == IF mode = "report" /\ x.error # None THEN x.error ELSE x.buf[x.pos + 1]

StandsOn(i, x) ==
  /\ it' = [it EXCEPT ![i] = x]
  /\ seen' = [seen EXCEPT ![i] = Append(@, Element(x))]

Failure(x, error) == [x EXCEPT !.buf = <<"?">>, !.pos = 0, !.error = error]

\* Mutant: the bytes of an error are the element in a report view, too.
UseBytesOfErrors(x, r) ==
  IF r.error /\ r.bytes = <<>> THEN Failure(x, "unmapped_codepoint")
  ELSE [x EXCEPT !.buf = r.bytes, !.pos = 0, !.error = None]

\* What becomes of a result: bytes supplied with an error are the replacement
\* in replacement mode.
Use(x, r) ==
  IF r.error /\ (mode = "report" \/ r.bytes = <<>>)
  THEN Failure(x, "unmapped_codepoint")
  ELSE [x EXCEPT !.buf = r.bytes, !.pos = 0, !.error = None]

\* The iterator that load() is called on: a new one, or one at its last byte.
Loading(i) ==
  IF it[i] = Unused THEN {Iterator(0, 0, <<>>, 0, None, FALSE)}
  ELSE {x \in {it[i]} : ~x.done /\ x.pos + 1 = Len(x.buf)}

\* Mutant: the codec gets the code unit as it is.
ValidateAsItIs(u) == u

\* validate_utf32
Validate(u) == IF u \in IllFormed THEN Replacement ELSE u

\* An ill-formed code unit, to be reported.
LoadIllFormed(i) ==
  \E x \in Loading(i) :
    /\ x.current < Length
    /\ mode = "report"
    /\ base[x.current + 1] \in IllFormed
    /\ LET u == base[x.current + 1]
       IN  /\ StandsOn(i, Failure([x EXCEPT !.current = @ + 1], u))
           /\ calls' = [calls EXCEPT ![i] = Append(@, <<"none", u, Nullopt(x.codec)>>)]
    /\ UNCHANGED <<own, models, loading, codec_does>>

LoadScalar(i) ==
  \E x \in Loading(i) :
    /\ x.current < Length
    /\ mode = "report" => base[x.current + 1] \notin IllFormed
    /\ \E o \in EncodeOutcomes :
         /\ Does(i, "encode_one", Validate(base[x.current + 1]), x.codec, EncodeOutcomes, o)
         /\ StandsOn(i, Use([x EXCEPT !.current = @ + 1, !.codec = o.owes], o))
    /\ UNCHANGED <<own, models, loading>>

Stop(i, x) ==
  /\ it' = [it EXCEPT ![i] = [x EXCEPT !.done = TRUE]]
  /\ UNCHANGED seen

\* The base range is exhausted.  An engaged result without bytes or error ends
\* the view.
LoadFlush(i) ==
  \E x \in Loading(i) :
    /\ x.current = Length
    /\ Flushable
    /\ \E o \in FlushOutcomes(x.codec) :
         /\ Does(i, "flush", None, x.codec, FlushOutcomes(x.codec), o)
         /\ IF OwesNothing(o) THEN Stop(i, [x EXCEPT !.codec = o.owes])
            ELSE StandsOn(i, Use([x EXCEPT !.codec = o.owes], o))
    /\ UNCHANGED <<own, models, loading>>

LoadEnd(i) ==
  \E x \in Loading(i) :
    /\ x.current = Length
    /\ ~Flushable
    /\ Stop(i, x)
    /\ UNCHANGED <<own, models, loading, codec_does, calls>>

\* begin(), or operator++ at the last byte of an element.
Load(i) == LoadIllFormed(i) \/ LoadScalar(i) \/ LoadFlush(i) \/ LoadEnd(i)

\* operator++ at another byte.
NextByte(i) ==
  /\ it[i] # Unused
  /\ ~it[i].done
  /\ it[i].pos + 1 < Len(it[i].buf)
  /\ StandsOn(i, [it[i] EXCEPT !.pos = @ + 1])
  /\ UNCHANGED <<own, models, loading, codec_does, calls>>

\* operator++
Goes(i) == it[i] # Unused /\ (Load(i) \/ NextByte(i))

\* begin(), of an iterator that is not yet there.
Begin(i) == it[i] = Unused /\ Load(i)

Next ==
  \E i \in Iterators :
    \/ Begin(i)
    \/ Goes(i)
    \/ \E j \in Iterators : Copy(i, j) /\ UNCHANGED own
-----------------------------------------------------------------------------
\* Mutant: the place in the buffer is not compared.
EqualWithoutPos(i, j) ==
  IF it[i].done \/ it[j].done THEN it[i].done = it[j].done
  ELSE /\ it[i].current = it[j].current
       /\ Len(it[i].buf) = Len(it[j].buf)
       /\ (it[i].error = None) = (it[j].error = None)
       /\ Comparable => it[i].codec = it[j].codec

\* operator==, which compares the codecs of the iterators if it can.
Equal(i, j) ==
  IF it[i].done \/ it[j].done THEN it[i].done = it[j].done
  ELSE /\ it[i].current = it[j].current
       /\ it[i].pos = it[j].pos
       /\ Len(it[i].buf) = Len(it[j].buf)
       /\ (it[i].error = None) = (it[j].error = None)
       /\ Comparable => it[i].codec = it[j].codec

Errors == IllFormed \cup {"unmapped_codepoint"}

\* Every variable has the values its declaration in the code allows, and the
\* place in the buffer is one that has been written.
TypeOK ==
  /\ \A i \in Iterators : it[i] # Unused =>
       /\ it[i] \in [kind : {"iterator"}, current : 0 .. Length, codec : Codecs,
                     buf : CodecBytes \cup {<<>>, <<"?">>}, pos : Nat,
                     error : Errors \cup {None}, done : BOOLEAN]
       /\ ~it[i].done => it[i].pos < Len(it[i].buf)
  /\ loading = Idle
  /\ \A i \in Iterators : seen[i] \in Seq(Values \cup Errors \cup {"?"})

\* Iterators at the same element compare equal; those at different ones do not,
\* be they bytes of one code unit or of two results of the flush, if the codec
\* can be compared.
EqualIsSameElement ==
  \A i, j \in Iterators : Ready(i) /\ Ready(j) =>
    LET same == Len(seen[i]) = Len(seen[j]) /\ it[i].done = it[j].done
    IN  (same => Equal(i, j)) /\ (Comparable /\ Equal(i, j) => same)

\* The codec is asked for each code unit of the range once, in order, always
\* with a scalar value and never, in a report view, for one that is none; then
\* flushed, if it can be, until it owes nothing, and not again.
CodecContract ==
  \A i \in Iterators : \A k \in 1 .. Len(calls[i]) :
    LET call == calls[i][k]
    IN  IF k <= Length
        THEN /\ call[1] = "none" <=> mode = "report" /\ base[k] \in IllFormed
             /\ call[1] = "encode_one" =>
                  call[2] = IF base[k] \in Scalars THEN base[k] ELSE Replacement
        ELSE /\ call[1] = "flush"
             /\ k > Length + 1 => ~OwesNothing(calls[i][k - 1][3])

\* What encode_view promises of one result: its bytes; for an error, the error
\* itself if errors are reported, else the bytes with it or '?'.
Promised(call) ==
  LET op == call[1]
      r  == call[3]
  IN  IF op = "none" THEN <<call[2]>>
      ELSE IF ~r.error THEN r.bytes
      ELSE IF mode = "report" THEN <<"unmapped_codepoint">>
      ELSE IF r.bytes = <<>> THEN <<"?">>
      ELSE r.bytes

\* The elements are what the codec's results promise, one after another, each
\* byte once: none is lost between two results, or repeated by a copy.
ElementsAreTheCodecsBytes ==
  \A i \in Iterators : it[i] # Unused =>
    LET all == FlattenSeq([k \in DOMAIN calls[i] |-> Promised(calls[i][k])])
        left == IF it[i].done THEN 0 ELSE Len(it[i].buf) - it[i].pos - 1
    IN  seen[i] = SubSeq(all, 1, Len(all) - left)
=============================================================================
