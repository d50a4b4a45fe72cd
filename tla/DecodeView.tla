----------------------------- MODULE DecodeView -----------------------------
(***************************************************************************)
(* decode_view over an arbitrary codec: its iterators begun, incremented,  *)
(* copied and compared (src/include/beman/transcode/decode_view.hpp).      *)
(***************************************************************************)
EXTENDS CodecView

BomAware  == "bom_aware_text_decoder" \in models
Flushable == "flushable_text_decoder" \in models

Iterator(current, codec, value, done) ==
  [kind |-> "iterator", current |-> current, codec |-> codec, value |-> value,
   done |-> done]

Init ==
  /\ models \in SUBSET {"bom_aware_text_decoder", "flushable_text_decoder", "equality_comparable"}
  /\ NothingYet

-----------------------------------------------------------------------------
\* The codec.

\* What a call may do to the iterator's place and the codec's state: take
\* bytes, or owe less.
Moves(p, c) ==
  {m \in (p .. Length) \X Codecs : m[1] > p \/ m[2] < c}

\* decode_one and decode_first.
DecodeOutcomes(p, c) ==
  {[to |-> m[1], owes |-> m[2], result |-> r] :
     m \in Moves(p, c), r \in Values \cup {Empty}}

\* flush: nothing owed, or an engaged result.
FlushOutcomes(c) ==
  {[to |-> Length, owes |-> c, result |-> None]} \cup DecodeOutcomes(Length, c)

Outcomes(op, p, c) == IF op = "flush" THEN FlushOutcomes(c) ELSE DecodeOutcomes(p, c)

\* The codec of iterator i does o when asked to do op.
Does(i, op, o) ==
  /\ CodecDoes(<<op, it[i].current, it[i].codec>>,
               Outcomes(op, it[i].current, it[i].codec), o)
  /\ calls' = [calls EXCEPT ![i] = Append(@, <<op, o.result>>)]
  /\ UNCHANGED models

-----------------------------------------------------------------------------
\* The iterator.

\* begin(): the constructor takes a copy of the view's codec and loads.
Begin(i) ==
  /\ loading = Idle
  /\ it[i] = Unused
  /\ it' = [it EXCEPT ![i] = Iterator(0, 0, None, FALSE)]
  /\ loading' = <<i, IF BomAware /\ 0 < Length THEN "first" ELSE "next">>
  /\ UNCHANGED <<models, codec_does, seen, calls>>

\* What the iterator does with a result: stand on it, or go on.
Use(i, o) ==
  IF o.result = Empty
  THEN /\ it' = [it EXCEPT ![i].current = o.to, ![i].codec = o.owes]
       /\ loading' = <<i, "next">>
       /\ UNCHANGED seen
  ELSE /\ it' = [it EXCEPT ![i].current = o.to, ![i].codec = o.owes,
                           ![i].value = o.result]
       /\ loading' = Idle
       /\ seen' = [seen EXCEPT ![i] = Append(@, o.result)]

DecodeFirst(i) ==
  /\ loading = <<i, "first">>
  /\ \E o \in Outcomes("first", it[i].current, it[i].codec) :
       Does(i, "first", o) /\ Use(i, o)

DecodeOne(i) ==
  /\ loading = <<i, "next">>
  /\ it[i].current # Length
  /\ \E o \in Outcomes("one", it[i].current, it[i].codec) :
       Does(i, "one", o) /\ Use(i, o)

\* Mutant: done_ is not set.
StopNotDone(i, c) ==
  /\ it' = [it EXCEPT ![i].codec = c]
  /\ loading' = Idle
  /\ UNCHANGED seen

Stop(i, c) ==
  /\ it' = [it EXCEPT ![i].codec = c, ![i].done = TRUE]
  /\ loading' = Idle
  /\ UNCHANGED seen

\* Mutant: a disengaged result is used.
FlushUsesNullopt(i) ==
  /\ loading = <<i, "next">>
  /\ it[i].current = Length
  /\ Flushable
  /\ \E o \in Outcomes("flush", Length, it[i].codec) :
       /\ Does(i, "flush", o)
       /\ IF o.result = Empty THEN Stop(i, o.owes) ELSE Use(i, o)

\* The base range is exhausted.  An engaged result that is_empty ends the view.
Flush(i) ==
  /\ loading = <<i, "next">>
  /\ it[i].current = Length
  /\ Flushable
  /\ \E o \in Outcomes("flush", Length, it[i].codec) :
       /\ Does(i, "flush", o)
       /\ IF o.result \in {None, Empty} THEN Stop(i, o.owes) ELSE Use(i, o)

End(i) ==
  /\ loading = <<i, "next">>
  /\ it[i].current = Length
  /\ ~Flushable
  /\ Stop(i, it[i].codec)
  /\ UNCHANGED <<models, codec_does, calls>>

\* operator++, on an iterator that is not at the end.
Increment(i) ==
  /\ loading = Idle
  /\ it[i] # Unused
  /\ ~it[i].done
  /\ loading' = <<i, "next">>
  /\ UNCHANGED <<models, it, codec_does, seen, calls>>

Load(i) == DecodeFirst(i) \/ DecodeOne(i) \/ Flush(i) \/ End(i)

\* operator++, and the loading it or begin() leads to.
Goes(i) == Increment(i) \/ Load(i)

Next ==
  \E i \in Iterators :
    \/ Begin(i)
    \/ Goes(i)
    \/ \E j \in Iterators : Copy(i, j)

-----------------------------------------------------------------------------
\* operator==, which compares the codecs of the iterators if it can.
Equal(i, j) ==
  IF it[i].done \/ it[j].done THEN it[i].done = it[j].done
  ELSE /\ it[i].current = it[j].current
       /\ it[i].value = it[j].value
       /\ Comparable => it[i].codec = it[j].codec

\* Every variable has the values its declaration in the code allows.
TypeOK ==
  /\ \A i \in Iterators : it[i] # Unused =>
       it[i] \in [kind : {"iterator"}, current : 0 .. Length, codec : Codecs,
                  value : Values \cup {None}, done : BOOLEAN]
  /\ loading = Idle \/ loading \in Iterators \X {"first", "next"}
  /\ \A i \in Iterators : seen[i] \in Seq(Values)
  /\ DOMAIN codec_does \subseteq {"first", "one", "flush"} \X (0 .. Length) \X Codecs

\* Iterators at the same element compare equal; those at different ones do not,
\* though several elements can leave `current` where it was and hold the same
\* value, if the codec can be compared.
EqualIsSameElement ==
  \A i, j \in Iterators : Ready(i) /\ Ready(j) =>
    LET same == Len(seen[i]) = Len(seen[j]) /\ it[i].done = it[j].done
    IN  (same => Equal(i, j)) /\ (Comparable /\ Equal(i, j) => same)

\* The codec is called as codec_concepts.hpp says: decode_first at most once
\* and before anything else, flush only when there is nothing left to decode,
\* again after each engaged result, and never after the one that ends the view.
CodecContract ==
  \A i \in Iterators : \A k \in 1 .. Len(calls[i]) :
    /\ calls[i][k][1] = "first" <=> k = 1 /\ BomAware /\ 0 < Length
    /\ k > 1 /\ calls[i][k - 1][1] = "flush" =>
         calls[i][k][1] = "flush" /\ calls[i][k - 1][2] \notin {None, Empty}
=============================================================================
