------------------------------ MODULE CodecView ------------------------------
(***************************************************************************)
(* What decode_view and encode_view have in common: several iterators into *)
(* one view, each with its own copy of the codec, copied and compared, over *)
(* an arbitrary codec.                                                     *)
(*                                                                         *)
(* The codec is any deterministic program that keeps the contract of       *)
(* codec_concepts.hpp.  What it does in a situation is chosen when some    *)
(* iterator first meets the situation, and kept in `codec_does`, so that   *)
(* every iterator that meets it again sees it do the same.  Its state is a *)
(* number; at the end of the input it is what the codec owes, which an     *)
(* engaged result of flush has to reduce.                                  *)
(***************************************************************************)
EXTENDS Integers, Sequences

CONSTANTS
  Iterators,    \* the iterators the program holds
  Length,       \* the number of elements of the base range
  Values,       \* what an element can hold, apart from the views' own
  MaxOwed       \* the codec's states are 0 .. MaxOwed

ASSUME ViewAssumption == Length \in Nat /\ MaxOwed \in Nat

Empty == "is_empty"
None  == "nullopt"
ASSUME ValuesAssumption == Values \cap {Empty, None} = {}

VARIABLES
  models,       \* the concepts the codec models, besides text_decoder or text_encoder,
                \* which ask for a semiregular type and so for no operator==
  it,           \* the iterators; Unused before begin() and before being copied to
  loading,      \* the iterator inside load() and the call it makes next, or Idle
  codec_does,   \* what the codec has been found to do
  seen,         \* the elements each iterator has stood on, in order
  calls         \* the calls each iterator's codec has had, in order

vars == <<models, it, loading, codec_does, seen, calls>>

Unused == [kind |-> "unused"]
Idle   == <<>>

Codecs == 0 .. MaxOwed

Comparable == "equality_comparable" \in models

\* A call of the codec in the situation `key`, when the contract allows it any
\* of `outcomes`, does o.
CodecDoes(key, outcomes, o) ==
  /\ IF key \in DOMAIN codec_does THEN o = codec_does[key] ELSE o \in outcomes
  /\ codec_does' = [k \in DOMAIN codec_does \cup {key} |->
                      IF k = key THEN o ELSE codec_does[k]]

\* Mutant: the copy starts with the view's codec.
CopyWithFreshCodec(i, j) ==
  /\ loading = Idle
  /\ it[i] # Unused
  /\ it[j] = Unused
  /\ it' = [it EXCEPT ![j] = [it[i] EXCEPT !.codec = 0]]
  /\ seen' = [seen EXCEPT ![j] = seen[i]]
  /\ calls' = [calls EXCEPT ![j] = calls[i]]
  /\ UNCHANGED <<models, loading, codec_does>>

\* A copy of a forward iterator: what i++ returns, or the program's own.
Copy(i, j) ==
  /\ loading = Idle
  /\ it[i] # Unused
  /\ it[j] = Unused
  /\ it' = [it EXCEPT ![j] = it[i]]
  /\ seen' = [seen EXCEPT ![j] = seen[i]]
  /\ calls' = [calls EXCEPT ![j] = calls[i]]
  /\ UNCHANGED <<models, loading, codec_does>>

\* No iterator yet, and nothing known of the codec.
NothingYet ==
  /\ it = [i \in Iterators |-> Unused]
  /\ loading = Idle
  /\ codec_does = <<>>
  /\ seen = [i \in Iterators |-> <<>>]
  /\ calls = [i \in Iterators |-> <<>>]

-----------------------------------------------------------------------------
\* An iterator the program can look at.
Ready(i) == it[i] # Unused /\ (loading # Idle => loading[1] # i)

IsPrefixOf(s, t) == Len(s) <= Len(t) /\ \A k \in 1 .. Len(s) : s[k] = t[k]

\* The view is multi-pass: two iterators into it see the same elements, however
\* their increments are interleaved and whichever is a copy of the other.
MultiPass ==
  \A i, j \in Iterators : Ready(i) /\ Ready(j) =>
    /\ IsPrefixOf(seen[i], seen[j]) \/ IsPrefixOf(seen[j], seen[i])
    /\ it[i].done /\ it[j].done => seen[i] = seen[j]

\* Each iterator reaches the sentinel, whatever codec keeps the contract.
Terminates == \A i \in Iterators : it[i] # Unused ~> it[i] # Unused /\ it[i].done
=============================================================================
