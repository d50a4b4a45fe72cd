----------------------------- MODULE CodecViews -----------------------------
(***************************************************************************)
(* A program over one of the two views, and what both promise.             *)
(***************************************************************************)
EXTENDS CodecView

CONSTANTS
  Scalars,      \* scalar values encode_view's base range can hold
  IllFormed,    \* what is wrong with the other code units it can hold
  CodecBytes    \* what the result of an encoder can have in its bytes

VARIABLES view, mode, base

Decoding == INSTANCE DecodeView
Encoding == INSTANCE EncodeView

ASSUME EncodeAssumption ==
  /\ (Scalars \cup {Encoding!Replacement}) \cap IllFormed = {}
  /\ None \notin IllFormed
  /\ CodecBytes \subseteq Seq(Values)

all == <<vars, view, mode, base>>

Init ==
  \/ view = "decode_view" /\ Decoding!Init /\ mode = None /\ base = <<>>
  \/ view = "encode_view" /\ Encoding!Init

Next ==
  \/ view = "decode_view" /\ Decoding!Next /\ UNCHANGED <<view, mode, base>>
  \/ view = "encode_view" /\ Encoding!Next /\ UNCHANGED view

Goes(i) ==
  \/ view = "decode_view" /\ Decoding!Goes(i) /\ UNCHANGED <<view, mode, base>>
  \/ view = "encode_view" /\ Encoding!Goes(i) /\ UNCHANGED view

Spec == Init /\ [][Next]_all

\* The program iterates each iterator it has to the end.
FairSpec == Spec /\ \A i \in Iterators : WF_all(Goes(i))

-----------------------------------------------------------------------------
\* Every variable has the values its declaration in the code allows.
TypeOK ==
  /\ view = "decode_view" => Decoding!TypeOK
  /\ view = "encode_view" => Encoding!TypeOK

\* Iterators at the same element compare equal.  If the codec can be compared,
\* those at different elements do not, though several elements can leave
\* `current` where it was and hold the same value, or be bytes of one code point.
\* Without operator== of the codec they may: what tells them apart can be what
\* the codec owes (operator== of both views).
EqualIsSameElement ==
  /\ view = "decode_view" => Decoding!EqualIsSameElement
  /\ view = "encode_view" => Encoding!EqualIsSameElement

\* The codec is called as codec_concepts.hpp says (load() of both views).
CodecContract ==
  /\ view = "decode_view" => Decoding!CodecContract
  /\ view = "encode_view" => Encoding!CodecContract

\* encode_view yields the bytes of the codec's results, each once and in order
\* (encode_view::iterator::load and operator++).
ElementsAreTheCodecsBytes ==
  view = "encode_view" => Encoding!ElementsAreTheCodecsBytes
=============================================================================
