-------------------------- MODULE IconvFacilities --------------------------
(***************************************************************************)
(* The conversions by iconv that transcode has: the two views, read from   *)
(* begin() to the sentinel, and the three eager functions.  They share no  *)
(* code; what they share is the promise, which is IconvStream's.           *)
(***************************************************************************)
EXTENDS IconvBatch

CONSTANTS
  Inputs,         \* the inputs each facility is given
  BufferSizes,    \* the sizes of its buffer, or of its first one
  ResetBehaviours \* how the converter resets

Views     == {"iconv_transcode", "iconv_transcode_or_error"}
Functions == {"iconv_transcode_to", "iconv_transcode_into", "iconv_transcode_to_or_error"}

\* iconv_transcode expects a buffer of iconv_min_buffer_size, which has room for
\* any one character; iconv_transcode_or_error takes any buffer; the functions
\* have their own, of 4096 bytes, or of 256 that become more.
MinSize(f) ==
  CASE f \in {"iconv_transcode", "iconv_transcode_into"} -> 2
    [] f = "iconv_transcode_or_error" -> 0
    [] OTHER -> 1

ASSUME GivenAssumption ==
  /\ \A f \in Views \cup Functions :
       /\ Inputs[f] \subseteq Seq(Byte)
       /\ \A s \in BufferSizes[f] : s \in Nat /\ s >= MinSize(f)
  /\ ResetBehaviours \subseteq [answer : Errno \ {"E2BIG"}, whole : BOOLEAN]

VARIABLES facility, error, terminal, pending, flushing, stop_after_output, capacity

OrError == INSTANCE IconvOrErrorView
View    == INSTANCE IconvView
Bulk    == INSTANCE IconvBulk WITH function <- facility

ownOrError == <<error, terminal, pending>>
ownView    == <<flushing, stop_after_output>>
ownViews   == <<loading, staging, buffer, flush_state>>
vars       == <<facility, given, owed, current, done, out,
                ownOrError, ownView, ownViews, capacity>>

OrErrorAtRest == error = OrError!None /\ terminal = FALSE /\ pending = OrError!None
ViewAtRest    == flushing = FALSE /\ stop_after_output = FALSE
ViewsAtRest   == loading = FALSE /\ staging = <<>> /\ buffer = <<>> /\
                 flush_state = "not_started"

Init ==
  /\ facility \in Views \cup Functions
  /\ input \in Inputs[facility]
  /\ opens \in BOOLEAN
  /\ reset \in ResetBehaviours
  /\ \E s \in BufferSizes[facility] :
       /\ facility = "iconv_transcode_into" /\ reset.whole => s >= ResetSize
       /\ IF facility \in Views THEN size = s /\ capacity = 0
          ELSE size = 0 /\ capacity = s
  /\ contiguous \in IF facility \in Views THEN BOOLEAN ELSE {TRUE}
  /\ CASE facility = "iconv_transcode_or_error" -> OrError!Init /\ ViewAtRest
       [] facility = "iconv_transcode" -> View!Init /\ OrErrorAtRest
       [] OTHER -> Bulk!Init /\ OrErrorAtRest /\ ViewAtRest /\ ViewsAtRest

Next ==
  \/ /\ facility = "iconv_transcode_or_error"
     /\ OrError!Next
     /\ UNCHANGED <<facility, ownView, capacity>>
  \/ /\ facility = "iconv_transcode"
     /\ View!Next
     /\ UNCHANGED <<facility, ownOrError, capacity>>
  \/ /\ facility \in Functions
     /\ Bulk!Next
     /\ UNCHANGED <<contiguous, size, ownOrError, ownView, ownViews>>

Spec == Init /\ [][Next]_vars

\* A program that goes on reading a view, and a function that goes on.
FairSpec == Spec /\ WF_vars(Next)

-----------------------------------------------------------------------------
IsByte(element)  == "byte" \in DOMAIN element
IsError(element) == ~IsByte(element)

\* What the whole input converts to, with buffers of `room` bytes.
Converts(room, reports) == Conversion(input, opens, room, reset, reports)

IsElement(e) ==
  \/ \E p \in 0 .. Len(input), n \in 1 .. ResetSize : e = Converted(p, n)
  \/ e \in {Failed(x) : x \in Errors}

\* The batch fits where it is put: what is staged in staging_, what is output
\* in the caller's buffer or the function's, and the place in the range stays
\* in it (load() and convert() write through pointers with counts of their own).
TypeOK ==
  /\ current \in 0 .. Len(input)
  /\ owed \in 0 .. ResetSize
  /\ Len(staging) <= StagingSize
  /\ \A k \in DOMAIN staging : staging[k] \in 1 .. current
  /\ Len(buffer) <= size
  /\ \A k \in DOMAIN buffer : IsByte(buffer[k])
  /\ \A k \in DOMAIN out : IsElement(out[k])
  /\ facility \in {"iconv_transcode_to", "iconv_transcode_to_or_error"} /\ ~done
       => Len(out) <= capacity
  /\ flush_state \in {"not_started", "in_progress", "done"}
  /\ error \in {OrError!None} \cup Errors
  /\ pending \in {OrError!None} \cup Errors
  /\ {loading, terminal, flushing, stop_after_output, done} \subseteq BOOLEAN

\* An iterator that load() leaves short of the end has something to read: an
\* error, or a byte between output_pos_ and output_end_ (operator* of both
\* views, and the increment that moves output_pos_ on).
SomethingToRead ==
  ~loading /\ ~done =>
    CASE facility = "iconv_transcode_or_error" -> OrError!Element # OrError!Stale
      [] facility = "iconv_transcode" -> buffer # <<>>
      [] OTHER -> TRUE

\* A view yields what the whole input converts to, its errors in their places,
\* and iconv_transcode the same without the errors: in order, nothing lost,
\* repeated or added, whatever the buffer holds, however the input falls into
\* batches, and whether or not the range is contiguous (load() of both views).
ViewsYieldTheConversion ==
  facility \in Views =>
    LET expected == Converts(size, facility = "iconv_transcode_or_error")
    IN  /\ Len(out) <= Len(expected)
        /\ out = SubSeq(expected, 1, Len(out))
        /\ done => out = expected

\* An eager function returns what the view of its kind yields: its bytes, or,
\* for the one that reports errors, the first error there is; also after its
\* buffer has been too small (iconv_bulk.hpp).
FunctionsReturnTheConversion ==
  facility \in Functions /\ done =>
    LET all    == Converts(ResetSize, facility = "iconv_transcode_to_or_error")
        errors == {k \in 1 .. Len(all) : IsError(all[k])}
    IN  IF errors = {} THEN out = all
        ELSE \E k \in errors : (\A j \in errors : k <= j) /\ out = <<all[k]>>

\* Every view ends and every function returns, with any input, buffer and
\* converter: neither skipping nor a flush that is cut short goes on for ever.
Terminates == <>done
=============================================================================
