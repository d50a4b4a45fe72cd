----------------------------- MODULE IconvBulk -----------------------------
(***************************************************************************)
(* The eager conversions of iconv_bulk.hpp: iconv_transcode_to, which      *)
(* doubles its buffer when it is full, iconv_transcode_into, which empties *)
(* a small one, and iconv_transcode_to_or_error, which stops at the first  *)
(* error.  One action is one call of convert() and what is made of it.     *)
(***************************************************************************)
EXTENDS IconvStream

Functions == {"iconv_transcode_to", "iconv_transcode_into", "iconv_transcode_to_or_error"}

VARIABLES
  function,     \* which of them it is
  input,        \* the bytes of the source, materialised
  opens,        \* fns.open() returns a descriptor
  reset,        \* how the converter resets
  owed,         \* what it owes when the input ends
  current,      \* how many bytes inp has passed
  capacity,     \* buf_size, or the size of tmp
  out,          \* the bytes written, or the error alone
  done          \* the function has returned

given == <<function, input, opens, reset>>
vars  == <<given, owed, current, capacity, out, done>>

\* The smallest buffers are 256 and 4096 bytes in the code: room for any one
\* character.
Init ==
  /\ function \in Functions
  /\ owed = 0
  /\ current = 0
  /\ out = IF ~opens /\ function = "iconv_transcode_to_or_error"
           THEN <<Failed("open_failed")>> ELSE <<>>
  /\ done = ~opens

Room == IF function = "iconv_transcode_into" THEN capacity ELSE capacity - Len(out)

Rest == [k \in 1 .. Len(input) - current |-> current + k]

Return(result) == out' = result /\ done' = TRUE

\* On an error that iconv_transcode_to_or_error reports, the others go on.
ReturnError(e) == Return(<<Failed(e)>>)

-----------------------------------------------------------------------------
\* convert() over the rest of the input, with this outcome.
Step == Convert(input, Rest, owed, Room)

Converting(errno) ==
  /\ ~done
  /\ current < Len(input)
  /\ Step.errno = errno
  /\ owed' = Step.owed
  /\ UNCHANGED given

Output == out \o Step.written

\* Pass over what has been converted, and `more` bytes behind it.
Pass(more) == current' = current + Step.used + more

ConvertAll ==
  /\ Converting("ok")
  /\ Pass(0)
  /\ out' = Output
  /\ UNCHANGED <<capacity, done>>

MakeRoom ==
  IF function = "iconv_transcode_into" THEN UNCHANGED capacity
  ELSE capacity' = 2 * capacity

OutputFull ==
  /\ Converting("E2BIG")
  /\ Pass(0)
  /\ out' = Output
  /\ MakeRoom
  /\ UNCHANGED done

Invalid ==
  /\ Converting("EILSEQ")
  /\ Pass(1)
  /\ IF function = "iconv_transcode_to_or_error" THEN ReturnError("invalid_sequence")
     ELSE out' = Output /\ UNCHANGED done
  /\ UNCHANGED capacity

\* Mutant: what is cut short ends the function, without the flush.
CutShortReturns ==
  /\ Converting("EINVAL")
  /\ current' = Len(input)
  /\ IF function = "iconv_transcode_to_or_error" THEN ReturnError("incomplete_sequence")
     ELSE Return(Output)
  /\ UNCHANGED capacity

CutShort ==
  /\ Converting("EINVAL")
  /\ current' = Len(input)
  /\ IF function = "iconv_transcode_to_or_error" THEN ReturnError("incomplete_sequence")
     ELSE out' = Output /\ UNCHANGED done
  /\ UNCHANGED capacity

ConverterFails ==
  /\ Converting("other")
  /\ Pass(0)
  /\ IF function = "iconv_transcode_to_or_error" THEN ReturnError("system_error")
     ELSE Return(Output)
  /\ UNCHANGED capacity

-----------------------------------------------------------------------------
\* The flush.
Flush == Reset(owed, Room, reset.whole, reset.answer)

Flushing(errno) ==
  /\ ~done
  /\ current = Len(input)
  /\ Flush.errno = errno
  /\ owed' = Flush.owed
  /\ UNCHANGED <<given, current>>

FlushMore ==
  /\ Flushing("E2BIG")
  /\ out' = out \o Flush.written
  /\ MakeRoom
  /\ UNCHANGED done

FlushAll ==
  /\ Flushing("ok")
  /\ Return(out \o Flush.written)
  /\ UNCHANGED capacity

FlushFails ==
  /\ \E errno \in Errno \ {"ok", "E2BIG"} : Flushing(errno)
  /\ IF function = "iconv_transcode_to_or_error" THEN ReturnError(ResetError(Flush.errno))
     ELSE Return(out \o Flush.written)
  /\ UNCHANGED capacity

Next ==
  \/ ConvertAll
  \/ OutputFull
  \/ Invalid
  \/ CutShort
  \/ ConverterFails
  \/ FlushMore
  \/ FlushAll
  \/ FlushFails

Spec == Init /\ [][Next]_vars
=============================================================================
