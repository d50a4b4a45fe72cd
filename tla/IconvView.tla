----------------------------- MODULE IconvView -----------------------------
(***************************************************************************)
(* One iterator of iconv_transcode_view, from begin() to the sentinel.     *)
(* Its load() goes on converting until the buffer is full, there is a      *)
(* reason to stop or no input is left, and passes over what is not         *)
(* accepted.  One action is one turn of that loop, what the loop's end     *)
(* leads to, or one increment.                                             *)
(***************************************************************************)
EXTENDS IconvBatch

VARIABLES
  flushing,            \* the loop has ended without output
  stop_after_output

iterator == <<loading, current, staging, buffer, flush_state, done, flushing,
              stop_after_output>>
vars     == <<given, owed, iterator, out>>

\* begin(): open() and, if it succeeds, load().
Init ==
  /\ owed = 0
  /\ loading = opens
  /\ current = 0
  /\ staging = <<>>
  /\ buffer = <<>>
  /\ flush_state = "not_started"
  /\ done = ~opens
  /\ flushing = FALSE
  /\ stop_after_output = FALSE
  /\ out = <<>>

-----------------------------------------------------------------------------
\* The loop goes on, or ends, with this in the buffer: load() returns if that
\* is something, and turns to the flush if it is nothing.
Continue(bytes) ==
  /\ buffer' = bytes
  /\ UNCHANGED <<loading, flushing, done, stop_after_output>>

Break(bytes) ==
  /\ buffer' = bytes
  /\ loading' = (bytes = <<>>)
  /\ flushing' = (bytes = <<>>)
  /\ UNCHANGED <<done, stop_after_output>>

End ==
  /\ done' = TRUE
  /\ loading' = FALSE
  /\ flushing' = FALSE
  /\ UNCHANGED <<buffer, stop_after_output>>

\* With the output there is, which is to be the last, or at once.
EndWith(bytes) ==
  IF bytes = <<>> THEN End
  ELSE /\ buffer' = bytes
       /\ loading' = FALSE
       /\ flushing' = FALSE
       /\ stop_after_output' = TRUE
       /\ UNCHANGED done

StopAfterOutput ==
  /\ loading
  /\ stop_after_output
  /\ End
  /\ UNCHANGED <<given, owed, current, staging, flush_state, out>>

-----------------------------------------------------------------------------
InLoop ==
  /\ loading
  /\ ~flushing
  /\ ~stop_after_output

\* A turn of the loop, with this outcome of the conversion.
Converting(errno) ==
  /\ InLoop
  /\ flush_state = "not_started"
  /\ Len(buffer) < size
  /\ Batch # <<>>
  /\ Step.errno = errno
  /\ owed' = Step.owed
  /\ UNCHANGED <<given, flush_state, out>>

\* What is in the buffer after it.
Output == buffer \o Written

\* The loop ends where it begins: the flush has, the buffer is full, or there
\* is nothing to convert.
LoopEnds ==
  /\ InLoop
  /\ flush_state # "not_started" \/ Len(buffer) = size \/ Batch = <<>>
  /\ Break(buffer)
  /\ UNCHANGED <<given, owed, current, staging, flush_state, out>>

ConvertAll ==
  /\ Converting("ok")
  /\ Keep(<<>>)
  /\ IF Taken = Len(input) THEN Break(Output) ELSE Continue(Output)

OutputFull ==
  /\ Converting("E2BIG")
  /\ Keep(Left)
  /\ IF Output = <<>> THEN End ELSE Break(Output)

\* A character cut short waits in staging for the rest of it.  What is left of
\* a contiguous range is staged as it is; staging at the end of any range, when
\* it is met again, is given up.
CutShort ==
  /\ Converting("EINVAL")
  /\ IF Straight THEN Stage(Left) /\ Break(Output)
     ELSE IF Taken = Len(input) THEN Stage(<<>>) /\ Break(Output)
     ELSE Stage(Left) /\ Continue(Output)

\* Mutant: what is left behind the invalid byte is not looked at.
InvalidBreaks ==
  /\ Converting("EILSEQ")
  /\ Keep(Tail(Left))
  /\ Break(Output)

\* One byte of what is invalid is skipped.
Invalid ==
  /\ Converting("EILSEQ")
  /\ Keep(Tail(Left))
  /\ IF Taken = Len(input) /\ Tail(Left) = <<>> THEN Break(Output) ELSE Continue(Output)

ConverterFails ==
  /\ Converting("other")
  /\ Keep(Left)
  /\ EndWith(Output)

-----------------------------------------------------------------------------
\* The flush, with this outcome.
Flushing(errno) ==
  /\ loading
  /\ flushing
  /\ flush_state # "done"
  /\ Flush.errno = errno
  /\ owed' = Flush.owed
  /\ UNCHANGED <<given, current, staging, out>>

\* load() returns with what the flush has written.
Yield ==
  /\ buffer' = Flush.written
  /\ loading' = FALSE
  /\ flushing' = FALSE
  /\ UNCHANGED <<done, stop_after_output>>

FlushMore ==
  /\ Flushing("E2BIG")
  /\ IF Flush.written = <<>> THEN flush_state' = "done" /\ End
     ELSE flush_state' = "in_progress" /\ Yield

FlushAll ==
  /\ Flushing("ok")
  /\ flush_state' = "done"
  /\ IF Flush.written = <<>> THEN End ELSE Yield

FlushFails ==
  /\ \E errno \in Errno \ {"ok", "E2BIG"} : Flushing(errno)
  /\ flush_state' = "done"
  /\ EndWith(Flush.written)

AfterFlush ==
  /\ loading
  /\ flushing
  /\ flush_state = "done"
  /\ End
  /\ UNCHANGED <<given, owed, current, staging, flush_state, out>>

-----------------------------------------------------------------------------
\* The program reads *it and increments.  (At the end of the output there is
\* nothing to read; that would be undefined.)
Increment ==
  /\ ~loading
  /\ ~done
  /\ buffer # <<>>
  /\ out' = Append(out, Head(buffer))
  /\ buffer' = Tail(buffer)
  /\ loading' = (Tail(buffer) = <<>>)
  /\ UNCHANGED <<given, owed, current, staging, flush_state, done, flushing,
                 stop_after_output>>

Next ==
  \/ StopAfterOutput
  \/ LoopEnds
  \/ ConvertAll
  \/ OutputFull
  \/ CutShort
  \/ Invalid
  \/ ConverterFails
  \/ FlushMore
  \/ FlushAll
  \/ FlushFails
  \/ AfterFlush
  \/ Increment

Spec == Init /\ [][Next]_vars
=============================================================================
