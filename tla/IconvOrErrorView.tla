-------------------------- MODULE IconvOrErrorView --------------------------
(***************************************************************************)
(* One iterator of iconv_transcode_or_error_view, from begin() to the      *)
(* sentinel.  It converts a batch into the caller's buffer, yields those   *)
(* bytes, and converts again; what one call leaves unconverted waits in    *)
(* `staging`.  One action is one increment or one call of load(), which    *)
(* ends as `errno` says; a load() that goes on to the flush is two.        *)
(***************************************************************************)
EXTENDS IconvBatch

VARIABLES
  error,        \* error_value_, or None if not has_error_
  terminal,     \* terminal_error_
  pending       \* pending_error_value_, or None if not pending_terminal_error_

iterator == <<loading, current, staging, buffer, flush_state, error, terminal,
              pending, done>>
vars     == <<given, owed, iterator, out>>

None  == "none"
Stale == Failed("nothing")

\* begin(): open() and, if it succeeds, load().
Init ==
  /\ owed = 0
  /\ loading = opens
  /\ current = 0
  /\ staging = <<>>
  /\ buffer = <<>>
  /\ flush_state = "not_started"
  /\ error = IF opens THEN None ELSE "open_failed"
  /\ terminal = ~opens
  /\ pending = None
  /\ done = FALSE
  /\ out = <<>>

-----------------------------------------------------------------------------
\* How load() returns.

\* With output, none of it read yet.
Yield(bytes) ==
  /\ buffer' = bytes
  /\ loading' = FALSE
  /\ UNCHANGED <<error, terminal, done>>

\* With an error, after which the range goes on unless `last`.
Report(e, last) ==
  /\ error' = e
  /\ terminal' = last
  /\ buffer' = <<>>
  /\ loading' = FALSE
  /\ UNCHANGED done

\* With the output there is, the error that ends the range being put off until
\* it has been read, or with that error.
EndWith(e, bytes) ==
  IF bytes # <<>> THEN Yield(bytes) /\ pending' = e
  ELSE Report(e, TRUE) /\ UNCHANGED pending

\* Mutant: done_ is not set.
EndNotDone ==
  /\ loading' = FALSE
  /\ UNCHANGED <<error, terminal, done>>

End ==
  /\ done' = TRUE
  /\ loading' = FALSE
  /\ UNCHANGED <<error, terminal>>

LoadPending ==
  /\ loading
  /\ pending # None
  /\ pending' = None
  /\ Report(pending, TRUE)
  /\ UNCHANGED <<given, owed, current, staging, flush_state, out>>

-----------------------------------------------------------------------------
\* A batch is converted into the buffer, empty now, with this outcome.
Converting(errno) ==
  /\ loading
  /\ pending = None
  /\ flush_state = "not_started"
  /\ Batch # <<>>
  /\ Step.errno = errno
  /\ owed' = Step.owed
  /\ UNCHANGED <<given, flush_state, out>>

\* All of it converted.  If that wrote nothing and was the last of the input,
\* load() goes on to the flush.
ConvertAll ==
  /\ Converting("ok")
  /\ Keep(<<>>)
  /\ UNCHANGED pending
  /\ IF Written = <<>> /\ Taken = Len(input)
     THEN UNCHANGED <<loading, error, terminal, done>> /\ buffer' = <<>>
     ELSE Yield(Written)

OutputFull ==
  /\ Converting("E2BIG")
  /\ Keep(Left)
  /\ UNCHANGED pending
  /\ IF Written # <<>> THEN Yield(Written) ELSE Report("output_full", TRUE)

\* A character cut short waits in staging for the rest of it, if there is more.
CutShort ==
  /\ Converting("EINVAL")
  /\ UNCHANGED pending
  /\ IF Written = <<>> /\ Taken = Len(input)
     THEN Stage(<<>>) /\ Report("incomplete_sequence", FALSE)
     ELSE Stage(Left) /\ Yield(Written)

\* What is invalid is met again once the output before it has been read, and
\* then one byte of it is skipped.
Invalid ==
  /\ Converting("EILSEQ")
  /\ UNCHANGED pending
  /\ IF Written # <<>> THEN Keep(Left) /\ Yield(Written)
     ELSE Keep(Tail(Left)) /\ Report("invalid_sequence", FALSE)

ConverterFails ==
  /\ Converting("other")
  /\ Keep(Left)
  /\ EndWith("system_error", Written)

-----------------------------------------------------------------------------
\* The flush, at the end of the input, with this outcome.
Flushing(errno) ==
  /\ loading
  /\ pending = None
  /\ Batch = <<>>
  /\ flush_state # "done"
  /\ Flush.errno = errno
  /\ owed' = Flush.owed
  /\ UNCHANGED <<given, current, staging, out>>

\* The bytes the target is owed do not all fit.
FlushMore ==
  /\ Flushing("E2BIG")
  /\ UNCHANGED pending
  /\ IF Flush.written # <<>>
     THEN flush_state' = "in_progress" /\ Yield(Flush.written)
     ELSE flush_state' = "done" /\ Report("output_full", TRUE)

\* Mutant: a flush that writes nothing is taken for output.
FlushAllYields ==
  /\ Flushing("ok")
  /\ flush_state' = "done"
  /\ UNCHANGED pending
  /\ Yield(Flush.written)

FlushAll ==
  /\ Flushing("ok")
  /\ flush_state' = "done"
  /\ UNCHANGED pending
  /\ IF Flush.written = <<>> THEN End /\ buffer' = <<>> ELSE Yield(Flush.written)

FlushFails ==
  /\ \E errno \in Errno \ {"ok", "E2BIG"} : Flushing(errno)
  /\ flush_state' = "done"
  /\ EndWith(ResetError(Flush.errno), Flush.written)

AfterFlush ==
  /\ loading
  /\ pending = None
  /\ flush_state = "done"
  /\ End
  /\ UNCHANGED <<given, owed, current, staging, buffer, flush_state, pending, out>>

-----------------------------------------------------------------------------
\* operator*.  Past the output there is whatever the buffer held before.
Element ==
  CASE error # None -> Failed(error)
    [] error = None /\ buffer # <<>> -> Head(buffer)
    [] OTHER -> Stale

\* The program reads the element and increments.  (Where there is nothing to
\* read, that moves output_pos_ past output_end_ and is undefined.)
Increment ==
  /\ ~loading
  /\ ~done
  /\ Element # Stale
  /\ out' = Append(out, Element)
  /\ IF error # None
     THEN /\ error' = None
          /\ done' = terminal
          /\ loading' = ~terminal
          /\ UNCHANGED buffer
     ELSE /\ buffer' = Tail(buffer)
          /\ loading' = (Tail(buffer) = <<>>)
          /\ UNCHANGED <<error, done>>
  /\ UNCHANGED <<given, owed, current, staging, flush_state, terminal, pending>>

Next ==
  \/ LoadPending
  \/ ConvertAll
  \/ OutputFull
  \/ CutShort
  \/ Invalid
  \/ ConverterFails
  \/ FlushMore
  \/ FlushAll
  \/ FlushFails
  \/ AfterFlush
  \/ Increment

Spec == Init /\ [][Next]_vars
=============================================================================
