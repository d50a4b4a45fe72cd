----------------------------- MODULE IconvBatch -----------------------------
(***************************************************************************)
(* What the iterators of the two iconv views have in common: what they are *)
(* given, the batch of input bytes that load() converts next, and what     *)
(* becomes of the bytes that are left of it.                               *)
(***************************************************************************)
EXTENDS IconvStream

CONSTANT StagingSize    \* sizeof(staging_): 64 in the code

ASSUME StagingAssumption == StagingSize \in Nat \ {0}

VARIABLES
  \* What the iterator is given, which does not change.
  input,        \* the bytes of the base range
  contiguous,   \* the base range is contiguous and sized
  size,         \* buffer_.size()
  opens,        \* fns_.open() returns a descriptor
  reset,        \* how the converter resets: its answer, and whether as a whole
  \* The converter.
  owed,         \* what it owes when the input ends
  \* The iterator.
  loading,      \* it is inside load()
  current,      \* how many bytes of the base range current_ has passed
  staging,      \* the places of the bytes in staging_
  buffer,       \* the output from output_pos_ to output_end_
  flush_state,
  done,         \* done_
  \* The program.
  out           \* the elements it has read

given == <<input, contiguous, size, opens, reset>>

\* Straight from a contiguous range, or through staging, filled from the range
\* first.
Straight == contiguous /\ staging = <<>> /\ current < Len(input)

Rest     == [k \in 1 .. Len(input) - current |-> current + k]
Room     == StagingSize - Len(staging)

\* Mutant: staging is filled without looking at its size.
BatchUnbounded == IF Straight THEN Rest ELSE staging \o Rest

Batch    == IF Straight THEN Rest
            ELSE staging \o SubSeq(Rest, 1, IF Room < Len(Rest) THEN Room ELSE Len(Rest))

\* Where current_ is once the whole batch is taken from the range.
Taken == current + Len(Batch) - Len(staging)

\* What converting the batch gives, behind the output already in the buffer.
Step    == Convert(input, Batch, owed, size - Len(buffer))
Written == Step.written
Left    == SubSeq(Batch, Step.used + 1, Len(Batch))

\* What is left stays in the range it was read from, or in staging.
Keep(left) ==
  IF Straight THEN current' = Taken - Len(left) /\ UNCHANGED staging
  ELSE current' = Taken /\ staging' = left

Stage(left) == current' = Taken /\ staging' = left

\* convert() without input, into the whole buffer.
Flush == Reset(owed, size, reset.whole, reset.answer)
=============================================================================
