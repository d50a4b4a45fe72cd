--------------------------- MODULE Gb18030Ranges ---------------------------
(***************************************************************************)
(* The binary search of the four-byte ranges, by code point or by pointer  *)
(* (gb18030_ranges_encode and gb18030_ranges_decode).                      *)
(***************************************************************************)
EXTENDS Integers, Sequences

CONSTANT Ranges   \* the rows of tables::gb18030_ranges, in order

Keys == {"codepoint", "pointer"}
n    == Len(Ranges)

\* Each range begins above the one before it, by pointer and by code point.
RangesAssumption ==
  /\ n > 0
  /\ Ranges \in Seq([Keys -> Nat])
  /\ \A i, j \in 1 .. n : i < j => \A by \in Keys : Ranges[i][by] < Ranges[j][by]

\* The pointers no range has, which gb18030_ranges_decode begins with.
InGap(pointer) ==
  \/ pointer > 39419 /\ pointer < 189000
  \/ pointer > 1237575

\* A range has no more pointers, without those in a gap, than code points.
SpacingAssumption ==
  /\ \A i \in 1 .. n - 1 :
       \/ Ranges[i + 1].pointer - Ranges[i].pointer
            <= Ranges[i + 1].codepoint - Ranges[i].codepoint
       \/ /\ Ranges[i + 1].pointer = 189000
          /\ 39420 - Ranges[i].pointer <= Ranges[i + 1].codepoint - Ranges[i].codepoint
  /\ Ranges[n].pointer <= 1237575
  /\ 1237575 - Ranges[n].pointer <= 1114111 - Ranges[n].codepoint

VARIABLES
  by, key,      \* what is looked for
  lo, hi,       \* where, counting from 0 as the code does
  found         \* the number of the range that has it, or NotFound

NotFound == -1

search == <<by, key, lo, hi, found>>

Row(i) == Ranges[i + 1]
Mid    == lo + ((hi - lo) \div 2)

\* The pointer a range gives a code point, and the code point it gives a pointer.
PointerIn(i, cp)  == Row(i).pointer + (cp - Row(i).codepoint)
CodePointIn(i, p) == Row(i).codepoint + (p - Row(i).pointer)

\* A range that begins at or below a key, and is the last that does.
IsRangeOf(b, k, i) ==
  /\ i \in 0 .. n - 1
  /\ Row(i)[b] <= k
  /\ i + 1 < n => k < Row(i + 1)[b]

Begin(b, k) == by' = b /\ key' = k /\ lo' = 0 /\ hi' = n - 1 /\ found' = NotFound

Idle == by = "none" /\ key = 0 /\ lo = 0 /\ hi = -1 /\ found = NotFound

Forget == by' = "none" /\ key' = 0 /\ lo' = 0 /\ hi' = -1 /\ found' = NotFound

-----------------------------------------------------------------------------
Searching == by \in Keys /\ found = NotFound /\ lo <= hi

NextBegins == Mid + 1 < n /\ Row(Mid + 1)[by] <= key

\* Mutant: the middle stays in the search.
GoUpFromMid ==
  /\ Searching
  /\ NextBegins
  /\ lo' = Mid
  /\ UNCHANGED <<by, key, hi, found>>

GoUp ==
  /\ Searching
  /\ NextBegins
  /\ lo' = Mid + 1
  /\ UNCHANGED <<by, key, hi, found>>

GoDown ==
  /\ Searching
  /\ ~NextBegins
  /\ Row(Mid)[by] > key
  /\ hi' = Mid - 1
  /\ UNCHANGED <<by, key, lo, found>>

Stop ==
  /\ Searching
  /\ ~NextBegins
  /\ Row(Mid)[by] <= key
  /\ found' = Mid
  /\ UNCHANGED <<by, key, lo, hi>>

Step == GoUp \/ GoDown \/ Stop

\* The search on its own, for anything at or above the first range.
Init == \E b \in Keys : \E k \in Nat :
  /\ k >= Row(0)[b]
  /\ by = b /\ key = k /\ lo = 0 /\ hi = n - 1 /\ found = NotFound

Spec == Init /\ [][Step]_search

-----------------------------------------------------------------------------
\* The search ends at the range its key is in, the last that does not begin
\* above it, and never where the code says std::unreachable().
SearchFinds ==
  by \in Keys =>
    /\ found = NotFound => lo <= hi
    /\ found # NotFound => IsRangeOf(by, key, found)
=============================================================================
