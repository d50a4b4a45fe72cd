------------------------------- MODULE Index -------------------------------
(***************************************************************************)
(* A WHATWG index, as the tables in detail/tables/ hold one: an array from *)
(* pointer to code point with 0 where a pointer has none.  Here it is a    *)
(* function of the pointers that have one.                                 *)
(***************************************************************************)
EXTENDS Integers

At(index, p) == IF p \in DOMAIN index THEN index[p] ELSE 0

\* pointer_range: some pointers an encoder leaves out, and the default.
Contains(excluded, p) == excluded.first <= p /\ p <= excluded.last
NoPointers == [first |-> 0, last |-> -1]

PointersOf(index, excluded, cp) ==
  {p \in DOMAIN index : index[p] = cp /\ ~Contains(excluded, p)}

\* "the index pointer for code point": the first one, or -1.
IsFirstPointer(index, excluded, cp, p) ==
  LET all == PointersOf(index, excluded, cp)
  IN  IF all = {} THEN p = -1 ELSE p \in all /\ \A q \in all : p <= q
=============================================================================
