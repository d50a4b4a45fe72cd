---------------------------- MODULE ReverseIndex ----------------------------
(***************************************************************************)
(* The reverse of an index, built in two passes over its pointers          *)
(* (src/include/beman/transcode/detail/reverse_index.hpp): the first finds *)
(* how many pages it takes, the second fills them.                         *)
(*                                                                         *)
(* A page has the code points that agree in all but the low 8 bits.        *)
(***************************************************************************)
EXTENDS Index

CONSTANTS
  Table,        \* the index
  Excluded,     \* the pointers left out
  CodePoints    \* the code points that are looked for

PageSize == 256
Word     == 65536     \* an entry, and a page number, has 16 bits
NoPage   == Word - 1

\* "reverse_index stores pointer + 1 in 16 bits"
TableAssumption ==
  /\ \A q \in DOMAIN Table : q \in Nat /\ q <= Word - 3 /\ Table[q] \in Nat /\ Table[q] > 0
  /\ Excluded.first \in Int /\ Excluded.last \in Int
  /\ CodePoints \subseteq Nat

Page(cp) == cp \div PageSize
Slot(cp) == cp % PageSize

VARIABLES
  pass,         \* "shape", "fill" and "built"
  p,            \* the first pointer the pass has not come to
  highest, seen, page_count,    \* what the first pass finds
  page_of,      \* the number of a page
  pages,        \* the entries that are not 0, by page number and slot
  next_page

index == <<pass, p, highest, seen, page_count, page_of, pages, next_page>>

Init ==
  /\ pass = "shape"
  /\ p = 0
  /\ highest = 0 /\ seen = {} /\ page_count = 0
  /\ page_of = <<>> /\ pages = <<>> /\ next_page = 0

-----------------------------------------------------------------------------
\* q is the pointer a pass comes to; it goes past those without a code point.
Comes(q) ==
  /\ q \in DOMAIN Table
  /\ q >= p
  /\ \A r \in DOMAIN Table : r >= p => q <= r
  /\ p' = q + 1

AtEnd == \A q \in DOMAIN Table : q < p

Skip ==
  /\ pass \in {"shape", "fill"}
  /\ \E q \in DOMAIN Table : Comes(q) /\ Contains(Excluded, q)
  /\ UNCHANGED <<pass, highest, seen, page_count, page_of, pages, next_page>>

Measure ==
  /\ pass = "shape"
  /\ \E q \in DOMAIN Table :
       /\ Comes(q)
       /\ ~Contains(Excluded, q)
       /\ highest' = IF Table[q] > highest THEN Table[q] ELSE highest
       /\ seen' = seen \cup {Page(Table[q])}
       /\ page_count' = IF Page(Table[q]) \in seen THEN page_count ELSE page_count + 1
  /\ UNCHANGED <<pass, page_of, pages, next_page>>

PageSlots == IF page_count > 0 THEN Page(highest) + 1 ELSE 0

Allocate ==
  /\ pass = "shape"
  /\ AtEnd
  /\ pass' = "fill"
  /\ p' = 0
  /\ page_of' = [hi \in 0 .. PageSlots - 1 |-> NoPage]
  /\ UNCHANGED <<highest, seen, page_count, pages, next_page>>

\* The page a code point's entry is on, with a number of its own if new.
PageNumber(cp) == IF page_of[Page(cp)] = NoPage THEN next_page ELSE page_of[Page(cp)]

NumberPage(cp) ==
  /\ page_of' = [page_of EXCEPT ![Page(cp)] = PageNumber(cp)]
  /\ next_page' = IF page_of[Page(cp)] = NoPage THEN (next_page + 1) % Word ELSE next_page

Put(at, q) ==
  pages' = [a \in DOMAIN pages \cup {at} |-> IF a = at THEN (q + 1) % Word ELSE pages[a]]

\* Mutant: a later pointer takes the place of an earlier one.
FillLast ==
  /\ pass = "fill"
  /\ \E q \in DOMAIN Table :
       /\ Comes(q)
       /\ ~Contains(Excluded, q)
       /\ NumberPage(Table[q])
       /\ Put(<<PageNumber(Table[q]), Slot(Table[q])>>, q)
  /\ UNCHANGED <<pass, highest, seen, page_count>>

\* An entry that is there stays: it is the lower pointer's.
Fill ==
  /\ pass = "fill"
  /\ \E q \in DOMAIN Table :
       /\ Comes(q)
       /\ ~Contains(Excluded, q)
       /\ NumberPage(Table[q])
       /\ LET at == <<PageNumber(Table[q]), Slot(Table[q])>>
          IN  IF at \in DOMAIN pages THEN UNCHANGED pages ELSE Put(at, q)
  /\ UNCHANGED <<pass, highest, seen, page_count>>

Built ==
  /\ pass = "fill"
  /\ AtEnd
  /\ pass' = "built"
  /\ UNCHANGED <<p, highest, seen, page_count, page_of, pages, next_page>>

\* The shape is a type's and the passes are functions: the next index starts anew.
Forget ==
  /\ pass = "built"
  /\ pass' = "shape"
  /\ p' = 0
  /\ highest' = 0 /\ seen' = {} /\ page_count' = 0
  /\ page_of' = <<>> /\ pages' = <<>> /\ next_page' = 0

Next == Skip \/ Measure \/ Allocate \/ Fill \/ Built

Spec == Init /\ [][Next]_index

-----------------------------------------------------------------------------
\* reverse_index::find
Find(of, in, cp) ==
  IF Page(cp) \notin DOMAIN of THEN -1
  ELSE IF of[Page(cp)] = NoPage \/ <<of[Page(cp)], Slot(cp)>> \notin DOMAIN in THEN -1
  ELSE in[<<of[Page(cp)], Slot(cp)>>] - 1

\* A built index finds the first pointer of every code point, its pages and
\* entries shared as they are, and none for a code point the table has only at
\* excluded pointers or not at all.
FindIsFirstPointer ==
  pass = "built" =>
    \A cp \in CodePoints : IsFirstPointer(Table, Excluded, cp, Find(page_of, pages, cp))
=============================================================================
