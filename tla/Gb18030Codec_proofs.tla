------------------------ MODULE Gb18030Codec_proofs ------------------------
(***************************************************************************)
(* What gb18030_encode_one encodes gb18030_decode_one decodes to the same, *)
(* and the other way round, for every index and table of ranges that have  *)
(* all code points between them.  The parts: the binary search of the      *)
(* ranges, the reverse index of tables::gbk, the bytes of a pointer, and   *)
(* the trip there and back, whose invariant says what the call that has    *)
(* returned may have given.                                                *)
(***************************************************************************)
EXTENDS Gb18030Codec, TLAPS

(***************************************************************************)
(* The range that has the key is never outside lo .. hi: the range at lo   *)
(* does not begin above the key, and the one behind hi does.               *)
(***************************************************************************)
KeyIsBetween ==
  /\ lo \in 0 .. Search!n - 1
  /\ hi \in 0 .. Search!n - 1
  /\ lo <= hi
  /\ Search!Row(lo)[by] <= key
  /\ hi + 1 < Search!n => key < Search!Row(hi + 1)[by]

FoundIsRight ==
  found # Search!NotFound => Search!IsRangeOf(by, key, found)

SearchInv ==
  /\ by \in Search!Keys
  /\ key \in Nat
  /\ KeyIsBetween
  /\ FoundIsRight

\* What an entry of the table is, and that the table is sorted by either key.
LEMMA RowType ==
  ASSUME Search!RangesAssumption, NEW b \in Search!Keys, NEW i \in 0 .. Search!n - 1
  PROVE  Search!Row(i)[b] \in Nat
<1>1. /\ Search!n \in Nat
      /\ Ranges \in Seq([Search!Keys -> Nat])
  BY DEF Search!RangesAssumption, Search!n
<1>2. i + 1 \in 1 .. Len(Ranges)
  BY <1>1 DEF Search!n
<1>3. Ranges[i + 1] \in [Search!Keys -> Nat]
  BY <1>1, <1>2
<1> QED
  BY <1>3 DEF Search!Row

\* The first half of the ranges and the second are not empty.
LEMMA MidBetween ==
  ASSUME lo \in Nat, hi \in Nat, lo <= hi
  PROVE  Search!Mid \in lo .. hi
<1>1. (hi - lo) \div 2 \in 0 .. hi - lo
  OBVIOUS
<1> QED
  BY <1>1 DEF Search!Mid

LEMMA SearchStarts ==
  ASSUME Search!RangesAssumption, Search!Init
  PROVE  SearchInv
<1>1. Search!n \in Nat /\ Search!n > 0
  BY DEF Search!RangesAssumption, Search!n
<1> QED
  BY <1>1 DEF Search!Init, SearchInv, KeyIsBetween, FoundIsRight, Search!NotFound

\* A search goes up when the next range does not begin above the key.
LEMMA UpKeepsKey ==
  ASSUME Search!RangesAssumption, SearchInv, Search!GoUp
  PROVE  SearchInv'
<1>1. Search!n \in Nat
  BY DEF Search!RangesAssumption, Search!n
<1>2. Search!Mid \in lo .. hi
  BY MidBetween DEF SearchInv, KeyIsBetween
<1>3. Search!Mid + 1 < Search!n /\ Search!Row(Search!Mid + 1)[by] <= key
  BY DEF Search!GoUp, Search!NextBegins
<1>4. lo' = Search!Mid + 1 /\ hi' = hi /\ by' = by /\ key' = key /\ found' = found
  BY DEF Search!GoUp
<1>5. lo' <= hi'
  <2>1. CASE Search!Mid < hi
    BY <1>1, <1>2, <1>4, <2>1 DEF SearchInv, KeyIsBetween
  <2>2. CASE Search!Mid = hi
    \* The next range would begin both above the key and not.
    <3>1. hi + 1 < Search!n /\ key < Search!Row(hi + 1)[by]
      BY <1>3, <2>2 DEF SearchInv, KeyIsBetween
    <3>2. Search!Row(hi + 1)[by] \in Nat
      BY RowType, <1>1, <3>1 DEF SearchInv, KeyIsBetween
    <3> QED
      BY <1>3, <2>2, <3>1, <3>2 DEF SearchInv
  <2> QED
    BY <1>1, <1>2, <2>1, <2>2 DEF SearchInv, KeyIsBetween
<1>6. KeyIsBetween'
  BY <1>1, <1>2, <1>3, <1>4, <1>5 DEF SearchInv, KeyIsBetween, Search!Row
<1>7. FoundIsRight'
  BY <1>4 DEF SearchInv, FoundIsRight, Search!IsRangeOf, Search!Row
<1> QED
  BY <1>4, <1>6, <1>7 DEF SearchInv

\* It goes down when the middle begins above the key, as the range at lo does not.
LEMMA DownKeepsKey ==
  ASSUME Search!RangesAssumption, SearchInv, Search!GoDown
  PROVE  SearchInv'
<1>1. Search!n \in Nat
  BY DEF Search!RangesAssumption, Search!n
<1>2. Search!Mid \in lo .. hi
  BY MidBetween DEF SearchInv, KeyIsBetween
<1>3. hi' = Search!Mid - 1 /\ lo' = lo /\ by' = by /\ key' = key /\ found' = found
  BY DEF Search!GoDown
<1>4. Search!Row(Search!Mid)[by] > key
  BY DEF Search!GoDown
<1>5. Search!Mid # lo
  <2>1. Search!Row(lo)[by] \in Nat
    BY RowType DEF SearchInv, KeyIsBetween
  <2> QED
    BY <1>4, <2>1 DEF SearchInv, KeyIsBetween
<1>6. KeyIsBetween'
  BY <1>1, <1>2, <1>3, <1>4, <1>5 DEF SearchInv, KeyIsBetween, Search!Row
<1>7. FoundIsRight'
  BY <1>3 DEF SearchInv, FoundIsRight, Search!IsRangeOf, Search!Row
<1> QED
  BY <1>3, <1>6, <1>7 DEF SearchInv

\* It stops where neither holds.
LEMMA StopIsRight ==
  ASSUME Search!RangesAssumption, SearchInv, Search!Stop
  PROVE  SearchInv'
<1>1. Search!n \in Nat
  BY DEF Search!RangesAssumption, Search!n
<1>2. Search!Mid \in lo .. hi
  BY MidBetween DEF SearchInv, KeyIsBetween
<1>3. found' = Search!Mid /\ lo' = lo /\ hi' = hi /\ by' = by /\ key' = key
  BY DEF Search!Stop
<1>4. Search!Row(Search!Mid)[by] <= key
  BY DEF Search!Stop
<1>5. Search!Mid + 1 < Search!n => key < Search!Row(Search!Mid + 1)[by]
  <2>1. SUFFICES ASSUME Search!Mid + 1 < Search!n PROVE key < Search!Row(Search!Mid + 1)[by]
    OBVIOUS
  <2>2. ~(Search!Row(Search!Mid + 1)[by] <= key)
    BY <2>1 DEF Search!Stop, Search!NextBegins
  <2>3. Search!Row(Search!Mid + 1)[by] \in Nat
    BY RowType, <1>1, <1>2, <2>1 DEF SearchInv, KeyIsBetween
  <2> QED
    BY <2>2, <2>3 DEF SearchInv
<1>6. KeyIsBetween'
  BY <1>3 DEF SearchInv, KeyIsBetween, Search!Row
<1>7. FoundIsRight'
  BY <1>1, <1>2, <1>3, <1>4, <1>5 DEF SearchInv, KeyIsBetween, FoundIsRight, Search!IsRangeOf, Search!Row
<1> QED
  BY <1>3, <1>6, <1>7 DEF SearchInv

\* The search ends at the range its key is in and never where the code says
\* std::unreachable(), for every ascending table (gb18030_ranges_encode and
\* gb18030_ranges_decode).
THEOREM SearchCorrect ==
  ASSUME Search!RangesAssumption
  PROVE  Search!Spec => []Search!SearchFinds
<1>1. Search!Init => SearchInv
  BY SearchStarts
<1>2. SearchInv /\ [Search!Step]_(Search!search) => SearchInv'
  <2>1. SUFFICES ASSUME SearchInv, [Search!Step]_(Search!search) PROVE SearchInv'
    OBVIOUS
  <2>2. CASE Search!GoUp
    BY <2>1, <2>2, UpKeepsKey
  <2>3. CASE Search!GoDown
    BY <2>1, <2>3, DownKeepsKey
  <2>4. CASE Search!Stop
    BY <2>1, <2>4, StopIsRight
  <2>5. CASE UNCHANGED Search!search
    BY <2>1, <2>5 DEF Search!search, SearchInv, KeyIsBetween, FoundIsRight, Search!IsRangeOf, Search!Row
  <2> QED
    BY <2>1, <2>2, <2>3, <2>4, <2>5 DEF Search!Step
<1>3. SearchInv => Search!SearchFinds
  BY DEF SearchInv, KeyIsBetween, FoundIsRight, Search!SearchFinds
<1> QED
  BY <1>1, <1>2, <1>3, PTL DEF Search!Spec

\* The distance from lo to hi gets smaller with every step that does not end
\* the search, so that it takes no more steps than there are ranges.
THEOREM SearchNarrows ==
  ASSUME Search!RangesAssumption
  PROVE  Search!Spec => [][found' # Search!NotFound \/ hi' - lo' < hi - lo]_(Search!search)
<1>1. Search!Init => SearchInv
  BY SearchStarts
<1>2. SearchInv /\ [Search!Step]_(Search!search) => SearchInv'
  <2>1. SUFFICES ASSUME SearchInv, [Search!Step]_(Search!search) PROVE SearchInv'
    OBVIOUS
  <2>2. CASE Search!Step
    BY <2>1, <2>2, UpKeepsKey, DownKeepsKey, StopIsRight DEF Search!Step
  <2>3. CASE UNCHANGED Search!search
    BY <2>1, <2>3 DEF Search!search, SearchInv, KeyIsBetween, FoundIsRight, Search!IsRangeOf, Search!Row
  <2> QED
    BY <2>1, <2>2, <2>3
<1>3. SearchInv /\ [Search!Step]_(Search!search) => [found' # Search!NotFound \/ hi' - lo' < hi - lo]_(Search!search)
  <2>1. SUFFICES ASSUME SearchInv, Search!Step PROVE found' # Search!NotFound \/ hi' - lo' < hi - lo
    OBVIOUS
  <2>2. Search!n \in Nat
    BY DEF Search!RangesAssumption, Search!n
  <2>3. Search!Mid \in lo .. hi
    BY <2>1, MidBetween DEF SearchInv, KeyIsBetween
  <2>4. lo \in Int /\ hi \in Int /\ Search!Mid \in Int
    BY <2>1, <2>2, <2>3 DEF SearchInv, KeyIsBetween
  <2>5. CASE Search!GoUp
    BY <2>3, <2>4, <2>5 DEF Search!GoUp
  <2>6. CASE Search!GoDown
    BY <2>3, <2>4, <2>6 DEF Search!GoDown
  <2>7. CASE Search!Stop
    BY <2>3, <2>4, <2>7, <2>1 DEF Search!Stop, Search!NotFound, SearchInv, KeyIsBetween
  <2> QED
    BY <2>1, <2>5, <2>6, <2>7 DEF Search!Step
<1> QED
  BY <1>1, <1>2, <1>3, PTL DEF Search!Spec

-----------------------------------------------------------------------------
\* The table being sorted, a key is in one range only.
LEMMA OneRange ==
  ASSUME Search!RangesAssumption, NEW b \in Search!Keys, NEW k \in Nat, NEW i, NEW j,
         Search!IsRangeOf(b, k, i), Search!IsRangeOf(b, k, j)
  PROVE  i = j
<1>1. Search!n \in Nat
  BY DEF Search!RangesAssumption, Search!n
<1>2. ASSUME NEW a, NEW c, Search!IsRangeOf(b, k, a), Search!IsRangeOf(b, k, c), a < c
      PROVE  FALSE
  <2>1. a \in 0 .. Search!n - 1 /\ c \in 0 .. Search!n - 1 /\ a + 1 \in 0 .. Search!n - 1
    BY <1>1, <1>2 DEF Search!IsRangeOf
  <2>2. k < Search!Row(a + 1)[b] /\ Search!Row(c)[b] <= k
    BY <1>1, <1>2, <2>1 DEF Search!IsRangeOf
  <2>3. Search!Row(a + 1)[b] \in Nat /\ Search!Row(c)[b] \in Nat
    BY RowType, <2>1
  <2>4. Search!Row(a + 1)[b] <= Search!Row(c)[b]
    <3>1. CASE a + 1 = c
      BY <2>3, <3>1
    <3>2. CASE a + 1 < c
      <4>1. a + 2 \in 1 .. Search!n /\ c + 1 \in 1 .. Search!n /\ a + 2 < c + 1
        BY <1>1, <2>1, <3>2
      <4>2. Ranges[a + 2][b] < Ranges[c + 1][b]
        BY <4>1 DEF Search!RangesAssumption
      <4>3. a + 1 + 1 = a + 2
        BY <2>1
      <4> QED
        BY <2>3, <4>2, <4>3 DEF Search!Row
    <3> QED
      BY <1>2, <2>1, <3>1, <3>2
  <2> QED
    BY <2>2, <2>3, <2>4
<1>3. i \in Int /\ j \in Int
  BY <1>1 DEF Search!IsRangeOf
<1> QED
  BY <1>2, <1>3

\* A code point comes back from its pointer if that pointer is still in the range
\* the code point is in, whatever the table: the condition the 18 code points
\* in NeitherWay do not meet.
THEOREM RangesRoundTrip ==
  ASSUME Search!RangesAssumption, NEW cp \in Nat, NEW i, NEW j,
         Search!IsRangeOf("codepoint", cp, i),
         i + 1 < Search!n => Search!PointerIn(i, cp) < Search!Row(i + 1).pointer,
         Search!IsRangeOf("pointer", Search!PointerIn(i, cp), j)
  PROVE  Search!CodePointIn(j, Search!PointerIn(i, cp)) = cp
<1>1. i \in 0 .. Search!n - 1 /\ "pointer" \in Search!Keys /\ "codepoint" \in Search!Keys
  BY DEF Search!IsRangeOf, Search!Keys
<1>2. Search!Row(i)["pointer"] \in Nat /\ Search!Row(i)["codepoint"] \in Nat
  BY <1>1, RowType
<1>3. Search!Row(i).codepoint <= cp
  BY DEF Search!IsRangeOf
<1>4. Search!PointerIn(i, cp) \in Nat /\ Search!Row(i).pointer <= Search!PointerIn(i, cp)
  BY <1>2, <1>3 DEF Search!PointerIn
<1>5. Search!IsRangeOf("pointer", Search!PointerIn(i, cp), i)
  BY <1>1, <1>4 DEF Search!IsRangeOf
<1>6. i = j
  BY <1>1, <1>4, <1>5, OneRange
<1> QED
  BY <1>2, <1>6 DEF Search!CodePointIn, Search!PointerIn

\* A later range has greater pointers and code points.
LEMMA RowsAscend ==
  ASSUME Search!RangesAssumption, NEW b \in Search!Keys,
         NEW i \in 0 .. Search!n - 1, NEW j \in 0 .. Search!n - 1, i <= j
  PROVE  /\ Search!Row(i)[b] \in Nat /\ Search!Row(j)[b] \in Nat
         /\ Search!Row(i)[b] <= Search!Row(j)[b]
<1>1. Search!n \in Nat
  BY DEF Search!RangesAssumption, Search!n
<1>2. Search!Row(i)[b] \in Nat /\ Search!Row(j)[b] \in Nat
  BY RowType
<1>3. CASE i = j
  BY <1>2, <1>3
<1>4. CASE i < j
  <2>1. i + 1 \in 1 .. Search!n /\ j + 1 \in 1 .. Search!n /\ i + 1 < j + 1
    BY <1>1, <1>4
  <2>2. Ranges[i + 1][b] < Ranges[j + 1][b]
    BY <2>1 DEF Search!RangesAssumption
  <2> QED
    BY <1>2, <2>2 DEF Search!Row
<1> QED
  BY <1>1, <1>3, <1>4

\* A later range has greater code points.
LEMMA CodePointsAscend ==
  ASSUME Search!RangesAssumption, NEW i \in 1 .. Search!n, NEW j \in 1 .. Search!n, i <= j
  PROVE  /\ Ranges[i].codepoint \in Nat /\ Ranges[j].codepoint \in Nat
         /\ Ranges[i].codepoint <= Ranges[j].codepoint
<1>1. Search!n \in Nat /\ "codepoint" \in Search!Keys
  BY DEF Search!RangesAssumption, Search!n, Search!Keys
<1>2. i - 1 \in 0 .. Search!n - 1 /\ j - 1 \in 0 .. Search!n - 1 /\ i - 1 + 1 = i /\ j - 1 + 1 = j
  BY <1>1
<1>3. Search!Row(i - 1)["codepoint"] \in Nat /\ Search!Row(j - 1)["codepoint"] \in Nat
  BY <1>1, <1>2, RowType
<1>4. Ranges[i]["codepoint"] \in Nat /\ Ranges[j]["codepoint"] \in Nat
  BY <1>2, <1>3 DEF Search!Row
<1>5. CASE i = j
  BY <1>4, <1>5
<1>6. CASE i < j
  <2>1. Ranges[i]["codepoint"] < Ranges[j]["codepoint"]
    BY <1>1, <1>6 DEF Search!RangesAssumption
  <2> QED
    BY <1>4, <2>1
<1> QED
  BY <1>1, <1>5, <1>6

\* Whatever pointer outside the gaps is decoded, the range the search ends at
\* gives it a code point below the next range and not above U+10FFFF: both
\* checks that guard std::unreachable() in gb18030_ranges_decode never fire.
THEOREM NothingUnreachable ==
  ASSUME Search!RangesAssumption, Search!SpacingAssumption, NEW ptr \in Nat, ~Search!InGap(ptr),
         NEW i, Search!IsRangeOf("pointer", ptr, i)
  PROVE  /\ i + 1 < Search!n => Search!CodePointIn(i, ptr) < Search!Row(i + 1).codepoint
         /\ Search!CodePointIn(i, ptr) <= 1114111
<1>1. Search!n \in Nat /\ i \in 0 .. Search!n - 1 /\ "pointer" \in Search!Keys /\ "codepoint" \in Search!Keys
  BY DEF Search!RangesAssumption, Search!n, Search!IsRangeOf, Search!Keys
<1>2. Search!Row(i)["pointer"] \in Nat /\ Search!Row(i)["codepoint"] \in Nat
  BY <1>1, RowType
<1>3. Search!Row(i).pointer <= ptr
  BY DEF Search!IsRangeOf
<1>4. CASE i + 1 < Search!n
  <2>1. i + 1 \in 0 .. Search!n - 1 /\ i + 1 \in 1 .. Search!n - 1 /\ i + 1 + 1 \in 1 .. Search!n /\ Search!n \in 1 .. Search!n
    BY <1>1, <1>4
  <2>2. Search!Row(i + 1)["pointer"] \in Nat /\ Search!Row(i + 1)["codepoint"] \in Nat
    BY <1>1, <2>1, RowType
  <2>3. ptr < Search!Row(i + 1).pointer
    BY <1>4 DEF Search!IsRangeOf
  <2>4. \/ Search!Row(i + 1).pointer - Search!Row(i).pointer <= Search!Row(i + 1).codepoint - Search!Row(i).codepoint
        \/ /\ Search!Row(i + 1).pointer = 189000
           /\ 39420 - Search!Row(i).pointer <= Search!Row(i + 1).codepoint - Search!Row(i).codepoint
    BY <2>1 DEF Search!SpacingAssumption, Search!Row
  <2>5. Search!CodePointIn(i, ptr) < Search!Row(i + 1).codepoint
    BY <1>2, <1>3, <2>2, <2>3, <2>4 DEF Search!CodePointIn, Search!InGap
  <2>6. Search!Row(i + 1).codepoint <= Ranges[Search!n].codepoint /\ Ranges[Search!n].codepoint \in Nat
    BY <1>1, <2>1, CodePointsAscend DEF Search!Row
  <2>7. Ranges[Search!n].codepoint <= 1114111
    <3>1. Search!Row(Search!n - 1)["pointer"] \in Nat /\ Search!n - 1 + 1 = Search!n
      BY <1>1, RowType
    <3>2. Ranges[Search!n].pointer \in Nat
      BY <3>1 DEF Search!Row
    <3> QED
      BY <2>6, <3>2 DEF Search!SpacingAssumption
  <2> QED
    BY <1>2, <2>2, <2>5, <2>6, <2>7 DEF Search!CodePointIn
<1>5. CASE i + 1 = Search!n
  BY <1>1, <1>2, <1>3, <1>5 DEF Search!CodePointIn, Search!InGap, Search!SpacingAssumption, Search!Row
<1> QED
  BY <1>1, <1>4, <1>5

-----------------------------------------------------------------------------
\* Building the reverse index of tables::gbk keeps the lookup right for the
\* pointers gone through so far (make_reverse_index and reverse_index::find).

\* A pointer that is not left out and has the code point.
IsOf(q, cp) == Table[q] = cp /\ ~Contains(Excluded, q)

FirstBelow(m, cp, r) ==
  \/ r = -1 /\ \A q \in DOMAIN Table : q < m => ~IsOf(q, cp)
  \/ r \in DOMAIN Table /\ r < m /\ IsOf(r, cp) /\ \A q \in DOMAIN Table : IsOf(q, cp) => r <= q

IndexTyped ==
  /\ pass \in {"shape", "fill", "built"}
  /\ p \in Nat /\ highest \in Nat /\ page_count \in Nat /\ next_page \in Nat

\* What the first pass knows of the pointers it has come to.
Measured ==
  pass = "shape" =>
    /\ seen # {} => page_count > 0
    /\ next_page = 0 /\ DOMAIN pages = {}
    /\ \A q \in DOMAIN Table :
         q < p /\ ~Contains(Excluded, q) => Table[q] <= highest /\ page_count > 0

\* Every code point that will have an entry has a page.
HasPages ==
  pass # "shape" =>
    \A q \in DOMAIN Table : ~Contains(Excluded, q) => Page(Table[q]) \in DOMAIN page_of

\* No page number wraps, two pages never share one, and what has no number yet
\* has no entry.
Numbered ==
  pass # "shape" =>
    /\ page_of = [h \in DOMAIN page_of |-> page_of[h]]
    /\ next_page <= p /\ p <= Word - 2
    /\ \A h \in DOMAIN page_of :
         page_of[h] = NoPage \/ (page_of[h] \in Nat /\ page_of[h] < next_page)
    /\ \A h, g \in DOMAIN page_of :
         page_of[h] = page_of[g] /\ page_of[h] # NoPage => h = g
    /\ \A a \in DOMAIN pages : pages[a] \in Nat /\ pages[a] > 0
    /\ \A n, slot : n >= next_page /\ n \in Nat => <<n, slot>> \notin DOMAIN pages

Entries ==
  pass # "shape" => \A cp \in Nat : FirstBelow(p, cp, Find(page_of, pages, cp))

BuiltAll == pass = "built" => AtEnd

IndexInv ==
  /\ IndexTyped /\ Measured /\ HasPages
  /\ Numbered /\ Entries /\ BuiltAll

-----------------------------------------------------------------------------
LEMMA PageOf ==
  ASSUME NEW a \in Nat, NEW b \in Nat
  PROVE  /\ Page(a) \in Nat
         /\ a <= b => Page(a) <= Page(b)
         /\ (/\ Page(a) = Page(b)
             /\ Slot(a) = Slot(b)) => a = b
<1>1. a = 256 * (a \div 256) + (a % 256) /\ b = 256 * (b \div 256) + (b % 256)
  OBVIOUS
<1>2. a \div 256 \in Nat /\ b \div 256 \in Nat /\ a % 256 \in 0 .. 255 /\ b % 256 \in 0 .. 255
  OBVIOUS
<1>3. a <= b => a \div 256 <= b \div 256
  BY <1>1, <1>2
<1> QED
  BY <1>1, <1>2, <1>3 DEF Page, Slot, PageSize

LEMMA PointersTyped ==
  ASSUME TableAssumption
  PROVE  \A q \in DOMAIN Table : q \in Nat /\ q <= Word - 3 /\ Table[q] \in Nat
  BY DEF TableAssumption

\* The pointers below the one after q are those below p, and q.
LEMMA ComesTo ==
  ASSUME TableAssumption, p \in Nat,
         NEW q \in DOMAIN Table, Comes(q)
  PROVE  /\ q \in Nat /\ p' = q + 1 /\ p' <= Word - 2 /\ p <= q
         /\ \A r \in DOMAIN Table : r \in Nat /\ (r < p' <=> r < p \/ r = q)
<1>1. \A r \in DOMAIN Table : r \in Nat /\ r <= Word - 3
  BY PointersTyped
<1> QED
  BY <1>1 DEF Comes, Word

LEMMA IndexStarts ==
  ASSUME TableAssumption
  PROVE  Init => IndexInv
<1> SUFFICES ASSUME Init PROVE IndexInv
  OBVIOUS
<1>1. \A q \in DOMAIN Table : q \in Nat
  BY PointersTyped
<1>2. DOMAIN pages = {}
  BY DEF Init
<1> QED
  BY <1>1, <1>2
  DEF Init, IndexInv, IndexTyped, Measured, HasPages, Numbered, Entries, BuiltAll

-----------------------------------------------------------------------------
LEMMA SkipKeepsIndex ==
  ASSUME TableAssumption, IndexInv, Skip
  PROVE  IndexInv'
<1>1. PICK q \in DOMAIN Table : Comes(q) /\ Contains(Excluded, q)
  BY DEF Skip
<1>2. /\ q \in Nat /\ p' = q + 1 /\ p' <= Word - 2 /\ p <= q
      /\ \A r \in DOMAIN Table : r \in Nat /\ (r < p' <=> r < p \/ r = q)
  BY <1>1, ComesTo DEF IndexInv, IndexTyped
<1>3. UNCHANGED <<pass, highest, seen, page_count, page_of, pages, next_page>>
  BY DEF Skip
<1>4. IndexTyped' /\ Measured' /\ HasPages'
  BY <1>1, <1>2, <1>3 DEF IndexInv, IndexTyped, Measured, HasPages
<1>5. Numbered'
  BY <1>2, <1>3 DEF IndexInv, IndexTyped, Numbered
<1>6. Entries'
  <2>1. ASSUME NEW cp \in Nat, NEW r, FirstBelow(p, cp, r)
        PROVE  FirstBelow(p', cp, r)
    BY <1>1, <1>2, <2>1 DEF FirstBelow, IsOf
  <2>2. ASSUME NEW cp
        PROVE  Find(page_of', pages', cp) = Find(page_of, pages, cp)
    BY <1>3
  <2> QED
    BY <1>3, <2>1, <2>2 DEF IndexInv, Entries
<1>7. BuiltAll'
  BY <1>3 DEF Skip, BuiltAll
<1> QED
  BY <1>4, <1>5, <1>6, <1>7 DEF IndexInv

LEMMA MeasureKeepsIndex ==
  ASSUME TableAssumption, IndexInv, Measure
  PROVE  IndexInv'
<1>1. PICK q \in DOMAIN Table :
        /\ Comes(q)
        /\ ~Contains(Excluded, q)
        /\ highest' = IF Table[q] > highest THEN Table[q] ELSE highest
        /\ seen' = seen \cup {Page(Table[q])}
        /\ page_count' = IF Page(Table[q]) \in seen THEN page_count ELSE page_count + 1
  BY DEF Measure
<1>2. /\ q \in Nat /\ p' = q + 1
      /\ \A r \in DOMAIN Table : r \in Nat /\ (r < p' <=> r < p \/ r = q)
  BY <1>1, ComesTo DEF IndexInv, IndexTyped
<1>3. \A r \in DOMAIN Table : Table[r] \in Nat
  BY PointersTyped
<1>4. pass = "shape" /\ UNCHANGED <<pass, page_of, pages, next_page>>
  BY DEF Measure
<1>5. page_count' > 0 /\ page_count' \in Nat
  BY <1>1, <1>4 DEF IndexInv, IndexTyped, Measured
<1>6. highest' \in Nat /\ highest' >= highest /\ highest' >= Table[q]
  BY <1>1, <1>3 DEF IndexInv, IndexTyped
<1>7. \A r \in DOMAIN Table : r < p' /\ ~Contains(Excluded, r) => Table[r] <= highest'
  BY <1>2, <1>3, <1>4, <1>6 DEF IndexInv, IndexTyped, Measured
<1> QED
  BY <1>2, <1>4, <1>5, <1>6, <1>7
     DEF IndexInv, IndexTyped, Measured, HasPages, Numbered, Entries, BuiltAll

LEMMA AllocateKeepsIndex ==
  ASSUME TableAssumption, IndexInv, Allocate
  PROVE  IndexInv'
<1>1. /\ pass = "shape" /\ AtEnd /\ pass' = "fill" /\ p' = 0
      /\ page_of' = [h \in 0 .. PageSlots - 1 |-> NoPage]
      /\ UNCHANGED <<highest, seen, page_count, pages, next_page>>
  BY DEF Allocate
<1>2. \A q \in DOMAIN Table : q \in Nat /\ Table[q] \in Nat
  BY PointersTyped
<1>3. next_page = 0 /\ DOMAIN pages = {}
  BY <1>1 DEF IndexInv, Measured
<1>4. HasPages'
  <2> SUFFICES ASSUME NEW q \in DOMAIN Table, ~Contains(Excluded, q)
               PROVE  Page(Table[q]) \in 0 .. PageSlots - 1
    BY <1>1 DEF HasPages
  <2>1. Table[q] <= highest /\ page_count > 0
    BY <1>1, <1>2 DEF IndexInv, Measured, AtEnd
  <2>2. /\ Page(Table[q]) \in Nat /\ Page(highest) \in Nat
        /\ Page(Table[q]) <= Page(highest)
    BY <1>2, <2>1, PageOf DEF IndexInv, IndexTyped
  <2> QED
    BY <2>1, <2>2 DEF PageSlots
<1>5. Numbered'
  BY <1>1, <1>3 DEF Numbered, Word
<1>6. Entries'
  <2> SUFFICES ASSUME NEW cp \in Nat
               PROVE  FirstBelow(0, cp, Find(page_of', pages', cp))
    BY <1>1 DEF Entries
  <2>1. Find(page_of', pages', cp) = -1
    BY <1>1 DEF Find
  <2> QED
    BY <1>2, <2>1 DEF FirstBelow
<1> QED
  BY <1>1, <1>4, <1>5, <1>6 DEF IndexInv, IndexTyped, Measured, BuiltAll

-----------------------------------------------------------------------------
LEMMA FillKeepsIndex ==
  ASSUME TableAssumption, IndexInv, Fill
  PROVE  IndexInv'
<1>1. PICK q \in DOMAIN Table :
        /\ Comes(q)
        /\ ~Contains(Excluded, q)
        /\ NumberPage(Table[q])
        /\ LET entry == <<PageNumber(Table[q]), Slot(Table[q])>>
           IN  IF entry \in DOMAIN pages THEN UNCHANGED pages ELSE Put(entry, q)
  BY DEF Fill
<1>2. /\ q \in Nat /\ p' = q + 1 /\ p' <= Word - 2 /\ p <= q
      /\ \A r \in DOMAIN Table : r \in Nat /\ (r < p' <=> r < p \/ r = q)
  BY <1>1, ComesTo DEF IndexInv, IndexTyped
<1>3. pass = "fill" /\ UNCHANGED <<pass, highest, seen, page_count>>
  BY DEF Fill
<1> DEFINE c == Table[q]
           h == Page(c)
           n == PageNumber(c)
           entry == <<n, Slot(c)>>
<1>4. c \in Nat /\ h \in DOMAIN page_of
  BY <1>1, <1>3, PointersTyped DEF IndexInv, HasPages
<1>5. /\ page_of = [g \in DOMAIN page_of |-> page_of[g]]
      /\ next_page \in Nat /\ next_page <= q /\ q <= Word - 3
      /\ next_page < NoPage
  BY <1>2, <1>3 DEF IndexInv, IndexTyped, Numbered, Word, NoPage
<1>6. /\ page_of' = [page_of EXCEPT ![h] = n]
      /\ next_page' = IF page_of[h] = NoPage THEN next_page + 1 ELSE next_page
  <2>1. (next_page + 1) % 65536 = next_page + 1
    BY <1>5 DEF NoPage, Word
  <2> QED
    BY <1>1, <2>1 DEF NumberPage, Word
<1>7. /\ n \in Nat /\ n < next_page' /\ n # NoPage
      /\ n = IF page_of[h] = NoPage THEN next_page ELSE page_of[h]
  BY <1>3, <1>4, <1>5, <1>6 DEF PageNumber, IndexInv, Numbered
<1>8. IF entry \in DOMAIN pages THEN pages' = pages
      ELSE pages' = [a \in DOMAIN pages \cup {entry} |-> IF a = entry THEN q + 1 ELSE pages[a]]
  <2>1. (q + 1) % Word = q + 1
    BY <1>2, <1>5 DEF Word
  <2> QED
    BY <1>1, <2>1 DEF Put
<1> HIDE DEF c, h, n, entry
<1>9. IndexTyped' /\ Measured' /\ HasPages' /\ BuiltAll'
  BY <1>2, <1>3, <1>5, <1>6 DEF IndexInv, IndexTyped, Measured, HasPages, BuiltAll
\* A new number is a page's that had none, and no entry has it yet.
<1>10. \A g \in DOMAIN page_of :
         page_of[g] = NoPage \/ (page_of[g] \in Nat /\ page_of[g] < next_page)
  BY <1>3 DEF IndexInv, Numbered
<1>11. \A g \in DOMAIN page_of : g # h => page_of[g] # n
  BY <1>3, <1>4, <1>5, <1>7, <1>10 DEF IndexInv, Numbered
<1>12. Numbered'
  <2>1. \A g \in DOMAIN page_of' :
          page_of'[g] = NoPage \/ (page_of'[g] \in Nat /\ page_of'[g] < next_page')
    BY <1>5, <1>6, <1>7, <1>10
  <2>2. \A g, k \in DOMAIN page_of' :
          page_of'[g] = page_of'[k] /\ page_of'[g] # NoPage => g = k
    BY <1>3, <1>6, <1>11 DEF IndexInv, Numbered
  <2>3. \A m, slot : m >= next_page' /\ m \in Nat => <<m, slot>> \notin DOMAIN pages'
    BY <1>3, <1>5, <1>6, <1>7, <1>8 DEF IndexInv, Numbered, entry
  <2>4. page_of' = [g \in DOMAIN page_of' |-> page_of'[g]]
    BY <1>5, <1>6
  <2>5. next_page' <= p'
    BY <1>2, <1>5, <1>6
  <2>6. \A a \in DOMAIN pages' : pages'[a] \in Nat /\ pages'[a] > 0
    BY <1>2, <1>3, <1>8 DEF IndexInv, Numbered
  <2> QED
    BY <1>2, <2>1, <2>2, <2>3, <2>4, <2>5, <2>6 DEF Numbered
<1>13. Entries'
  <2> SUFFICES ASSUME NEW cp \in Nat
               PROVE  FirstBelow(p', cp, Find(page_of', pages', cp))
    BY DEF Entries
  <2>1. FirstBelow(p, cp, Find(page_of, pages, cp))
    BY <1>3 DEF IndexInv, Entries
  <2>2. CASE cp = c
    <3>1. page_of'[h] = n /\ h \in DOMAIN page_of' /\ entry \in DOMAIN pages'
      BY <1>4, <1>6, <1>8
    <3>2. Find(page_of', pages', cp) = pages'[entry] - 1
      BY <2>2, <3>1, <1>7 DEF Find, h, entry
    <3>3. CASE entry \in DOMAIN pages
      <4>1. page_of[h] = n
        BY <1>3, <1>5, <1>7, <3>3 DEF IndexInv, Numbered, entry
      <4>2. Find(page_of, pages, cp) = pages[entry] - 1
        BY <1>4, <1>7, <2>2, <3>3, <4>1 DEF Find, h, entry
      <4>3. Find(page_of', pages', cp) = Find(page_of, pages, cp)
        BY <1>8, <3>2, <3>3, <4>2
      <4>4. /\ Find(page_of', pages', cp) \in Int
            /\ Find(page_of', pages', cp) # -1
        BY <1>3, <3>3, <4>2, <4>3 DEF IndexInv, Numbered
      <4> QED
        BY <1>2, <2>1, <4>3, <4>4 DEF FirstBelow
    <3>4. CASE entry \notin DOMAIN pages
      <4>1. Find(page_of, pages, cp) = -1
        BY <1>4, <1>7, <2>2, <3>4 DEF Find, h, entry
      <4>2. Find(page_of', pages', cp) = q
        BY <1>2, <1>8, <3>2, <3>4
      <4>3. \A r \in DOMAIN Table : r < p => ~IsOf(r, cp)
        BY <1>2, <2>1, <4>1 DEF FirstBelow
      <4>4. IsOf(q, cp) /\ q < p'
        BY <1>1, <1>2, <2>2 DEF IsOf, c
      <4>5. \A r \in DOMAIN Table : IsOf(r, cp) => q <= r
        BY <1>1, <1>2, <4>3 DEF Comes, IndexInv, IndexTyped
      <4> QED
        BY <4>2, <4>4, <4>5 DEF FirstBelow
    <3> QED
      BY <3>3, <3>4
  <2>3. CASE cp # c
    <3>1. Find(page_of', pages', cp) = Find(page_of, pages, cp)
      <4>1. CASE Page(cp) = h
        <5>1. Slot(cp) # Slot(c)
          BY <1>4, <2>3, <4>1, PageOf DEF h
        <5>2. entry # <<n, Slot(cp)>>
          BY <5>1 DEF entry
        <5>3. page_of'[h] = n /\ h \in DOMAIN page_of' /\ h \in DOMAIN page_of
          BY <1>4, <1>6
        <5>4. /\ <<n, Slot(cp)>> \in DOMAIN pages'
                   <=> <<n, Slot(cp)>> \in DOMAIN pages
              /\ <<n, Slot(cp)>> \in DOMAIN pages =>
                   pages'[<<n, Slot(cp)>>] = pages[<<n, Slot(cp)>>]
          BY <1>8, <5>2
        <5>5. page_of[h] = NoPage => <<n, Slot(cp)>> \notin DOMAIN pages
          BY <1>3, <1>5, <1>7 DEF IndexInv, Numbered
        <5> QED
          BY <1>7, <4>1, <5>3, <5>4, <5>5 DEF Find
      <4>2. CASE Page(cp) # h
        <5> DEFINE k == Page(cp)
        <5> HIDE DEF k
        <5>1. /\ k \in DOMAIN page_of <=> k \in DOMAIN page_of'
              /\ k \in DOMAIN page_of => page_of'[k] = page_of[k]
          BY <1>6, <4>2 DEF k
        <5>2. k \in DOMAIN page_of => entry # <<page_of[k], Slot(cp)>>
          BY <1>11, <4>2 DEF entry, k
        <5>3. k \in DOMAIN page_of /\ <<page_of[k], Slot(cp)>> \in DOMAIN pages =>
                pages'[<<page_of[k], Slot(cp)>>] = pages[<<page_of[k], Slot(cp)>>]
          BY <1>8, <5>2
        <5>4. k \in DOMAIN page_of =>
                (<<page_of[k], Slot(cp)>> \in DOMAIN pages'
                   <=> <<page_of[k], Slot(cp)>> \in DOMAIN pages)
          BY <1>8, <5>2
        <5> QED
          BY <5>1, <5>3, <5>4 DEF Find, k
      <4> QED
        BY <4>1, <4>2
    <3> QED
      BY <1>1, <1>2, <2>1, <2>3, <3>1 DEF FirstBelow, IsOf, c
  <2> QED
    BY <2>2, <2>3
<1> QED
  BY <1>9, <1>12, <1>13 DEF IndexInv

LEMMA BuiltKeepsIndex ==
  ASSUME TableAssumption, IndexInv, Built
  PROVE  IndexInv'
<1>1. /\ pass = "fill" /\ pass' = "built" /\ AtEnd
      /\ UNCHANGED <<p, highest, seen, page_count, page_of, pages, next_page>>
  BY DEF Built
<1>2. \A cp : Find(page_of', pages', cp) = Find(page_of, pages, cp)
  BY <1>1
<1>3. AtEnd'
  BY <1>1 DEF AtEnd
<1> QED
  BY <1>1, <1>2, <1>3 DEF IndexInv, IndexTyped, Measured, HasPages, Numbered, Entries, BuiltAll

LEMMA StutterKeepsIndex ==
  ASSUME IndexInv,
         UNCHANGED <<pass, p, highest, seen, page_count, page_of, pages, next_page>>
  PROVE  IndexInv'
<1>1. \A cp : Find(page_of', pages', cp) = Find(page_of, pages, cp)
  OBVIOUS
<1>2. AtEnd' <=> AtEnd
  BY DEF AtEnd
<1> QED
  BY <1>1, <1>2 DEF IndexInv, IndexTyped, Measured, HasPages, Numbered, Entries, BuiltAll

LEMMA NextKeepsIndex ==
  ASSUME TableAssumption
  PROVE  IndexInv /\ Next => IndexInv'
  BY SkipKeepsIndex, MeasureKeepsIndex, AllocateKeepsIndex, FillKeepsIndex, BuiltKeepsIndex DEF Next


\* A built index finds the first pointer of every code point that has one that is
\* not left out, and none for any other.
LEMMA BuiltFinds ==
  ASSUME TableAssumption, IndexInv, pass = "built",
         NEW cp \in Nat
  PROVE  IsFirstPointer(Table, Excluded, cp, Find(page_of, pages, cp))
<1> DEFINE got == Find(page_of, pages, cp)
<1>2. FirstBelow(p, cp, got)
  BY DEF IndexInv, Entries
<1>3. \A q \in DOMAIN Table : q < p
  BY DEF IndexInv, BuiltAll, AtEnd
<1>4. \A q : q \in PointersOf(Table, Excluded, cp) <=> q \in DOMAIN Table /\ IsOf(q, cp)
  BY DEF PointersOf, IsOf, Contains, Contains
<1> HIDE DEF got
<1>5. got = -1 /\ (\A q \in DOMAIN Table : ~IsOf(q, cp)) => IsFirstPointer(Table, Excluded, cp, got)
  BY <1>4 DEF IsFirstPointer
<1>6. /\ got \in DOMAIN Table /\ IsOf(got, cp)
      /\ \A q \in DOMAIN Table : IsOf(q, cp) => got <= q
      => IsFirstPointer(Table, Excluded, cp, got)
  BY <1>4 DEF IsFirstPointer
<1>7. IsFirstPointer(Table, Excluded, cp, got)
  BY <1>2, <1>3, <1>5, <1>6 DEF FirstBelow
<1> QED
  BY <1>7 DEF got

-----------------------------------------------------------------------------
\* The pointer of the four bytes of a pointer.
LEMMA FourBytesBack ==
  ASSUME NEW q \in Nat
  PROVE  Len(FourBytesOf(q)) = 4 /\ PointerOf(FourBytesOf(q)) = q
<1> DEFINE w == q \div 12600  x == (q \div 1260) % 10  y == (q \div 10) % 126  z == q % 10
<1>1. w \in Nat /\ x \in Nat /\ y \in Nat /\ z \in Nat
  OBVIOUS
<1>2. ((w * 10 + x) * 1260) + y * 10 + z = q
  <2>1. q \div 10 = 126 * (q \div 1260) + y
    OBVIOUS
  <2>2. q \div 1260 = 10 * w + x
    OBVIOUS
  <2>3. q = 10 * (q \div 10) + z
    OBVIOUS
  <2>4. q \div 10 \in Nat /\ q \div 1260 \in Nat
    OBVIOUS
  <2> HIDE DEF w, x, y, z
  <2> QED
    BY <1>1, <2>1, <2>2, <2>3, <2>4
<1>3. FourBytesOf(q) = <<w + 129, x + 48, y + 129, z + 48>>
  BY DEF FourBytesOf
<1> HIDE DEF w, x, y, z
<1> QED
  BY <1>1, <1>2, <1>3 DEF PointerOf

\* The four bytes of the pointer of four bytes.
LEMMA PointerBack ==
  ASSUME NEW b \in FourBytes
  PROVE  Len(b) = 4 /\ PointerOf(b) \in Nat /\ FourBytesOf(PointerOf(b)) = b
<1>1. \E w \in 0 .. 125, x \in 0 .. 9, y \in 0 .. 125, z \in 0 .. 9 :
        b = <<w + 129, x + 48, y + 129, z + 48>>
  <2>1. /\ b = <<b[1], b[2], b[3], b[4]>>
        /\ b[1] \in 129 .. 254 /\ b[2] \in 48 .. 57 /\ b[3] \in 129 .. 254 /\ b[4] \in 48 .. 57
    BY FourBytesAssumption
  <2> DEFINE w == b[1] - 129  x == b[2] - 48  y == b[3] - 129  z == b[4] - 48
  <2>2. w \in 0 .. 125 /\ x \in 0 .. 9 /\ y \in 0 .. 125 /\ z \in 0 .. 9
    BY <2>1
  <2>3. b[1] = w + 129 /\ b[2] = x + 48 /\ b[3] = y + 129 /\ b[4] = z + 48
    BY <2>1
  <2> HIDE DEF w, x, y, z
  <2>4. b = <<w + 129, x + 48, y + 129, z + 48>>
    BY <2>1, <2>3, Zenon
  <2> QED
    BY <2>2, <2>4, Zenon
<1>2. PICK w \in 0 .. 125, x \in 0 .. 9, y \in 0 .. 125, z \in 0 .. 9 :
        b = <<w + 129, x + 48, y + 129, z + 48>>
  BY <1>1, Zenon
<1> DEFINE q == (w * 10 + x) * 1260 + y * 10 + z
<1>3. PointerOf(b) = q /\ Len(b) = 4
  <2>1. /\ b[1] = w + 129 /\ b[2] = x + 48 /\ b[3] = y + 129 /\ b[4] = z + 48 /\ Len(b) = 4
    BY <1>2
  <2>2. /\ w + 129 - 129 = w /\ x + 48 - 48 = x /\ y + 129 - 129 = y /\ z + 48 - 48 = z
    OBVIOUS
  <2> QED
    BY <2>1, <2>2 DEF PointerOf
<1>4. q \in Nat /\ q \div 12600 = w /\ (q \div 1260) % 10 = x /\ (q \div 10) % 126 = y /\ q % 10 = z
  <2>1. q \in Nat
    OBVIOUS
  <2>2. q \div 10 = (w * 10 + x) * 126 + y /\ q % 10 = z
    OBVIOUS
  <2>3. q \div 1260 = w * 10 + x
    OBVIOUS
  <2>4. q \div 12600 = w
    OBVIOUS
  <2>5. (w * 10 + x) % 10 = x
    OBVIOUS
  <2>6. ((w * 10 + x) * 126 + y) % 126 = y
    OBVIOUS
  <2> HIDE DEF q
  <2> QED
    BY <2>1, <2>2, <2>3, <2>4, <2>5, <2>6
<1> HIDE DEF q
<1>5. FourBytesOf(q) = <<w + 129, x + 48, y + 129, z + 48>>
  BY <1>4 DEF FourBytesOf
<1> QED
  <2>1. q \in Nat
    BY <1>4
  <2>2. FourBytesOf(q) = b
    BY <1>2, <1>5, Zenon
  <2> QED
    BY <1>3, <2>1, <2>2, Zenon

\* The pointer of the two bytes of a pointer: 0x7F is skipped both ways.
LEMMA GbkBytesBack ==
  ASSUME NEW q \in Nat
  PROVE  /\ Len(Codecs!GbkBytes(q)) = 2
         /\ Codecs!GbkPointer(Codecs!GbkBytes(q)[1], Codecs!GbkBytes(q)[2]) = q
<1> DEFINE row2 == q \div 190  cell == q % 190
           trail == IF cell + 64 >= 127 THEN cell + 65 ELSE cell + 64
<1>1. row2 \in Nat /\ cell \in 0 .. 189 /\ row2 * 190 + cell = q
  OBVIOUS
<1>2. Codecs!GbkBytes(q) = <<row2 + 129, trail>>
  BY DEF Codecs!GbkBytes
<1> HIDE DEF row2, cell
<1>3. Codecs!GbkPointer(row2 + 129, trail) = q
  BY <1>1 DEF Codecs!GbkPointer
<1> QED
  BY <1>2, <1>3

-----------------------------------------------------------------------------
InIndex(cp) == \E q \in DOMAIN Table : Table[q] = cp

\* What the ranges are searched for.
ByRanges(cp) == cp \in Nat /\ cp >= 128 /\ cp \notin {58853, 59335} /\ ~InIndex(cp)

\* What a code point is encoded as.
Encodes(cp, b) ==
  \/ cp \in 0 .. 127 /\ b = <<cp>>
  \/ cp = 58853 /\ b = NoBytes
  \/ /\ cp \in Nat /\ cp >= 128 /\ cp # 58853
     /\ \E q \in DOMAIN Table : Table[q] = cp /\ b = Codecs!GbkBytes(q)
  \/ cp = 59335 /\ ~InIndex(cp) /\ b = FourBytesOf(7457)
  \/ /\ ByRanges(cp)
     /\ \E i \in 0 .. Search!n - 1 :
          Search!IsRangeOf("codepoint", cp, i) /\ b = FourBytesOf(Search!PointerIn(i, cp))

\* What bytes are decoded to: by the ranges, as far as the check goes that the next
\* range begins above it.
Ranged(b, cp) ==
  /\ ~Search!InGap(PointerOf(b)) /\ PointerOf(b) # 7457
  /\ \E i \in 0 .. Search!n - 1 :
       /\ Search!IsRangeOf("pointer", PointerOf(b), i)
       /\ cp = Search!CodePointIn(i, PointerOf(b))
       /\ i + 1 < Search!n => cp < Search!Row(i + 1).codepoint

Decodes(b, cp) ==
  \/ Len(b) = 1 /\ cp = b[1]
  \/ Len(b) = 2 /\ cp = At(Table, Codecs!GbkPointer(b[1], b[2]))
  \/ /\ Len(b) = 4
     /\ \/ Search!InGap(PointerOf(b)) /\ cp = NoScalar
        \/ PointerOf(b) = 7457 /\ cp = 59335
        \/ Ranged(b, cp)

\* The trip of a scalar value, and that of four bytes.
ScalarTrip(s) ==
  \/ doing = "encode" /\ first = TRUE /\ scalar = s
  \/ doing = "decode" /\ first = FALSE /\ Encodes(s, bytes) /\ bytes # NoBytes
  \/ /\ doing = "nothing" /\ first = FALSE
     /\ Encodes(s, bytes) /\ (bytes = NoBytes \/ Decodes(bytes, scalar))

BytesTrip(b) ==
  \/ doing = "decode" /\ first = TRUE /\ bytes = b
  \/ doing = "encode" /\ first = FALSE /\ Decodes(b, scalar) /\ scalar # NoScalar
  \/ /\ doing = "nothing" /\ first = FALSE
     /\ Decodes(b, scalar) /\ (scalar = NoScalar \/ Encodes(scalar, bytes))

TripInv ==
  \/ given = <<>> /\ doing = "nothing" /\ first = TRUE
  \/ \E s \in Scalars : given = <<s>> /\ ScalarTrip(s)
  \/ given \in FourBytes /\ BytesTrip(given)

\* What is searched for, while something is.
LooksFor ==
  \/ Search!Idle
  \/ SearchInv /\ doing = "encode" /\ by = "codepoint" /\ key = scalar /\ ByRanges(scalar)
  \/ /\ SearchInv /\ doing = "decode" /\ by = "pointer"
     /\ Len(bytes) = 4 /\ key = PointerOf(bytes) /\ ~Search!InGap(key) /\ key # 7457

IInv ==
  /\ IndexInv
  /\ TripInv
  /\ LooksFor
  /\ pass # "built" => given = <<>>

\* The parts of the invariant of the search that its place in the trip does not change.
LEMMA RangesHold ==
  /\ Search!RangesAssumption /\ Search!SpacingAssumption
  /\ Search!n \in Nat /\ Search!n > 0
  /\ "pointer" \in Search!Keys /\ "codepoint" \in Search!Keys
  /\ Search!Row(0).pointer = 0 /\ Search!Row(0).codepoint = 128
<1>1. Search!RangesAssumption /\ Search!SpacingAssumption
  BY SearchAssumption
<1>2. Search!n \in Nat /\ Search!n > 0
  BY <1>1 DEF Search!RangesAssumption, Search!n
<1>3. Ranges[1] = [pointer |-> 0, codepoint |-> 128]
  BY CoverAssumption, SMTT(30)
<1>4. Search!Row(0) = Ranges[1]
  BY DEF Search!Row
<1> QED
  BY <1>1, <1>2, <1>3, <1>4 DEF Search!Keys

\* The pointer and the code point of a range, and what it gives.
LEMMA InRange ==
  ASSUME NEW b \in Search!Keys, NEW k \in Nat, NEW i \in 0 .. Search!n - 1,
         Search!IsRangeOf(b, k, i)
  PROVE  /\ Search!Row(i).pointer \in Nat /\ Search!Row(i).codepoint \in Nat
         /\ b = "codepoint" => Search!PointerIn(i, k) \in Nat
         /\ b = "pointer" => Search!CodePointIn(i, k) \in Nat /\ Search!CodePointIn(i, k) >= 128
<1>1. Search!Row(i)["pointer"] \in Nat /\ Search!Row(i)["codepoint"] \in Nat
  BY RangesHold, RowType
<1>2. Search!Row(i)[b] <= k
  BY DEF Search!IsRangeOf
<1>3. Search!Row(i).codepoint >= 128
  <2>1. 1 \in 1 .. Search!n /\ i + 1 \in 1 .. Search!n /\ 1 <= i + 1
    BY RangesHold
  <2>2. Ranges[1].codepoint <= Ranges[i + 1].codepoint
    BY <2>1, RangesHold, CodePointsAscend
  <2>3. Ranges[1].codepoint = 128
    BY RangesHold DEF Search!Row
  <2> QED
    BY <1>1, <2>2, <2>3 DEF Search!Row
<1>4. b = "codepoint" => Search!PointerIn(i, k) \in Nat
  BY <1>1, <1>2 DEF Search!PointerIn
<1>5. b = "pointer" => Search!CodePointIn(i, k) \in Nat /\ Search!CodePointIn(i, k) >= 128
  BY <1>1, <1>2, <1>3 DEF Search!CodePointIn
<1> QED
  BY <1>1, <1>4, <1>5

\* A code point of the index has two bytes, and one the ranges give has four.
LEMMA EncodedLength ==
  ASSUME NEW cp, NEW b, Encodes(cp, b)
  PROVE  /\ Len(b) \in {0, 1, 2, 4}
         /\ Len(b) = 0 => b = NoBytes
         /\ Len(b) = 4 => PointerOf(b) \in Nat
         /\ cp \in Nat
<1>1. ASSUME NEW q \in DOMAIN Table, b = Codecs!GbkBytes(q)
      PROVE  Len(b) = 2
  BY <1>1, IndexAssumption, GbkBytesBack DEF TableAssumption
<1>2. ASSUME NEW q \in Nat, b = FourBytesOf(q)
      PROVE  Len(b) = 4 /\ PointerOf(b) \in Nat
  BY <1>2, FourBytesBack
<1>3. ASSUME ByRanges(cp), NEW i \in 0 .. Search!n - 1, Search!IsRangeOf("codepoint", cp, i)
      PROVE  Search!PointerIn(i, cp) \in Nat
  BY <1>3, RangesHold, InRange DEF ByRanges
<1>4. CASE cp \in 0 .. 127 /\ b = <<cp>>
  BY <1>4
<1>5. CASE cp = 58853 /\ b = NoBytes
  BY <1>5 DEF NoBytes
<1>6. CASE /\ cp \in Nat /\ cp >= 128 /\ cp # 58853
           /\ \E q \in DOMAIN Table : Table[q] = cp /\ b = Codecs!GbkBytes(q)
  <2>1. Len(b) = 2
    BY <1>1, <1>6, SMTT(30)
  <2> QED
    BY <1>6, <2>1, SMTT(30)
<1>7. CASE cp = 59335 /\ ~InIndex(cp) /\ b = FourBytesOf(7457)
  BY <1>2, <1>7, SMTT(60)
<1>8. CASE /\ ByRanges(cp)
           /\ \E i \in 0 .. Search!n - 1 :
                Search!IsRangeOf("codepoint", cp, i) /\ b = FourBytesOf(Search!PointerIn(i, cp))
  <2>1. PICK i \in 0 .. Search!n - 1 :
          Search!IsRangeOf("codepoint", cp, i) /\ b = FourBytesOf(Search!PointerIn(i, cp))
    BY <1>8
  <2>2. Len(b) = 4 /\ PointerOf(b) \in Nat
    BY <1>2, <1>3, <1>8, <2>1
  <2> QED
    BY <1>8, <2>2 DEF ByRanges
<1> QED
  BY <1>4, <1>5, <1>6, <1>7, <1>8 DEF Encodes

\* Four bytes that are no error give a code point above U+007F.
LEMMA FourDecode ==
  ASSUME NEW b, Len(b) = 4, PointerOf(b) \in Nat, NEW cp, Decodes(b, cp)
  PROVE  cp = NoScalar \/ (cp \in Nat /\ cp >= 128)
<1>1. ASSUME Ranged(b, cp) PROVE cp \in Nat /\ cp >= 128
  <2>1. PICK i \in 0 .. Search!n - 1 :
          Search!IsRangeOf("pointer", PointerOf(b), i) /\ cp = Search!CodePointIn(i, PointerOf(b))
    BY <1>1 DEF Ranged
  <2> QED
    BY <2>1, RangesHold, InRange
<1> QED
  BY <1>1 DEF Decodes

-----------------------------------------------------------------------------
\* What is encoded is a number, and what is decoded has a pointer if it is four bytes.
LEMMA ScalarIs ==
  ASSUME TripInv, doing = "encode"
  PROVE  scalar \in Nat
<1>1. CASE \E s \in Scalars : given = <<s>> /\ ScalarTrip(s)
  <2>1. PICK s \in Scalars : ScalarTrip(s)
    BY <1>1
  <2>2. scalar = s
    BY <2>1 DEF ScalarTrip
  <2>3. s \in Nat
    BY ScalarsAssumption, SMTT(30)
  <2> QED
    BY <2>2, <2>3
<1>2. CASE given \in FourBytes /\ BytesTrip(given)
  <2>1. Len(given) = 4 /\ PointerOf(given) \in Nat
    BY <1>2, PointerBack
  <2>2. Decodes(given, scalar) /\ scalar # NoScalar
    BY <1>2 DEF BytesTrip
  <2> QED
    BY <2>1, <2>2, FourDecode
<1> QED
  BY <1>1, <1>2 DEF TripInv

LEMMA BytesAre ==
  ASSUME TripInv, doing = "decode"
  PROVE  Len(bytes) \in {1, 2, 4} /\ (Len(bytes) = 4 => PointerOf(bytes) \in Nat)
<1>1. CASE \E s \in Scalars : given = <<s>> /\ ScalarTrip(s)
  <2>1. PICK s \in Scalars : Encodes(s, bytes) /\ bytes # NoBytes
    BY <1>1 DEF ScalarTrip
  <2> QED
    BY <2>1, EncodedLength
<1>2. CASE given \in FourBytes /\ BytesTrip(given)
  BY <1>2, PointerBack DEF BytesTrip
<1> QED
  BY <1>1, <1>2 DEF TripInv

\* A call that returns goes on with the trip.
LEMMA EncodedGoesOn ==
  ASSUME TripInv, doing = "encode", NEW b, Encodes(scalar, b), Encoded(b)
  PROVE  TripInv'
<1>1. /\ bytes' = b /\ first' = FALSE /\ given' = given /\ scalar' = scalar
      /\ doing' = IF first /\ b # NoBytes THEN "decode" ELSE "nothing"
  BY DEF Encoded
<1>2. CASE \E s \in Scalars : given = <<s>> /\ ScalarTrip(s)
  <2>1. PICK s \in Scalars : given = <<s>> /\ ScalarTrip(s)
    BY <1>2
  <2>2. scalar = s /\ first = TRUE
    BY <2>1 DEF ScalarTrip
  <2>3. ScalarTrip(s)'
    BY <1>1, <2>2, Zenon DEF ScalarTrip
  <2> QED
    BY <1>1, <2>1, <2>3, Zenon DEF TripInv
<1>3. CASE given \in FourBytes /\ BytesTrip(given)
  <2>1. Decodes(given, scalar) /\ first = FALSE
    BY <1>3 DEF BytesTrip
  <2>2. doing' = "nothing"
    BY <1>1, <2>1
  <2>3. BytesTrip(given)'
    BY <1>1, <2>1, <2>2 DEF BytesTrip, Decodes, Ranged
  <2> QED
    BY <1>1, <1>3, <2>3 DEF TripInv
<1> QED
  BY <1>2, <1>3 DEF TripInv

LEMMA DecodedGoesOn ==
  ASSUME TripInv, doing = "decode", NEW cp, Decodes(bytes, cp), Decoded(cp)
  PROVE  TripInv'
<1>1. /\ scalar' = cp /\ first' = FALSE /\ given' = given /\ bytes' = bytes
      /\ doing' = IF first /\ cp # NoScalar THEN "encode" ELSE "nothing"
  BY DEF Decoded
<1>2. CASE \E s \in Scalars : given = <<s>> /\ ScalarTrip(s)
  <2>1. PICK s \in Scalars : given = <<s>> /\ ScalarTrip(s)
    BY <1>2
  <2>2. Encodes(s, bytes) /\ first = FALSE
    BY <2>1 DEF ScalarTrip
  <2>3. doing' = "nothing"
    BY <1>1, <2>2
  <2>4. ScalarTrip(s)'
    BY <1>1, <2>2, <2>3 DEF ScalarTrip
  <2> QED
    BY <1>1, <2>1, <2>4, Zenon DEF TripInv
<1>3. CASE given \in FourBytes /\ BytesTrip(given)
  <2>1. bytes = given /\ first = TRUE
    BY <1>3 DEF BytesTrip
  <2>2. BytesTrip(given)'
    BY <1>1, <2>1 DEF BytesTrip
  <2> QED
    BY <1>1, <1>3, <2>2 DEF TripInv
<1> QED
  BY <1>2, <1>3 DEF TripInv

\* While the trip has no search to do there is none.
LEMMA IdleKept ==
  ASSUME Search!Idle, UNCHANGED row
  PROVE  LooksFor'
BY DEF Search!Idle, Search!NotFound, row, LooksFor

LEMMA IdleAgain ==
  ASSUME Search!Forget
  PROVE  LooksFor'
BY DEF Search!Idle, Search!Forget, Search!NotFound, LooksFor

\* The reverse index finds what is in the index, whatever code points it is asked for.
LEMMA FindsInIndex ==
  ASSUME IndexInv, pass = "built", NEW cp \in Nat
  PROVE  /\ Find(page_of, pages, cp) \in Int
         /\ Find(page_of, pages, cp) >= 0 =>
              Find(page_of, pages, cp) \in DOMAIN Table /\ Table[Find(page_of, pages, cp)] = cp
         /\ Find(page_of, pages, cp) < 0 => ~InIndex(cp)
<1>1. PICK q : q = Find(page_of, pages, cp)
  OBVIOUS
<1>2. IsFirstPointer(Table, Excluded, cp, q)
  BY <1>1, IndexAssumption, BuiltFinds
<1>3. \A r \in DOMAIN Table : r \in Nat /\ ~Contains(Excluded, r)
  BY IndexAssumption, GbkAssumption DEF TableAssumption, Contains, NoPointers
<1>4. CASE PointersOf(Table, Excluded, cp) = {}
  <2>1. q = -1
    BY <1>2, <1>4 DEF IsFirstPointer
  <2>2. ~InIndex(cp)
    BY <1>3, <1>4 DEF PointersOf, InIndex
  <2> QED
    BY <1>1, <2>1, <2>2
<1>5. CASE PointersOf(Table, Excluded, cp) # {}
  <2>1. q \in DOMAIN Table /\ Table[q] = cp
    BY <1>2, <1>5 DEF IsFirstPointer, PointersOf
  <2> QED
    BY <1>1, <1>3, <2>1
<1> QED
  BY <1>4, <1>5

-----------------------------------------------------------------------------
\* Before the trip begins nothing is given.
LEMMA NothingGiven == (\A s : <<s>> # <<>>) /\ <<>> \notin FourBytes
<1>1. \A b \in FourBytes : Len(b) = 4
  BY PointerBack
<1>2. Len(<<>>) # 4 /\ \A s : <<s>> # <<>>
  OBVIOUS
<1> QED
  BY <1>1, <1>2

LEMMA IndexStays ==
  ASSUME IndexInv, UNCHANGED index
  PROVE  IndexInv'
BY StutterKeepsIndex DEF index

\* The index is built before the trip begins, and not changed during it.
LEMMA Building == IInv /\ Build => IInv'
<1>1. SUFFICES ASSUME IInv, Build PROVE IInv'
  OBVIOUS
<1>2. IndexInv'
  BY <1>1, IndexAssumption, NextKeepsIndex DEF IInv, Build
<1>3. UNCHANGED trip /\ UNCHANGED row
  BY <1>1 DEF Build
<1>4. given = <<>>
  BY <1>1 DEF IInv, Build, Next, Skip, Measure, Allocate, Fill, Built
<1>5. doing = "nothing" /\ first = TRUE
  BY <1>1, <1>4, NothingGiven DEF IInv, TripInv
<1>6. TripInv'
  BY <1>3, <1>4, <1>5 DEF TripInv, trip
<1>7. Search!Idle
  BY <1>1, <1>5 DEF IInv, LooksFor
<1> QED
  BY <1>2, <1>3, <1>4, <1>6, <1>7, IdleKept DEF IInv, trip

LEMMA Starting == IInv /\ Start => IInv'
<1>1. SUFFICES ASSUME IInv, Start PROVE IInv'
  OBVIOUS
<1>2. /\ pass = "built" /\ doing = "nothing" /\ given = <<>>
      /\ UNCHANGED index /\ UNCHANGED first /\ UNCHANGED row
  BY <1>1 DEF Start
<1>3. IndexInv'
  BY <1>1, <1>2, IndexStays DEF IInv
<1>4. first = TRUE
  BY <1>1, <1>2, NothingGiven DEF IInv, TripInv
<1>5. TripInv'
  <2>1. CASE \E s \in Scalars : given' = <<s>> /\ scalar' = s /\ doing' = "encode" /\ UNCHANGED bytes
    <3>1. PICK s \in Scalars : given' = <<s>> /\ scalar' = s /\ doing' = "encode"
      BY <2>1
    <3>2. ScalarTrip(s)'
      BY <1>2, <1>4, <3>1 DEF ScalarTrip
    <3> QED
      BY <3>1, <3>2 DEF TripInv
  <2>2. CASE \E b \in FourBytes : given' = b /\ bytes' = b /\ doing' = "decode" /\ UNCHANGED scalar
    <3>1. given' \in FourBytes /\ bytes' = given' /\ doing' = "decode"
      BY <2>2
    <3>2. BytesTrip(given)'
      BY <1>2, <1>4, <3>1 DEF BytesTrip
    <3> QED
      BY <3>1, <3>2 DEF TripInv
  <2> QED
    BY <1>1, <2>1, <2>2 DEF Start
<1>6. Search!Idle
  BY <1>1, <1>2 DEF IInv, LooksFor
<1>7. pass' = "built"
  BY <1>2 DEF index
<1> QED
  BY <1>2, <1>3, <1>5, <1>6, <1>7, IdleKept DEF IInv

\* A trip begins when the index is built.
LEMMA TripAfterBuilt ==
  ASSUME IInv, doing # "nothing"
  PROVE  pass = "built"
<1>1. given # <<>>
  BY NothingGiven DEF IInv, TripInv
<1> QED
  BY <1>1 DEF IInv

LEMMA EncodingAtOnce == IInv /\ EncodeWithoutRanges => IInv'
<1>1. SUFFICES ASSUME IInv, EncodeWithoutRanges PROVE IInv'
  OBVIOUS
<1>2. doing = "encode" /\ Search!Idle /\ UNCHANGED row
  BY <1>1 DEF EncodeWithoutRanges
<1>3. pass = "built" /\ scalar \in Nat
  BY <1>1, <1>2, TripAfterBuilt, ScalarIs DEF IInv
<1>4. PICK q : q = Find(page_of, pages, scalar)
  OBVIOUS
<1>5. /\ q \in Int
      /\ q >= 0 => q \in DOMAIN Table /\ Table[q] = scalar
      /\ q < 0 => ~InIndex(scalar)
  BY <1>1, <1>3, <1>4, FindsInIndex DEF IInv
<1>6. \E b : Encoded(b) /\ Encodes(scalar, b)
  <2>1. CASE scalar < 128 /\ Encoded(<<scalar>>)
    BY <1>3, <2>1 DEF Encodes
  <2>2. CASE scalar = 58853 /\ Encoded(NoBytes)
    BY <2>2 DEF Encodes
  <2>3. CASE scalar >= 128 /\ scalar # 58853 /\ q >= 0 /\ Encoded(Codecs!GbkBytes(q))
    BY <1>3, <1>5, <2>3 DEF Encodes
  <2>4. CASE scalar = 59335 /\ q < 0 /\ Encoded(FourBytesOf(7457))
    BY <1>5, <2>4 DEF Encodes
  <2> QED
    BY <1>1, <1>4, <2>1, <2>2, <2>3, <2>4 DEF EncodeWithoutRanges
<1>7. PICK b : Encoded(b) /\ Encodes(scalar, b)
  BY <1>6
<1>8. TripInv'
  BY <1>1, <1>2, <1>7, EncodedGoesOn DEF IInv
<1>9. UNCHANGED index
  BY <1>7 DEF Encoded
<1>10. pass' = "built"
  BY <1>3, <1>9 DEF index
<1> QED
  BY <1>1, <1>2, <1>8, <1>9, <1>10, IndexStays, IdleKept DEF IInv

\* A search that begins has the first range and the last on either side.
LEMMA SearchBegins ==
  ASSUME NEW b \in Search!Keys, NEW k \in Nat, Search!Row(0)[b] <= k, Search!Begin(b, k)
  PROVE  SearchInv'
<1>1. by' = b /\ key' = k /\ lo' = 0 /\ hi' = Search!n - 1 /\ found' = -1
  BY DEF Search!Begin, Search!NotFound
<1>2. Search!n \in Nat /\ Search!n > 0
  BY RangesHold
<1>3. KeyIsBetween'
  BY <1>1, <1>2 DEF KeyIsBetween, Search!Row
<1> QED
  BY <1>1, <1>3 DEF SearchInv, FoundIsRight, Search!NotFound

LEMMA EncodingBegins == IInv /\ EncodeByRanges => IInv'
<1>1. SUFFICES ASSUME IInv, EncodeByRanges PROVE IInv'
  OBVIOUS
<1>2. /\ doing = "encode" /\ scalar >= 128 /\ scalar \notin {58853, 59335}
      /\ Find(page_of, pages, scalar) < 0
      /\ Search!Begin("codepoint", scalar)
      /\ UNCHANGED index /\ UNCHANGED trip
  BY <1>1 DEF EncodeByRanges
<1>3. pass = "built" /\ scalar \in Nat
  BY <1>1, <1>2, TripAfterBuilt, ScalarIs DEF IInv
<1>4. ByRanges(scalar)
  BY <1>1, <1>2, <1>3, FindsInIndex DEF IInv, ByRanges
<1>5. SearchInv'
  BY <1>2, <1>3, RangesHold, SearchBegins
<1>6. LooksFor'
  BY <1>2, <1>4, <1>5 DEF LooksFor, Search!Begin, trip
<1>7. TripInv'
  BY <1>1, <1>2 DEF IInv, TripInv, ScalarTrip, BytesTrip, trip
<1>8. pass' = "built"
  BY <1>2, <1>3 DEF index
<1> QED
  BY <1>1, <1>2, <1>6, <1>7, <1>8, IndexStays DEF IInv

LEMMA EncodingEnds == IInv /\ EncodeFound => IInv'
<1>1. SUFFICES ASSUME IInv, EncodeFound PROVE IInv'
  OBVIOUS
<1>2. /\ doing = "encode" /\ found # Search!NotFound /\ Search!Forget
      /\ Encoded(FourBytesOf(Search!PointerIn(found, scalar)))
  BY <1>1 DEF EncodeFound
<1>3. SearchInv /\ by = "codepoint" /\ key = scalar /\ ByRanges(scalar)
  BY <1>1, <1>2 DEF IInv, LooksFor, Search!Idle
<1>4. Search!IsRangeOf("codepoint", scalar, found) /\ found \in 0 .. Search!n - 1
  BY <1>2, <1>3 DEF SearchInv, FoundIsRight, Search!IsRangeOf
<1>5. Encodes(scalar, FourBytesOf(Search!PointerIn(found, scalar)))
  BY <1>3, <1>4 DEF Encodes
<1>6. TripInv'
  BY <1>1, <1>2, <1>5, EncodedGoesOn DEF IInv
<1>7. UNCHANGED index
  BY <1>2 DEF Encoded
<1>8. pass' = "built"
  BY <1>1, <1>2, <1>7, TripAfterBuilt DEF index
<1> QED
  BY <1>1, <1>2, <1>6, <1>7, <1>8, IndexStays, IdleAgain DEF IInv

LEMMA DecodingAtOnce == IInv /\ DecodeWithoutRanges => IInv'
<1>1. SUFFICES ASSUME IInv, DecodeWithoutRanges PROVE IInv'
  OBVIOUS
<1>2. doing = "decode" /\ Search!Idle /\ UNCHANGED row
  BY <1>1 DEF DecodeWithoutRanges
<1>3. PICK cp : Decoded(cp) /\ Decodes(bytes, cp)
  <2>1. CASE Len(bytes) = 1 /\ Decoded(bytes[1])
    BY <2>1 DEF Decodes
  <2>2. CASE Len(bytes) = 2 /\ Decoded(At(Table, Codecs!GbkPointer(bytes[1], bytes[2])))
    BY <2>2 DEF Decodes
  <2>3. CASE Len(bytes) = 4 /\ Search!InGap(PointerOf(bytes)) /\ Decoded(NoScalar)
    BY <2>3 DEF Decodes
  <2>4. CASE Len(bytes) = 4 /\ PointerOf(bytes) = 7457 /\ Decoded(59335)
    BY <2>4 DEF Decodes
  <2> QED
    BY <1>1, <2>1, <2>2, <2>3, <2>4 DEF DecodeWithoutRanges
<1>4. TripInv'
  BY <1>1, <1>2, <1>3, DecodedGoesOn DEF IInv
<1>5. UNCHANGED index
  BY <1>3 DEF Decoded
<1>6. pass' = "built"
  BY <1>1, <1>2, <1>5, TripAfterBuilt DEF index
<1> QED
  BY <1>1, <1>2, <1>4, <1>5, <1>6, IndexStays, IdleKept DEF IInv

LEMMA DecodingBegins == IInv /\ DecodeByRanges => IInv'
<1>1. SUFFICES ASSUME IInv, DecodeByRanges PROVE IInv'
  OBVIOUS
<1>2. /\ doing = "decode" /\ Len(bytes) = 4
      /\ ~Search!InGap(PointerOf(bytes)) /\ PointerOf(bytes) # 7457
      /\ Search!Begin("pointer", PointerOf(bytes))
      /\ UNCHANGED index /\ UNCHANGED trip
  BY <1>1 DEF DecodeByRanges
<1>3. PointerOf(bytes) \in Nat
  BY <1>1, <1>2, BytesAre DEF IInv
<1>4. SearchInv'
  BY <1>2, <1>3, RangesHold, SearchBegins
<1>5. by' = "pointer" /\ key' = PointerOf(bytes) /\ bytes' = bytes /\ doing' = "decode"
  BY <1>2 DEF Search!Begin, trip
<1>6. PointerOf(bytes)' = PointerOf(bytes)
  BY <1>5 DEF PointerOf
<1>7. Search!InGap(key)' = Search!InGap(PointerOf(bytes))
  BY <1>5 DEF Search!InGap
<1>8. LooksFor'
  BY <1>2, <1>4, <1>5, <1>6, <1>7 DEF LooksFor
<1>9. TripInv'
  BY <1>1, <1>2 DEF IInv, TripInv, ScalarTrip, BytesTrip, trip
<1>10. pass' = "built"
  BY <1>1, <1>2, TripAfterBuilt DEF index
<1> QED
  BY <1>1, <1>2, <1>8, <1>9, <1>10, IndexStays DEF IInv

LEMMA DecodingEnds == IInv /\ DecodeFound => IInv'
<1>1. SUFFICES ASSUME IInv, DecodeFound PROVE IInv'
  OBVIOUS
<1> DEFINE cp == Search!CodePointIn(found, key)
<1>2. /\ doing = "decode" /\ found # Search!NotFound /\ Search!Forget
      /\ found + 1 < Search!n => cp < Search!Row(found + 1).codepoint
      /\ Decoded(cp)
  BY <1>1 DEF DecodeFound
<1>3. /\ SearchInv /\ by = "pointer" /\ Len(bytes) = 4
      /\ key = PointerOf(bytes) /\ ~Search!InGap(key) /\ key # 7457
  BY <1>1, <1>2 DEF IInv, LooksFor, Search!Idle
<1>4. Search!IsRangeOf("pointer", key, found) /\ found \in 0 .. Search!n - 1
  BY <1>2, <1>3 DEF SearchInv, FoundIsRight, Search!IsRangeOf
<1>5. Ranged(bytes, cp)
  BY <1>2, <1>3, <1>4 DEF Ranged
<1> HIDE DEF cp
<1>6. Decodes(bytes, cp)
  BY <1>3, <1>5 DEF Decodes
<1>7. TripInv'
  BY <1>1, <1>2, <1>6, DecodedGoesOn DEF IInv
<1>8. UNCHANGED index
  BY <1>2 DEF Decoded
<1>9. pass' = "built"
  BY <1>1, <1>2, <1>8, TripAfterBuilt DEF index
<1> QED
  BY <1>1, <1>2, <1>7, <1>8, <1>9, IndexStays, IdleAgain DEF IInv

LEMMA LookingUp == IInv /\ Lookup => IInv'
<1>1. SUFFICES ASSUME IInv, Lookup PROVE IInv'
  OBVIOUS
<1>2. Search!Step /\ UNCHANGED index /\ UNCHANGED trip
  BY <1>1 DEF Lookup
<1>3. by \in Search!Keys /\ by' = by /\ key' = key
  BY <1>2 DEF Search!Step, Search!GoUp, Search!GoDown, Search!Stop, Search!Searching
<1>4. ~Search!Idle
  BY <1>3 DEF Search!Idle, Search!Keys
<1>5. SearchInv
  BY <1>1, <1>4 DEF IInv, LooksFor
<1>6. SearchInv'
  BY <1>2, <1>5, RangesHold, UpKeepsKey, DownKeepsKey, StopIsRight DEF Search!Step
<1>7. UNCHANGED <<given, doing, first, scalar, bytes>>
  BY <1>2 DEF trip
<1>8. LooksFor'
  BY <1>1, <1>3, <1>4, <1>6, <1>7 DEF IInv, LooksFor, PointerOf, Search!InGap
<1>9. TripInv'
  BY <1>1, <1>7 DEF IInv, TripInv, ScalarTrip, BytesTrip
<1>10. pass' = pass
  BY <1>2 DEF index
<1> QED
  BY <1>1, <1>2, <1>7, <1>8, <1>9, <1>10, IndexStays DEF IInv

\* What is built, searched for and gone through keeps its invariant.
THEOREM TripInvariant == TripSpec => []IInv
<1>1. TripInit => IInv
  <2>1. SUFFICES ASSUME TripInit PROVE IInv
    OBVIOUS
  <2>2. IndexInv
    BY <2>1, IndexAssumption, IndexStarts DEF TripInit
  <2> QED
    BY <2>1, <2>2 DEF TripInit, IInv, TripInv, LooksFor
<1>2. IInv /\ [TripNext]_vars => IInv'
  <2>1. IInv /\ UNCHANGED vars => IInv'
    <3>1. SUFFICES ASSUME IInv, UNCHANGED vars PROVE IInv'
      OBVIOUS
    <3>2. UNCHANGED index /\ UNCHANGED trip /\ UNCHANGED row
      BY <3>1 DEF vars
    <3>3. TripInv'
      BY <3>1, <3>2 DEF IInv, TripInv, ScalarTrip, BytesTrip, trip
    <3>4. LooksFor'
      <4>1. CASE Search!Idle
        BY <3>2, <4>1, IdleKept
      <4>2. CASE ~Search!Idle
        <5>1. SearchInv
          BY <3>1, <4>2 DEF IInv, LooksFor
        <5>2. SearchInv'
          BY <3>2, <5>1 DEF SearchInv, KeyIsBetween, FoundIsRight, Search!IsRangeOf, Search!Row, row
        <5> QED
          BY <3>1, <3>2, <4>2, <5>2 DEF IInv, LooksFor, PointerOf, Search!InGap, row, trip
      <4> QED
        BY <4>1, <4>2
    <3> QED
      BY <3>1, <3>2, <3>3, <3>4, IndexStays DEF IInv, index, trip
  <2> QED
    BY <2>1, Building, Starting, EncodingAtOnce, EncodingBegins, EncodingEnds,
       DecodingAtOnce, DecodingBegins, DecodingEnds, LookingUp DEF TripNext
<1> QED
  BY <1>1, <1>2, PTL DEF TripSpec

-----------------------------------------------------------------------------
\* The index and the ranges have every code point but those that are named.
LEMMA NotOwned ==
  ASSUME NEW i \in 0 .. Search!n - 1, NEW cp, cp \in NeitherWay \cup {58853, 59335},
         Search!IsRangeOf("codepoint", cp, i)
  PROVE  ~Owns(i, cp)
BY CoverAssumption, SMTT(30)

LEMMA Owned ==
  ASSUME NEW i \in 0 .. Search!n - 1, NEW cp \in Scalars, ByRanges(cp), cp \notin NeitherWay,
         Search!IsRangeOf("codepoint", cp, i)
  PROVE  Owns(i, cp) /\ Search!PointerIn(i, cp) # 7457
<1>1. /\ cp >= 128 /\ cp \notin NeitherWay \cup {58853, 59335}
      /\ \A q \in DOMAIN Table : Table[q] # cp
  BY SMTT(30) DEF ByRanges, InIndex
<1> QED
  BY <1>1, CoverAssumption, SMTT(30)

LEMMA IndexHasNone ==
  ASSUME NEW q \in DOMAIN Table
  PROVE  Table[q] \notin NeitherWay
BY CoverAssumption, SMTT(30)

\* NeitherWay is private use.
LEMMA NeitherWayIs ==
  ASSUME NEW s \in NeitherWay
  PROVE  s \in Nat /\ s > 59000 /\ s # 59335
BY SMTT(30) DEF NeitherWay

\* What the two halves of a trip have decoded and encoded, of a code point by the
\* ranges: its pointer is its range's, or another range's, or nobody's.
LEMMA RangedBack ==
  ASSUME NEW s \in Scalars, ByRanges(s), NEW i \in 0 .. Search!n - 1,
         Search!IsRangeOf("codepoint", s, i),
         NEW b, b = FourBytesOf(Search!PointerIn(i, s)), NEW cp, Decodes(b, cp)
  PROVE  /\ s \in NeitherWay => cp # s
         /\ s \notin NeitherWay => cp = s
<1> DEFINE q == Search!PointerIn(i, s)
<1>1. s \in Nat /\ s >= 128 /\ s \notin {58853, 59335} /\ \A r \in DOMAIN Table : Table[r] # s
  BY DEF ByRanges, InIndex
<1>2. /\ q \in Nat /\ Search!Row(i).pointer \in Nat /\ Search!Row(i).codepoint \in Nat
  BY <1>1, RangesHold, InRange
<1>3. Len(b) = 4 /\ PointerOf(b) = q
  BY <1>2, FourBytesBack
<1>4. \/ Search!InGap(q) /\ cp = NoScalar
      \/ q = 7457 /\ cp = 59335
      \/ Ranged(b, cp)
  BY <1>3 DEF Decodes
<1>5. CASE s \notin NeitherWay
  <2>2. Owns(i, s) /\ q # 7457
    BY <1>5, Owned
  <2>3. ~Search!InGap(q) /\ (i + 1 < Search!n => q < Search!Row(i + 1).pointer)
    BY <2>2 DEF Owns
  <2>4. PICK j \in 0 .. Search!n - 1 :
          Search!IsRangeOf("pointer", q, j) /\ cp = Search!CodePointIn(j, q)
    BY <1>3, <1>4, <2>2, <2>3 DEF Ranged
  <2>5. cp = s
    BY <1>1, <2>3, <2>4, RangesHold, RangesRoundTrip
  <2> QED
    BY <1>5, <2>5
<1>6. CASE s \in NeitherWay
  <2>1. ~Owns(i, s)
    BY <1>6, NotOwned
  <2>2. CASE Search!InGap(q) /\ cp = NoScalar
    <3>1. cp = -1
      BY <2>2 DEF NoScalar
    <3> HIDE DEF q
    <3> QED
      BY <1>1, <1>6, <3>1, SMTT(30)
  <2>3. CASE q = 7457 /\ cp = 59335
    <3>1. cp = 59335
      BY <2>3
    <3> QED
      BY <1>6, <3>1, NeitherWayIs
  <2>4. CASE Ranged(b, cp)
    <3>1. PICK j \in 0 .. Search!n - 1 :
            Search!IsRangeOf("pointer", q, j) /\ cp = Search!CodePointIn(j, q) /\ ~Search!InGap(q)
      BY <1>3, <2>4 DEF Ranged
    <3>2. i + 1 < Search!n /\ ~(q < Search!Row(i + 1).pointer)
      BY <2>1, <3>1 DEF Owns
    <3>3. i + 1 \in 0 .. Search!n - 1 /\ Search!n \in Nat
      BY <3>2, RangesHold
    <3>4. Search!Row(i + 1)["pointer"] \in Nat
      BY <3>3, RangesHold, RowType
    <3>5. i + 1 <= j
      <4>1. SUFFICES ASSUME j < i + 1 PROVE FALSE
        BY <3>3
      <4>2. j + 1 \in 0 .. Search!n - 1 /\ j + 1 <= i + 1 /\ j + 1 < Search!n
        BY <3>2, <3>3, <4>1
      <4>3. Search!Row(j + 1)["pointer"] \in Nat
            /\ Search!Row(j + 1)["pointer"] <= Search!Row(i + 1)["pointer"]
        BY <3>3, <4>2, RangesHold, RowsAscend
      <4>4. q < Search!Row(j + 1)["pointer"]
        BY <3>1, <4>2 DEF Search!IsRangeOf
      <4> QED
        BY <1>2, <3>2, <3>4, <4>3, <4>4
    <3>6. /\ Search!Row(i + 1)["codepoint"] \in Nat /\ Search!Row(j)["codepoint"] \in Nat
          /\ Search!Row(i + 1)["codepoint"] <= Search!Row(j)["codepoint"]
      BY <3>3, <3>5, RangesHold, RowsAscend
    <3>7. s < Search!Row(i + 1)["codepoint"]
      BY <3>2 DEF Search!IsRangeOf
    <3>8. Search!Row(j)["pointer"] <= q /\ Search!Row(j)["pointer"] \in Nat
      BY <3>1, RangesHold, RowType DEF Search!IsRangeOf
    <3>9. cp = Search!Row(j)["codepoint"] + (q - Search!Row(j)["pointer"])
      BY <3>1 DEF Search!CodePointIn
    <3> HIDE DEF q
    <3>10. cp > s
      BY <1>1, <1>2, <3>6, <3>7, <3>8, <3>9
    <3> QED
      BY <1>1, <1>6, <3>10
  <2> QED
    BY <1>4, <2>2, <2>3, <2>4
<1> QED
  BY <1>5, <1>6

\* A scalar value there and back.
LEMMA ScalarComesBack ==
  ASSUME NEW s \in Scalars, NEW b, NEW cp, Encodes(s, b), b = NoBytes \/ Decodes(b, cp)
  PROVE  /\ s = 58853 => b = NoBytes
         /\ s \in NeitherWay => cp # s
         /\ s \notin NeitherWay \cup {58853} => cp = s
<1>1. CASE s \in 0 .. 127 /\ b = <<s>>
  <2>1. b # NoBytes /\ Len(b) = 1 /\ b[1] = s
    BY <1>1 DEF NoBytes
  <2>2. cp = s
    BY <2>1 DEF Decodes
  <2> QED
    BY <1>1, <2>2, NeitherWayIs
<1>2. CASE s = 58853 /\ b = NoBytes
  BY <1>2, NeitherWayIs
<1>3. CASE /\ s \in Nat /\ s >= 128 /\ s # 58853
           /\ \E q \in DOMAIN Table : Table[q] = s /\ b = Codecs!GbkBytes(q)
  <2>1. PICK q \in DOMAIN Table : Table[q] = s /\ b = Codecs!GbkBytes(q)
    BY <1>3
  <2>2. q \in Nat
    BY IndexAssumption DEF TableAssumption
  <2>3. Len(b) = 2 /\ Codecs!GbkPointer(b[1], b[2]) = q
    BY <2>1, <2>2, GbkBytesBack
  <2>4. b # NoBytes
    BY <2>3 DEF NoBytes
  <2>5. cp = At(Table, q)
    BY <2>3, <2>4 DEF Decodes
  <2>6. cp = s
    BY <2>1, <2>5 DEF At
  <2>7. s \notin NeitherWay
    BY <2>1, IndexHasNone
  <2> QED
    BY <1>3, <2>6, <2>7
<1>4. CASE s = 59335 /\ ~InIndex(s) /\ b = FourBytesOf(7457)
  <2>1. Len(b) = 4 /\ PointerOf(b) = 7457
    BY <1>4, FourBytesBack
  <2>2. b # NoBytes
    BY <2>1 DEF NoBytes
  <2>3. ~Search!InGap(7457)
    BY DEF Search!InGap
  <2>4. cp = 59335
    BY <2>1, <2>2, <2>3 DEF Decodes, Ranged
  <2> QED
    BY <1>4, <2>4, NeitherWayIs
<1>5. CASE /\ ByRanges(s)
           /\ \E i \in 0 .. Search!n - 1 :
                Search!IsRangeOf("codepoint", s, i) /\ b = FourBytesOf(Search!PointerIn(i, s))
  <2>1. PICK i \in 0 .. Search!n - 1 :
          Search!IsRangeOf("codepoint", s, i) /\ b = FourBytesOf(Search!PointerIn(i, s))
    BY <1>5
  <2>2. Search!PointerIn(i, s) \in Nat
    BY <1>5, <2>1, RangesHold, InRange DEF ByRanges
  <2>3. b # NoBytes
    <3>1. Len(b) = 4
      BY <2>1, <2>2, FourBytesBack
    <3> QED
      BY <3>1 DEF NoBytes
  <2>4. (s \in NeitherWay => cp # s) /\ (s \notin NeitherWay => cp = s)
    BY <1>5, <2>1, <2>3, RangedBack
  <2> QED
    BY <1>5, <2>4 DEF ByRanges
<1> QED
  BY <1>1, <1>2, <1>3, <1>4, <1>5 DEF Encodes

\* Four bytes there and back.
LEMMA BytesComeBack ==
  ASSUME NEW g \in FourBytes, NEW cp, NEW b, Decodes(g, cp), cp = NoScalar \/ Encodes(cp, b)
  PROVE  /\ Search!InGap(PointerOf(g)) => cp = NoScalar
         /\ ~Search!InGap(PointerOf(g)) => b = g \/ Len(b) = 2
<1> DEFINE q == PointerOf(g)
<1>1. Len(g) = 4 /\ q \in Nat /\ FourBytesOf(q) = g
  BY PointerBack
<1>2. \/ Search!InGap(q) /\ cp = NoScalar
      \/ q = 7457 /\ cp = 59335
      \/ Ranged(g, cp)
  BY <1>1 DEF Decodes
<1>3. ASSUME NEW r \in DOMAIN Table, b = Codecs!GbkBytes(r)
      PROVE  Len(b) = 2
  BY <1>3, IndexAssumption, GbkBytesBack DEF TableAssumption
<1>4. CASE Search!InGap(q) /\ cp = NoScalar
  BY <1>4
<1>5. CASE q = 7457 /\ cp = 59335
  <2>1. ~Search!InGap(q) /\ cp # NoScalar
    BY <1>5 DEF Search!InGap, NoScalar
  <2>2. \/ \E r \in DOMAIN Table : b = Codecs!GbkBytes(r)
        \/ b = FourBytesOf(7457)
    BY <1>5, <2>1 DEF Encodes, ByRanges
  <2> QED
    BY <1>1, <1>3, <1>5, <2>1, <2>2
<1>6. CASE Ranged(g, cp)
  <2>1. PICK i \in 0 .. Search!n - 1 :
          /\ Search!IsRangeOf("pointer", q, i) /\ cp = Search!CodePointIn(i, q)
          /\ i + 1 < Search!n => cp < Search!Row(i + 1).codepoint
          /\ ~Search!InGap(q)
    BY <1>6 DEF Ranged
  <2>2. /\ Search!Row(i).pointer \in Nat /\ Search!Row(i).codepoint \in Nat
        /\ cp \in Nat /\ cp >= 128
    BY <1>1, <2>1, RangesHold, InRange
  <2>3. Search!PointerIn(i, cp) = q /\ Search!Row(i).codepoint <= cp
    <3>1. Search!Row(i)["pointer"] <= q
      BY <2>1 DEF Search!IsRangeOf
    <3>2. cp = Search!Row(i).codepoint + (q - Search!Row(i).pointer)
      BY <2>1 DEF Search!CodePointIn
    <3> HIDE DEF q
    <3> QED
      BY <1>1, <2>2, <3>1, <3>2 DEF Search!PointerIn
  <2>4. Search!IsRangeOf("codepoint", cp, i)
    BY <2>1, <2>3 DEF Search!IsRangeOf
  <2>5. Owns(i, cp)
    BY <2>1, <2>3 DEF Owns, Search!IsRangeOf
  <2>6. cp \notin NeitherWay \cup {58853, 59335}
    BY <2>4, <2>5, NotOwned
  <2>7. \/ \E r \in DOMAIN Table : b = Codecs!GbkBytes(r)
        \/ \E k \in 0 .. Search!n - 1 :
             Search!IsRangeOf("codepoint", cp, k) /\ b = FourBytesOf(Search!PointerIn(k, cp))
    BY <2>2, <2>6 DEF Encodes, NoScalar
  <2>8. CASE \E k \in 0 .. Search!n - 1 :
               Search!IsRangeOf("codepoint", cp, k) /\ b = FourBytesOf(Search!PointerIn(k, cp))
    <3>1. PICK k \in 0 .. Search!n - 1 :
            Search!IsRangeOf("codepoint", cp, k) /\ b = FourBytesOf(Search!PointerIn(k, cp))
      BY <2>8
    <3>2. k = i
      BY <2>2, <2>4, <3>1, RangesHold, OneRange
    <3> QED
      BY <1>1, <2>1, <2>3, <3>1, <3>2
  <2> QED
    BY <1>3, <2>1, <2>7, <2>8
<1> QED
  BY <1>2, <1>4, <1>5, <1>6

\* Both directions use the same pointers, whatever the index, the table of ranges
\* and the scalar values: what is encoded and decoded again, or decoded and
\* encoded again, comes back, but for what the code makes an exception of
\* (gb18030_encode_one, gb18030_decode_one).
THEOREM RoundTrips == TripSpec => []RoundTrip
<1>1. IInv => RoundTrip
  <2>1. SUFFICES ASSUME IInv, Done PROVE RoundTrip
    BY SMTT(30) DEF RoundTrip
  <2>2. first = FALSE /\ doing = "nothing"
    BY <2>1 DEF IInv, TripInv, ScalarTrip, BytesTrip, Done
  <2>3. ASSUME NEW s \in Scalars, given = <<s>>, ScalarTrip(s)
        PROVE  RoundTrip
    <3>1. /\ s = 58853 => bytes = NoBytes
          /\ s \in NeitherWay => scalar # s
          /\ s \notin NeitherWay \cup {58853} => scalar = s
      BY <2>2, <2>3, ScalarComesBack DEF ScalarTrip
    <3>2. Len(given) = 1 /\ given[1] = s /\ Len(given) # 4
      BY <2>3
    <3>3. (given = <<58853>>) <=> s = 58853
      BY <2>3, SMTT(30)
    <3>4. s \in NeitherWay => s # 58853
      BY NeitherWayIs, SMTT(30)
    <3>5. s \notin NeitherWay \cup {58853} => <<scalar>> = given
      BY <2>3, <3>1, SMTT(30)
    <3> QED
      BY <2>3, <3>1, <3>2, <3>3, <3>4, <3>5, SMTT(30) DEF RoundTrip
  <2>4. CASE given \in FourBytes /\ BytesTrip(given)
    <3>1. Len(given) = 4 /\ Len(given) # 1
      BY <2>4, PointerBack
    <3>2. /\ Search!InGap(PointerOf(given)) => scalar = NoScalar
          /\ ~Search!InGap(PointerOf(given)) => bytes = given \/ Len(bytes) = 2
      BY <2>2, <2>4, BytesComeBack DEF BytesTrip
    <3>3. given # <<58853>>
      BY <3>1, SMTT(30)
    <3> QED
      BY <3>1, <3>2, <3>3, SMTT(30) DEF RoundTrip
  <2> QED
    BY <2>1, <2>2, <2>3, <2>4 DEF IInv, TripInv
<1> QED
  BY TripInvariant, <1>1, PTL

\* No std::unreachable() is reached: the search ends at a range, which gives the
\* pointer a code point below the next one and not above U+10FFFF, and two bytes
\* that were encoded have an entry (gb18030_decode_one, gb18030_ranges_decode).
NeverUnreachable ==
  /\ by \in Search!Keys /\ found = Search!NotFound => lo <= hi
  /\ doing = "decode" /\ found # Search!NotFound =>
       LET cp == Search!CodePointIn(found, key)
       IN  (found + 1 < Search!n => cp < Search!Row(found + 1).codepoint) /\ cp <= 1114111
  /\ doing = "decode" /\ Len(bytes) = 2 =>
       At(Table, Codecs!GbkPointer(bytes[1], bytes[2])) # 0

THEOREM UnreachableIsNot == TripSpec => []NeverUnreachable
<1>1. IInv => NeverUnreachable
  <2>1. SUFFICES ASSUME IInv PROVE NeverUnreachable
    OBVIOUS
  <2>2. by \in Search!Keys /\ found = Search!NotFound => lo <= hi
    <3>1. by \in Search!Keys => ~Search!Idle
      BY DEF Search!Keys, Search!Idle
    <3> QED
      BY <2>1, <3>1 DEF IInv, LooksFor, SearchInv, KeyIsBetween
  <2>3. ASSUME doing = "decode", found # Search!NotFound
        PROVE  LET cp == Search!CodePointIn(found, key)
               IN  (found + 1 < Search!n => cp < Search!Row(found + 1).codepoint) /\ cp <= 1114111
    <3>1. SearchInv /\ by = "pointer" /\ ~Search!InGap(key)
      BY <2>1, <2>3 DEF IInv, LooksFor, Search!Idle
    <3>2. Search!IsRangeOf("pointer", key, found) /\ key \in Nat
      BY <2>3, <3>1 DEF SearchInv, FoundIsRight
    <3> QED
      BY <3>1, <3>2, RangesHold, NothingUnreachable
  <2>4. ASSUME doing = "decode", Len(bytes) = 2
        PROVE  At(Table, Codecs!GbkPointer(bytes[1], bytes[2])) # 0
    <3>1. PICK s \in Scalars : Encodes(s, bytes)
      <4>1. CASE given \in FourBytes /\ BytesTrip(given)
        BY <2>4, <4>1, PointerBack DEF BytesTrip
      <4> QED
        BY <2>1, <2>4, <4>1 DEF IInv, TripInv, ScalarTrip
    <3>2. PICK q \in DOMAIN Table : bytes = Codecs!GbkBytes(q)
      <4>1. ASSUME NEW q \in Nat PROVE Len(FourBytesOf(q)) = 4
        BY FourBytesBack
      <4>2. ASSUME ByRanges(s), NEW i \in 0 .. Search!n - 1, Search!IsRangeOf("codepoint", s, i)
            PROVE  Search!PointerIn(i, s) \in Nat
        BY <4>2, RangesHold, InRange DEF ByRanges
      <4>3. Len(<<s>>) = 1 /\ Len(NoBytes) = 0
        BY DEF NoBytes
      <4>4. bytes # FourBytesOf(7457)
        BY <2>4, <4>1
      <4>5. ~(ByRanges(s) /\ \E i \in 0 .. Search!n - 1 :
                Search!IsRangeOf("codepoint", s, i) /\ bytes = FourBytesOf(Search!PointerIn(i, s)))
        BY <2>4, <4>1, <4>2
      <4> QED
        BY <2>4, <3>1, <4>3, <4>4, <4>5, SMTT(60) DEF Encodes
    <3>3. q \in Nat /\ Table[q] > 0 /\ Table[q] \in Nat
      BY IndexAssumption DEF TableAssumption
    <3>4. Codecs!GbkPointer(bytes[1], bytes[2]) = q
      BY <3>2, <3>3, GbkBytesBack
    <3> QED
      BY <3>3, <3>4 DEF At
  <2> QED
    BY <2>2, <2>3, <2>4 DEF NeverUnreachable
<1> QED
  BY TripInvariant, <1>1, PTL

=============================================================================
