---------------------------- MODULE Gb18030Codec ----------------------------
(***************************************************************************)
(* gb18030_encode_one and gb18030_decode_one on one character: a scalar    *)
(* value encoded and decoded again, or four bytes decoded and encoded      *)
(* again (src/include/beman/transcode/detail/gb18030.hpp).                 *)
(***************************************************************************)
EXTENDS ReverseIndex, Sequences

CONSTANTS
  Ranges,       \* the four-byte ranges
  Scalars,      \* the scalar values that are encoded
  FourBytes     \* the four-byte sequences that are decoded

ASSUME IndexAssumption == TableAssumption
ASSUME ScalarsAssumption ==
  \A s \in Scalars : s \in Nat /\ s <= 1114111 /\ (s < 55296 \/ s > 57343)
ASSUME FourBytesAssumption ==
  FourBytes \subseteq (129 .. 254) \X (48 .. 57) \X (129 .. 254) \X (48 .. 57)

VARIABLES
  given,        \* what the round trip begins with: <<a scalar value>>, four
                \* bytes, or <<>> before it begins
  doing,        \* "nothing", "encode" or "decode"
  first,        \* whether that is the first half of the round trip
  scalar,       \* what is encoded, or has been decoded, or NoScalar
  bytes,        \* what is decoded, or has been encoded, or NoBytes
  by, key, lo, hi, found

Codecs == INSTANCE TableCodecs
Search == INSTANCE Gb18030Ranges
ASSUME SearchAssumption == Search!RangesAssumption /\ Search!SpacingAssumption

\* tables::gbk has no more pointers than two bytes have, and none is left out.
ASSUME GbkAssumption ==
  /\ Excluded = NoPointers
  /\ \A q \in DOMAIN Table : q < 126 * 190

\* The private-use code points that have no entry in index gb18030, which has the
\* characters of GB 18030-2022 at their pointers, and are in no range either.
NeitherWay ==
  (59277 .. 59286) \cup {59422, 59430, 59435, 59436, 59442, 59459, 59476, 59492}

\* Whether the pointer that a range gives a code point is one of its own.
Owns(i, cp) ==
  LET pointer == Search!PointerIn(i, cp)
  IN  /\ ~Search!InGap(pointer)
      /\ i + 1 < Search!n => pointer < Search!Row(i + 1).pointer

\* The index and the ranges have every code point from U+0080 on, but for those in
\* NeitherWay and the two that both directions make an exception of.
ASSUME CoverAssumption ==
  /\ Ranges[1] = [pointer |-> 0, codepoint |-> 128]
  /\ \A q \in DOMAIN Table : Table[q] \notin NeitherWay
  /\ \A i \in 0 .. Search!n - 1 : \A cp \in NeitherWay \cup {58853, 59335} :
       Search!IsRangeOf("codepoint", cp, i) => ~Owns(i, cp)
  /\ \A i \in 0 .. Search!n - 1 : \A cp \in Scalars :
       /\ cp >= 128 /\ cp \notin NeitherWay \cup {58853, 59335}
       /\ Search!IsRangeOf("codepoint", cp, i)
       /\ \A q \in DOMAIN Table : Table[q] # cp
       => Owns(i, cp) /\ Search!PointerIn(i, cp) # 7457

trip == <<given, doing, first, scalar, bytes>>
row  == <<by, key, lo, hi, found>>
vars == <<index, trip, row>>

\* Not there yet, or an error.
NoScalar == -1
NoBytes  == <<>>

TripInit ==
  /\ Init
  /\ given = <<>> /\ doing = "nothing" /\ first = TRUE
  /\ scalar = NoScalar /\ bytes = NoBytes
  /\ Search!Idle

Build == Next /\ UNCHANGED <<trip, row>>

Start ==
  /\ pass = "built" /\ doing = "nothing" /\ given = <<>>
  /\ \/ \E s \in Scalars : given' = <<s>> /\ scalar' = s /\ doing' = "encode" /\ UNCHANGED bytes
     \/ \E b \in FourBytes : given' = b /\ bytes' = b /\ doing' = "decode" /\ UNCHANGED scalar
  /\ UNCHANGED <<index, first, row>>

\* What follows the first half is the other one; an error ends the trip.
Encoded(b) ==
  /\ bytes' = b
  /\ doing' = IF first /\ b # NoBytes THEN "decode" ELSE "nothing"
  /\ first' = FALSE
  /\ UNCHANGED <<index, given, scalar>>

Decoded(s) ==
  /\ scalar' = s
  /\ doing' = IF first /\ s # NoScalar THEN "encode" ELSE "nothing"
  /\ first' = FALSE
  /\ UNCHANGED <<index, given, bytes>>

-----------------------------------------------------------------------------
\* Mutant: the carry of the third byte is 10.
FourBytesOfTen(pointer) ==
  <<(pointer \div 12600) + 129, ((pointer \div 1260) % 10) + 48,
    ((pointer \div 10) % 10) + 129, (pointer % 10) + 48>>

FourBytesOf(pointer) ==
  <<(pointer \div 12600) + 129, ((pointer \div 1260) % 10) + 48,
    ((pointer \div 10) % 126) + 129, (pointer % 10) + 48>>

PointerOf(b) ==
  ((b[1] - 129) * 10 + (b[2] - 48)) * 1260 + (b[3] - 129) * 10 + (b[4] - 48)

EncodeWithoutRanges ==
  /\ doing = "encode"
  /\ LET pointer == Find(page_of, pages, scalar)
     IN  \/ scalar < 128 /\ Encoded(<<scalar>>)
         \/ scalar = 58853 /\ Encoded(NoBytes)         \* U+E5E5
         \/ /\ scalar >= 128 /\ scalar # 58853
            /\ pointer >= 0
            /\ Encoded(Codecs!GbkBytes(pointer))
         \/ /\ scalar = 59335 /\ pointer < 0         \* U+E7C7
            /\ Encoded(FourBytesOf(7457))
  /\ Search!Idle
  /\ UNCHANGED row

EncodeByRanges ==
  /\ doing = "encode"
  /\ scalar >= 128 /\ scalar \notin {58853, 59335}
  /\ Find(page_of, pages, scalar) < 0
  /\ Search!Idle
  /\ Search!Begin("codepoint", scalar)
  /\ UNCHANGED <<index, trip>>

EncodeFound ==
  /\ doing = "encode"
  /\ found # Search!NotFound
  /\ Encoded(FourBytesOf(Search!PointerIn(found, scalar)))
  /\ Search!Forget

DecodeWithoutRanges ==
  /\ doing = "decode"
  /\ \/ Len(bytes) = 1 /\ Decoded(bytes[1])
     \/ /\ Len(bytes) = 2
        /\ LET cp == At(Table, Codecs!GbkPointer(bytes[1], bytes[2]))
           IN  cp # 0 /\ Decoded(cp)                 \* else std::unreachable()
     \/ /\ Len(bytes) = 4
        /\ \/ Search!InGap(PointerOf(bytes)) /\ Decoded(NoScalar)
           \/ PointerOf(bytes) = 7457 /\ Decoded(59335)
  /\ Search!Idle
  /\ UNCHANGED row

DecodeByRanges ==
  /\ doing = "decode"
  /\ Len(bytes) = 4
  /\ ~Search!InGap(PointerOf(bytes)) /\ PointerOf(bytes) # 7457
  /\ Search!Idle
  /\ Search!Begin("pointer", PointerOf(bytes))
  /\ UNCHANGED <<index, trip>>

\* A code point of the next range, or above U+10FFFF, is std::unreachable().
DecodeFound ==
  /\ doing = "decode"
  /\ found # Search!NotFound
  /\ LET cp == Search!CodePointIn(found, key)
     IN  /\ found + 1 < Search!n => cp < Search!Row(found + 1).codepoint
         /\ cp <= 1114111
         /\ Decoded(cp)
  /\ Search!Forget

Lookup == Search!Step /\ UNCHANGED <<index, trip>>

TripNext ==
  \/ Build \/ Start
  \/ EncodeWithoutRanges \/ EncodeByRanges \/ EncodeFound
  \/ DecodeWithoutRanges \/ DecodeByRanges \/ DecodeFound
  \/ Lookup

TripSpec == TripInit /\ [][TripNext]_vars

\* The calls go on until they return.
FairTrip == TripSpec /\ WF_vars(TripNext)

-----------------------------------------------------------------------------
Done == ~first /\ doing = "nothing"

\* Both directions use the same pointers: what is encoded and decoded again,
\* or decoded and encoded again, comes back.  Only U+E5E5 has no encoding, and
\* only the pointers of no range decode to nothing; four bytes may have a shorter
\* form.  NeitherWay are encoded with pointers past the end of a range, which
\* another code point has (gb18030_encode_one, gb18030_ranges_encode and
\* gb18030_ranges_decode).
RoundTrip ==
  Done =>
    /\ given = <<58853>> => bytes = NoBytes
    /\ Len(given) = 1 /\ given[1] \in NeitherWay => scalar # given[1]
    /\ Len(given) = 1 /\ given[1] \notin NeitherWay \cup {58853} => <<scalar>> = given
    /\ Len(given) = 4 =>
         IF Search!InGap(PointerOf(given)) THEN scalar = NoScalar
         ELSE bytes = given \/ Len(bytes) = 2

\* Each call returns: the search ends, and no std::unreachable() is reached.
Terminates == <>Done
=============================================================================
