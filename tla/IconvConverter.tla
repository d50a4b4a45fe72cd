--------------------------- MODULE IconvConverter ---------------------------
(***************************************************************************)
(* The converter behind iconv_functions: convert() as POSIX describes      *)
(* iconv() and as the views rely on it.  It is not part of the repository; *)
(* this is what a caller of it has to be ready for.                        *)
(*                                                                         *)
(* The source encoding has characters of one byte and of two ("lead" and   *)
(* "trail"), and escapes that write nothing: "shift" leaves the target     *)
(* owing ResetSize bytes, which Reset writes at the end, and "unshift"     *)
(* leaves it owing nothing.  "fault" is where the converter itself fails.  *)
(* Bytes read and written are known by their places in the input, so that  *)
(* what is written tells what it was written for.                          *)
(***************************************************************************)
EXTENDS Integers, Sequences

ResetSize == 3

Byte == {"one", "lead", "trail", "shift", "unshift", "fault"}

Errno == {"ok", "E2BIG", "EINVAL", "EILSEQ", "other"}

\* An output byte: the n-th of those written for the character at a place.
Converted(place, n) == [byte |-> <<place, n>>]

\* The last `owed` of the bytes that reset the target.
Resets(owed) == [n \in 1 .. owed |-> [byte |-> <<0, ResetSize - owed + n>>]]

Unit(errno, used, written, owed) ==
  [errno |-> errno, used |-> used, written |-> written, owed |-> owed]

\* convert() without input, of a converter that owes `owed` bytes: it writes as
\* many of them as there is room for, or none if it writes them as a `whole`
\* and there is too little, and answers `answer` once it has written them all.
Reset(owed, room, whole, answer) ==
  IF owed > room
  THEN LET some == IF whole THEN 0 ELSE room
       IN  Unit("E2BIG", 0, SubSeq(Resets(owed), 1, some), owed - some)
  ELSE Unit(answer, 0, Resets(owed), 0)

\* What the converter makes of the bytes at the front of `places`, not empty,
\* when it owes `owed`: one character, one escape, or the error it meets.
Leading(input, places, owed) ==
  LET at == input[places[1]] IN
  CASE at = "one"     -> Unit("ok", 1, <<Converted(places[1], 1)>>, owed)
    [] at = "shift"   -> Unit("ok", 1, <<>>, ResetSize)
    [] at = "unshift" -> Unit("ok", 1, <<>>, 0)
    [] at = "trail"   -> Unit("EILSEQ", 0, <<>>, owed)
    [] at = "fault"   -> Unit("other", 0, <<>>, owed)
    [] at = "lead"    ->
         IF Len(places) = 1 THEN Unit("EINVAL", 0, <<>>, owed)
         ELSE IF input[places[2]] # "trail" THEN Unit("EILSEQ", 0, <<>>, owed)
         ELSE Unit("ok", 2, <<Converted(places[1], 1), Converted(places[1], 2)>>, owed)

\* convert() over `places` once it has come to u: the next character or escape,
\* or where it stops, at what does not fit or cannot be converted.
Onward(input, places, room, u) ==
  LET next == Leading(input, SubSeq(places, u.used + 1, Len(places)), u.owed) IN
  IF next.errno # "ok" THEN Unit(next.errno, u.used, u.written, u.owed)
  ELSE IF Len(u.written) + Len(next.written) > room
       THEN Unit("E2BIG", u.used, u.written, u.owed)
  ELSE Unit("ok", u.used + next.used, u.written \o next.written, next.owed)

Units(places) ==
  [errno : {"ok"}, used : 0 .. Len(places), written : Seq([byte : Nat \X Nat]),
   owed : 0 .. ResetSize]

\* convert() over `places`, with room for `room` bytes: what it has consumed and
\* written when it has come to the end of them or stops before.
Convert(input, places, owed, room) ==
  LET finish[u \in Units(places)] ==
        IF u.used = Len(places) THEN u
        ELSE LET v == Onward(input, places, room, u)
             IN  IF v.errno = "ok" THEN finish[v] ELSE v
  IN  finish[Unit("ok", 0, <<>>, owed)]
=============================================================================
