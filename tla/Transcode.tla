------------------------------ MODULE Transcode ------------------------------
(***************************************************************************)
(* Bytes of one encoding to bytes of another: whatwg::transcode<From, To>, *)
(* which decodes a code point when the encoder asks for one, and           *)
(* transcode_string, which decodes everything first                        *)
(* (src/include/beman/transcode/whatwg/), over the codec objects           *)
(* whatwg::decoder and whatwg::encoder and the indexes they read.          *)
(*                                                                         *)
(* The encodings with modules of their own are not here.                   *)
(***************************************************************************)
EXTENDS TableCodecs, Utf8

CONSTANTS
  SingleByte,   \* the names of the single-byte encodings with a table
  Indexes,      \* the indexes that are reversed: a name, a table, what is excluded
  CodePoints,   \* the code points that occur
  Jobs,         \* what is asked for: from, to, src, and how (see Start)
  PushesBack    \* the encodings whose errors do not take an ASCII byte

VARIABLES
  pass, p, highest, seen, page_count, page_of, pages, next_page,
  made,         \* what each reverse index made so far finds
  job,
  phase,        \* "build", "decode" (and encode), "done" or "refused"
  at,           \* how many bytes of src have been read
  pending,      \* big5_decode_state: the code point kept, or 0
  text, ends,   \* the code points decoded, and at after each
  read,         \* how many of them have been encoded
  out

Reverse(table, excluded) == INSTANCE ReverseIndex WITH Table <- table, Excluded <- excluded

\* Each index is one that can be reversed.
ASSUME IndexesAssumption ==
  /\ Len(Indexes) \in Nat
  /\ \A i \in 1 .. Len(Indexes) :
       Reverse(Indexes[i].table, Indexes[i].excluded)!TableAssumption

index == <<pass, p, highest, seen, page_count, page_of, pages, next_page>>
work  == <<at, pending, text, ends, read, out>>
vars  == <<index, made, job, phase, work>>

NoJob == [from |-> "none"]

Init ==
  /\ Reverse(<<>>, NoPointers)!Init
  /\ made = <<>>
  /\ job = NoJob /\ phase = "build"
  /\ at = 0 /\ pending = 0 /\ text = <<>> /\ ends = <<>> /\ read = 0 /\ out = <<>>

-----------------------------------------------------------------------------
\* reverse_index_for of one index after another, in the order of Indexes.
Building(i) == phase = "build" /\ i = Len(made) + 1

Build == \E i \in 1 .. Len(Indexes) :
  /\ Building(i)
  /\ Reverse(Indexes[i].table, Indexes[i].excluded)!Next
  /\ UNCHANGED <<made, job, phase, work>>

Keep == \E i \in 1 .. Len(Indexes) :
  /\ Building(i)
  /\ pass = "built"
  /\ made' = Append(made, [cp \in CodePoints |->
                             Reverse(Indexes[i].table, Indexes[i].excluded)!Find(page_of, pages, cp)])
  /\ Reverse(Indexes[i].table, Indexes[i].excluded)!Forget
  /\ UNCHANGED <<job, phase, work>>

Named(name) == CHOOSE i \in 1 .. Len(Indexes) : Indexes[i].name = name
Table(name) == Indexes[Named(name)].table
Find(name, cp) == made[Named(name)][cp]

Replacement == 65533

IsScalar(cp) == cp \in Nat /\ cp <= 1114111 /\ ~IsSurrogate(cp)

\* Of this size, with these pointers left out, and nothing but code points that
\* are not ASCII and not the one that stands for an error.
IsTable(name, size, excluded) ==
  /\ \E i \in 1 .. Len(Indexes) : Indexes[i].name = name
  /\ \A i \in 1 .. Len(Indexes) :
       Indexes[i].name = name => Indexes[i].excluded = excluded
  /\ \A q \in DOMAIN Table(name) :
       q < size /\ IsScalar(Table(name)[q]) /\ Table(name)[q] >= 128 /\ Table(name)[q] # Replacement

\* What the tables are.  In index jis0208 the pointers that EUC-JP does not reach
\* have code points that have another one as well.
ASSUME TablesAssumption ==
  /\ \A name \in SingleByte : IsTable(name, 128, NoPointers)
  /\ IsTable("jis0208", 11280, NoPointers)
  /\ IsTable("shift_jis", 11280, [first |-> 8272, last |-> 8835])
  /\ Table("shift_jis") = Table("jis0208")
  /\ \A q \in DOMAIN Table("jis0208") : \E r \in DOMAIN Table("jis0208") :
       r < 8836 /\ Table("jis0208")[r] = Table("jis0208")[q]
  /\ IsTable("jis0212", 8836, NoPointers)
  /\ \A name \in {"jis0208", "jis0212"} : \A q \in DOMAIN Table(name) :
       Table(name)[q] \notin {165, 8254}
  /\ IsTable("big5", 19782, Big5Excluded)
  /\ IsTable("euc_kr", 23940, NoPointers)
  /\ IsTable("gbk", 23940, NoPointers)

-----------------------------------------------------------------------------
\* The single-byte encodings without a table.
NoTable == {"x_user_defined", "replacement"}

\* Of these two there is only single_byte_encode.
HasEncoder(j) ==
  /\ j.to \notin {"utf_16be", "utf_16le"}
  /\ j.to \in NoTable => j.how = "single_byte_view"

\* how: "forward" for the views of a forward range, "random_access" for those of
\* a random-access range, "single_byte_view" for single_byte_decode and _encode,
\* where from and to are single-byte encodings.  eager: transcode_string, or the
\* bulk functions, or a text decoded before it is encoded, instead of a pipeline.
Start ==
  /\ phase = "build" /\ Len(made) = Len(Indexes)
  /\ \E j \in Jobs :
       /\ job' = j
       /\ phase' = IF HasEncoder(j) THEN "decode" ELSE "refused"
  /\ UNCHANGED <<index, made, work>>

\* random_access_decode_codec, and single_byte_codec.
IsByteByByte(encoding) == encoding \in SingleByte \cup {"x_user_defined"}
IsSingleByte(encoding) == encoding \in SingleByte \cup NoTable

AtRandom ==
  \/ job.how = "random_access" /\ IsByteByByte(job.from)
  \/ job.how = "single_byte_view" /\ IsSingleByte(job.from)

AtEnd == at = Len(job.src) /\ pending = 0

\* A pipeline decodes the next code point when the last one has been encoded.
Wanted == phase = "decode" /\ ~AtEnd /\ (job.eager \/ read = Len(text))

Unread(from) == SubSeq(job.src, from + 1, Len(job.src))

\* whatwg::decoder<from>::decode_one, but for the code point Big5 keeps.
DecodeOne(from, b) ==
  CASE from = "utf_8"          -> Utf8Decode(b)
    [] from = "x_user_defined" -> XUserDefinedDecode(b[1])
    [] from = "replacement"    -> Failed(Len(b))
    [] from \in SingleByte     -> SingleByteDecode(Table(from), b[1])
    [] from = "big5"           -> Big5Decode(Table("big5"), b)
    [] from = "shift_jis"      -> ShiftJisDecode(Table("jis0208"), b)
    [] from = "euc_jp"         -> EucJpDecode(Table("jis0208"), Table("jis0212"), b)
    [] from = "euc_kr"         -> EucKrDecode(Table("euc_kr"), b)
    [] from = "gbk"            -> GbkDecode(Table("gbk"), b)

\* The encodings these are, other than the single-byte ones with a table.
Legacy == {"gbk", "big5", "shift_jis", "euc_jp", "euc_kr"}
Others == Legacy \cup {"utf_8", "x_user_defined", "replacement"}

\* GBK is no source: the bytes of an error that are read again and the four-byte
\* sequences are in Gb18030Decoder and Gb18030Codec.  single_byte_encode asks for
\* a random-access range, which a pipeline has after single_byte_decode.
ASSUME JobsAssumption ==
  /\ SingleByte \cap Others = {}
  /\ \A j \in Jobs :
       /\ j.from \in SingleByte \cup Others /\ j.from # "gbk"
       /\ HasEncoder(j) => j.to \in SingleByte \cup Others
       /\ j.src \in Seq(0 .. 255)
       /\ j.how \in {"forward", "random_access", "single_byte_view"}
       /\ j.how = "single_byte_view" => j.eager \/ IsSingleByte(j.from)
  /\ PushesBack \subseteq {"utf_8", "big5"}

\* CodePoints has whatever a job can decode to, where the encoder looks it up.
ASSUME CodePointsAssumption ==
  /\ CodePoints \subseteq Nat
  /\ 0 .. 255 \cup {Replacement} \subseteq CodePoints
  /\ \A j \in Jobs : j.to # "utf_8" => \A n \in 0 .. (Len(j.src) - 1) :
       LET r == DecodeOne(j.from, SubSeq(j.src, n + 1, Len(j.src)))
       IN  /\ r.code_point \in CodePoints \cup {Error}
           /\ j.from = "big5" => r.code_point2 \in CodePoints

\* The view's element, an error being U+FFFD.
Yield(cp, n) ==
  /\ text' = Append(text, IF cp = Error THEN Replacement ELSE cp)
  /\ ends' = Append(ends, n)
  /\ at' = n

\* bom_sniff: the encoding whose byte order mark b begins with.
BomSniff(b) ==
  LET Starts(mark) == Len(b) >= Len(mark) /\ SubSeq(b, 1, Len(mark)) = mark
  IN  CASE Starts(<<239, 187, 191>>) -> "utf_8"
        [] Starts(<<254, 255>>)      -> "utf_16be"
        [] Starts(<<255, 254>>)      -> "utf_16le"
        [] OTHER                     -> "nullopt"

\* decode_first: a U+FEFF is dropped; the view ends if nothing is left after it.
DecodeFirst ==
  /\ Wanted /\ ~AtRandom
  /\ job.from = "utf_8" /\ at = 0
  /\ LET r    == DecodeOne(job.from, job.src)
         next == DecodeOne(job.from, Unread(r.used))
     IN  \/ r.code_point # 65279 /\ Yield(r.code_point, r.used)
         \/ /\ r.code_point = 65279 /\ r.used < Len(job.src)
            /\ Yield(next.code_point, r.used + next.used)
         \/ /\ r.code_point = 65279 /\ r.used = Len(job.src)
            /\ at' = r.used
            /\ UNCHANGED <<text, ends>>
  /\ UNCHANGED <<index, made, job, phase, pending, read, out>>

DecodeNext ==
  /\ Wanted /\ ~AtRandom
  /\ pending = 0
  /\ job.from = "utf_8" => at > 0
  /\ LET r == DecodeOne(job.from, Unread(at))
     IN  /\ Yield(r.code_point, at + r.used)
         /\ pending' = IF job.from = "big5" THEN r.code_point2 ELSE 0
  /\ UNCHANGED <<index, made, job, phase, read, out>>

\* The code point Big5 has kept, also by flush() at the end of the bytes.
DecodePending ==
  /\ Wanted /\ ~AtRandom
  /\ pending # 0
  /\ Yield(pending, at)
  /\ pending' = 0
  /\ UNCHANGED <<index, made, job, phase, read, out>>

\* An element of the decode view of a random-access range.
RandomAccessAt(byte) ==
  LET cp == IF job.from = "x_user_defined" THEN XUserDefinedByte(byte)
            ELSE DecodeByte(Table(job.from), byte)
  IN  IF cp = Replacement /\ byte >= 128 THEN Error ELSE cp

\* An element of single_byte_decode: a byte as it is where there is no table.
SingleByteAt(byte) ==
  IF job.from \in NoTable THEN byte ELSE DecodeByte(Table(job.from), byte)

ByteAt(byte) ==
  IF job.how = "random_access" THEN RandomAccessAt(byte) ELSE SingleByteAt(byte)

DecodeAt ==
  /\ Wanted /\ AtRandom
  /\ Yield(ByteAt(job.src[at + 1]), at + 1)
  /\ UNCHANGED <<index, made, job, phase, pending, read, out>>

-----------------------------------------------------------------------------
\* whatwg::encoder<to>::encode_one, and what single_byte_encode writes.
EncodeOne(cp) ==
  CASE job.to = "utf_8"     -> Utf8Encode(cp)
    [] job.to \in SingleByte -> SingleByteEncode(Find(job.to, cp), cp)
    [] job.to \in NoTable  -> SingleByteEncode(-1, cp)
    [] job.to = "gbk"       -> GbkEncode(Find("gbk", cp), cp)
    [] job.to = "big5"      -> Big5Encode(Table("big5"), Find("big5", cp), cp)
    [] job.to = "shift_jis" -> ShiftJisEncode(Find("shift_jis", cp), cp)
    [] job.to = "euc_jp"    -> EucJpEncode(Find("jis0208", cp), Find("jis0212", cp), cp)
    [] job.to = "euc_kr"    -> EucKrEncode(Find("euc_kr", cp), cp)

\* The view puts '?' for an error.
Encode ==
  /\ phase = "decode"
  /\ read < Len(text)
  /\ job.eager => AtEnd
  /\ LET bytes == EncodeOne(text[read + 1])
     IN  out' = out \o (IF bytes = NoBytes THEN <<63>> ELSE bytes)
  /\ read' = read + 1
  /\ UNCHANGED <<index, made, job, phase, at, pending, text, ends>>

Finish ==
  /\ phase = "decode"
  /\ AtEnd /\ read = Len(text)
  /\ phase' = "done"
  /\ UNCHANGED <<index, made, job, work>>

Next ==
  \/ Build \/ Keep \/ Start
  \/ DecodeFirst \/ DecodeNext \/ DecodePending \/ DecodeAt
  \/ Encode \/ Finish

Spec == Init /\ [][Next]_vars

-----------------------------------------------------------------------------
\* The index that is being built, once it is, finds the first pointer of every
\* code point that occurs, though its entries share pages, and leaves out what
\* its encoder excludes (make_reverse_index, reverse_index::find).
FindIsFirstPointer ==
  \A i \in 1 .. Len(Indexes) :
    Building(i) => Reverse(Indexes[i].table, Indexes[i].excluded)!FindIsFirstPointer

\* What an encoding has, said of its index and not of a reversed one.
Has(name, cp) == \E q \in DOMAIN Table(name) : Table(name)[q] = cp
CanEncode(to, cp) ==
  \/ cp < 128 \/ to = "utf_8"
  \/ to \in SingleByte \cup {"euc_kr", "gbk"} /\ Has(to, cp)
  \/ to = "gbk" /\ cp = 8364
  \/ to = "big5" /\ \E q \in DOMAIN Table("big5") : q >= 5024 /\ Table("big5")[q] = cp
  \/ to = "shift_jis" /\ \E q \in DOMAIN Table("jis0208") :
       q \notin 8272 .. 8835 /\ Table("jis0208")[q] = cp
  \/ to = "euc_jp" /\ (Has("jis0208", cp) \/ Has("jis0212", cp))
  \/ to \in {"shift_jis", "euc_jp"} /\ cp \in Halfwidth

\* Two code points of the Japanese encodings come back as the ASCII they share a
\* byte with, and what cannot be encoded as a question mark.
Expected(to, cp) ==
  CASE CanEncode(to, cp)                                               -> cp
    [] to \in {"shift_jis", "euc_jp"} /\ cp = 165                      -> 92
    [] to \in {"shift_jis", "euc_jp"} /\ cp = 8254                     -> 126
    [] ~CanEncode(to, cp) /\ ~(to \in {"shift_jis", "euc_jp"} /\ cp \in {165, 8254}) -> 63

\* What reads back what has been written: single_byte_decode where only
\* single_byte_encode writes.
ReadOne(to, b) == IF to \in NoTable THEN Decoded(b[1], 1) ELSE DecodeOne(to, b)

ReadBack(to, bytes) ==
  LET from[n \in 0 .. Len(bytes)] ==
        IF n = Len(bytes) THEN <<>>
        ELSE LET r == ReadOne(to, SubSeq(bytes, n + 1, Len(bytes)))
             IN  <<r.code_point>> \o from[n + r.used]
  IN  from[0]

\* What was decoded is read back from the bytes it was encoded to, except where
\* the encoding has no such character; lazily or eagerly, and whatever the kind
\* of the range (transcode_string, whatwg::transcode).
RoundTrip ==
  phase = "done" =>
    ReadBack(job.to, out) = [i \in 1 .. Len(text) |-> Expected(job.to, text[i])]

-----------------------------------------------------------------------------
\* The bytes a code point was decoded from.
BomLength  == IF job.from = "utf_8" /\ BomSniff(job.src) = "utf_8" THEN 3 ELSE 0
Begins(i)  == IF i = 1 THEN BomLength ELSE ends[i - 1]
BytesOf(i) == SubSeq(job.src, Begins(i) + 1, ends[i])

\* Table 3-7 of the Unicode Standard.
C == 128 .. 191
WellFormed ==
  {<<0 .. 127>>, <<194 .. 223, C>>,
   <<{224}, 160 .. 191, C>>, <<225 .. 236, C, C>>, <<{237}, 128 .. 159, C>>, <<238 .. 239, C, C>>,
   <<{240}, 144 .. 191, C, C>>, <<241 .. 243, C, C, C>>, <<{244}, 128 .. 143, C, C>>}

Fits(b, k, row) == k <= Len(b) /\ k <= Len(row) /\ \A i \in 1 .. k : b[i] \in row[i]
Whole(b)        == \E row \in WellFormed : Len(row) = Len(b) /\ Fits(b, Len(b), row)
MaximalSubpart(b) ==
  CHOOSE k \in 1 .. 4 :
    /\ k = 1 \/ \E row \in WellFormed : Fits(b, k, row)
    /\ \A m \in (k + 1) .. 4 : \A row \in WellFormed : ~Fits(b, m, row)

\* UTF-8 is decoded as the Unicode Standard recommends: one U+FFFD for each
\* maximal subpart of an ill-formed sequence, and every well-formed sequence to
\* the code point that has it; a byte order mark is dropped exactly where
\* bom_sniff finds one (utf8_decode_one, decode_first).
Utf8MaximalSubparts ==
  job.from = "utf_8" =>
    \A i \in 1 .. Len(text) :
      /\ Len(BytesOf(i)) = MaximalSubpart(Unread(Begins(i)))
      /\ IF Whole(BytesOf(i)) THEN Utf8Encode(text[i]) = BytesOf(i) ELSE text[i] = Replacement

\* The code point that has to follow, if any: an ASCII byte an error has taken,
\* or the second code point of a pair.
Owed(i) ==
  IF text[i] = Replacement
  THEN {job.src[n] : n \in {k \in (Begins(i) + 1) .. ends[i] : job.src[k] < 128}}
  ELSE IF job.from # "big5" THEN {}
  ELSE {cp \in {772, 780} :
          \/ cp = 772 /\ BytesOf(i) \in {<<136, 98>>, <<136, 163>>}
          \/ cp = 780 /\ BytesOf(i) \in {<<136, 100>>, <<136, 164>>}}

\* An error of UTF-8 or Big5 takes no ASCII byte with it (one of EUC-KR, EUC-JP or
\* Shift_JIS does), and what one call of the decoder cannot return comes with the
\* next one, also at the end of the input (decoder<big5>::decode_one and flush,
\* utf8_decode_one).  Except for U+0000, which as a second code point means that
\* there is none.
NothingIsSwallowed ==
  job.from \in PushesBack =>
    \A i \in 1 .. Len(text) : \A cp \in Owed(i) \ {0} :
      IF i = Len(text) THEN pending = cp
      ELSE text[i + 1] = cp /\ ends[i + 1] = ends[i]

\* The views of a random-access range yield for each byte what the decoder does
\* for it in a forward one (decode_byte, decode_single_byte_at), with two
\* exceptions: for x-user-defined and for replacement, which have no table,
\* single_byte_decode yields the byte as it is, where the decoder has U+F780 and
\* up for the upper half of one and a single error for all of the other.
RandomAccessAgrees ==
  phase \in {"decode", "done"} /\ AtRandom =>
    \A i \in 1 .. Len(text) :
      LET cp == DecodeOne(job.from, <<job.src[i]>>).code_point
      IN  /\ ends[i] = i
          /\ text[i] =
               IF job.how = "single_byte_view" /\ job.from \in NoTable THEN job.src[i]
               ELSE IF cp = Error THEN Replacement
               ELSE cp
=============================================================================
