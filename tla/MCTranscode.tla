---------------------------- MODULE MCTranscode ----------------------------
(***************************************************************************)
(* Model values for Transcode: entries of the indexes in detail/tables/,   *)
(* with their pointers, and jobs that meet every part of each codec.       *)
(***************************************************************************)
EXTENDS Transcode, TLC

\* Both sides of each byte a pointer skips and of a lead byte's last pointer; a
\* code point with several pointers, within what an encoder leaves out and not.
Jis0208 ==
  0 :> 12288 @@ 62 :> 215 @@ 63 :> 247 @@ 137 :> 65506 @@ 5827 :> 28364
  @@ 5828 :> 28478 @@ 8272 :> 32394 @@ 8631 :> 40657 @@ 8644 :> 65506 @@ 10736 :> 65506
  @@ 10744 :> 32394 @@ 11103 :> 40657
Jis0212 == 108 :> 728 @@ 1410 :> 19970 @@ 7210 :> 40869
Big5 ==
  942 :> 17392 @@ 1134 :> 7870 @@ 1165 :> 7871 @@ 2103 :> 31950 @@ 5023 :> 156267
  @@ 5024 :> 12288 @@ 5025 :> 65292 @@ 5086 :> 65114 @@ 5087 :> 65115 @@ 5214 :> 31950
  @@ 5247 :> 9552 @@ 5287 :> 21313 @@ 5512 :> 21313 @@ 18991 :> 9552 @@ 19781 :> 31188
EucKr == 0 :> 44034 @@ 57 :> 44117 @@ 189 :> 44307 @@ 190 :> 44308 @@ 6176 :> 12288
         @@ 23749 :> 35440
Gbk ==
  0 :> 19970 @@ 62 :> 20106 @@ 63 :> 20112 @@ 189 :> 20386 @@ 190 :> 20388
  @@ 6176 :> 12288 @@ 6432 :> 8364 @@ 6555 :> 12288 @@ 23939 :> 58565
\* Without 0xDB to 0xDE, as windows-874 is.
Windows874 == 0 :> 8364 @@ 1 :> 129 @@ 32 :> 160 @@ 33 :> 3585 @@ 90 :> 3642
              @@ 95 :> 3647 @@ 123 :> 3675

MCSingleByte == {"windows_874"}

Reversed(name, table, excluded) == [name |-> name, table |-> table, excluded |-> excluded]
MCIndexes ==
  <<Reversed("jis0208", Jis0208, NoPointers),
    Reversed("shift_jis", Jis0208, [first |-> 8272, last |-> 8835]),
    Reversed("jis0212", Jis0212, NoPointers),
    Reversed("big5", Big5, Big5Excluded),
    Reversed("euc_kr", EucKr, NoPointers),
    Reversed("gbk", Gbk, NoPointers),
    Reversed("windows_874", Windows874, NoPointers)>>

-----------------------------------------------------------------------------
Values(f) == {f[x] : x \in DOMAIN f}
Mapped == UNION {Values(MCIndexes[i].table) : i \in 1 .. Len(MCIndexes)}

\* Those of the indexes, and what an encoder or a decoder makes an exception of.
Texts == Mapped \cup {65, 165, 8254, 8364, 65377, 65439, 65533, 65536, 1114111}
MCCodePoints ==
  Texts \cup 0 .. 255 \cup {202, 234, 772, 780, 65279} \cup (63360 .. 63487) \cup (65377 .. 65439)

MultiByte == {"big5", "euc_kr", "euc_jp", "shift_jis"}
Targets == {"utf_8", "gbk", "windows_874"} \cup MultiByte

Job(from, to, src, how, eager) ==
  [from |-> from, to |-> to, src |-> src, how |-> how, eager |-> eager]

\* Every string of up to MaxBytes bytes that matter, for the multi-byte decoders.
Alphabet(from) ==
  CASE from = "utf_8"     -> {65, 128, 143, 144, 159, 160, 187, 191, 194, 224, 237, 239, 240, 244}
    [] from = "big5"      -> {0, 65, 128, 136, 98, 100, 163, 164, 161, 255}
    [] from = "euc_kr"    -> {65, 128, 129, 58, 64, 161, 254, 255}
    [] from = "euc_jp"    -> {65, 128, 142, 143, 161, 162, 223, 239}
    [] from = "shift_jis" -> {65, 58, 128, 129, 159, 161, 223, 252}

Strings(A, n) == UNION {[1 .. m -> A] : m \in 0 .. n}

Utf8Leads == {224, 237, 240, 244}
FromBytes ==
  {Job("utf_8", "utf_8", b, "forward", FALSE) : b \in Strings(Alphabet("utf_8"), 3)}
  \cup {Job("utf_8", "utf_8", <<l>> \o b, "forward", FALSE) :
           l \in Utf8Leads, b \in [1 .. 3 -> {65, 128, 143, 144, 159, 160, 191}]}
  \cup UNION {{Job(from, "utf_8", b, "forward", eager) :
                  b \in Strings(Alphabet(from), 3), eager \in BOOLEAN} : from \in MultiByte}

\* Every text of one character, and some of more, to every encoding.
FromText ==
  {Job("utf_8", to, Utf8Encode(cp), "forward", eager) :
     to \in Targets, cp \in Texts, eager \in BOOLEAN}
  \cup {Job("utf_8", to, <<239, 187, 191>> \o Utf8Encode(cp) \o <<65>>, "random_access", FALSE) :
           to \in Targets, cp \in Texts}

ByteByByte ==
  {Job(from, to, b, how, eager) :
     from \in {"windows_874"} \cup NoTable, to \in {"utf_8", "windows_874"} \cup NoTable,
     b \in Strings({65, 128, 161, 219, 223, 255}, 2),
     how \in {"forward", "random_access", "single_byte_view"}, eager \in BOOLEAN}

\* A text that single_byte_encode is asked to write.
FromDecoded ==
  {Job("utf_8", to, Utf8Encode(cp), "single_byte_view", TRUE) :
     to \in {"windows_874"} \cup NoTable, cp \in Texts}

Refused == {Job("utf_8", to, <<65>>, "forward", TRUE) : to \in {"utf_16le", "replacement"}}

MCJobs == FromBytes \cup FromText \cup ByteByByte \cup FromDecoded \cup Refused
MCPushesBack == {"utf_8", "big5"}
=============================================================================
