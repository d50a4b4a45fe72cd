# A TLA+ verification of beman.transcode

This directory models the transcoding library in `include/beman/transcode/`:
lazy range adaptors that decode legacy bytes to code points, encode code points
to bytes, and convert bytes with an `iconv`-like converter. The modules are
model-checked with TLC on small instances; the theorems are proved with TLAPS
for every value of the constants. `PROJECT.json` holds the runs, the mutants,
the map from definitions to source lines, the findings, the hazards and the
theorems; this file explains them.

Paths without a directory are relative to `include/beman/transcode/`.

## 1. The system

The library is single-threaded. What makes it hard is *where its state lives*:
an iterator is a small program that is run one step per `++`, may be copied in
the middle, reads an input it cannot back up in, and has to remember what a
look-ahead reader would simply look at again.

| component | state it keeps | operations | talks to |
|---|---|---|---|
| `decode_view` (`decode_view.hpp`) | per iterator: base iterator `current_`, its own codec, the element, `done_` | `begin`, `load_first`, `load`, `++`, copy, `==`, `base` | a codec, through `codec_concepts.hpp`: `decode_one(current&, end)`, optional `decode_first`, optional `flush` |
| `encode_view` (`encode_view.hpp`) | per iterator: base iterator, codec, a small byte buffer, `pos_`, `len_`, `done_` | `begin`, `load`, `++`, copy, `==` | a codec: `encode_one`, optional `flush` |
| ISO-2022-JP decoder (`detail/iso2022jp.hpp`) | machine state, `output_state`, `output_flag`, `lead`, up to two bytes put back | `iso2022jp_decode_one` | `decode_view` (through `whatwg::decoder`) |
| ISO-2022-JP encoder (`detail/iso2022jp.hpp`) | the mode its reader is in | `iso2022jp_encode_one`, `iso2022jp_encode_flush` | `encode_view` (through `whatwg::encoder`) |
| gb18030/GBK decoder (`detail/gb18030.hpp`) | up to three bytes handed back | `gb18030_decode_one` | `decode_view` |
| UTF-16 codecs (`detail/utf16.hpp`) | the unit put back | `utf16_decode_one`, the encoders | `decode_view`, `encode_view` |
| UTF-8, Big5, EUC-JP, EUC-KR, Shift_JIS, single-byte (`detail/`) | none, or one code point (Big5) | `*_decode_one`, `*_encode_one` | the views |
| gb18030 encoder and four-byte ranges (`detail/gb18030.hpp`) | none; a binary search while it runs | `gb18030_encode_one`, `gb18030_ranges_encode`, `gb18030_ranges_decode` | the reverse index of `gbk` |
| reverse index (`detail/reverse_index.hpp`) | two passes over a table, then constant pages | `make_reverse_index`, `find` | the encoders |
| `whatwg::decoder`, `whatwg::encoder` (`whatwg/`) | one of the codec states above | `decode_first` (byte order mark), `decode_one`, `flush`, `encode_one` | the codecs |
| `iconv_transcode_view`, `iconv_transcode_or_error_view` | conversion descriptor, base iterator, 64 bytes of staging, the caller's buffer, flush progress, an error to report now and one to report later | `begin`, `load`, `++`, move, destruction | `iconv_functions`: `open`, `convert`, `close` |
| bulk functions (`bulk_transcode.hpp`, `iconv_bulk.hpp`, `whatwg/transcode_string.hpp`) | a result string | one call each | the views or the converter |
| labels, encodings, BOM sniffing, tables | constants | look-ups | the codecs |

Calls are synchronous: a program increments an iterator, the iterator's `load`
asks its codec for results until one is an element, the codec reads the base
range through the iterator it is handed.

What is hard, and what makes each part correct:

* **Codecs that put bytes back.** An input iterator cannot be backed up, so a
  codec that has read too far keeps the bytes and reads them again before the
  range. Correct: no byte is lost, read twice or overtaken; what is kept is
  what was read; iteration advances and ends; at the end nothing is owed.
* **Shift states.** ISO-2022-JP keeps a mode in the reader and in the writer,
  and nothing but the bytes between them keeps the two in step.
* **Multi-pass iteration with a stateful codec.** Iterators are copied in the
  middle of a text and compared, though several elements can leave `current_`
  where it is. Correct: every pass sees the same elements, and equality means
  the same element.
* **The protocol between a view and its codec.** `decode_first` once and first,
  `flush` only at the end and until it has nothing, results that are empty,
  codecs that consume nothing.
* **The converter.** `E2BIG`, `EINVAL`, `EILSEQ` and other failures, each with
  or without output before it, with input in staging, in the range or nowhere,
  before and during the flush. Correct: the elements are what the whole input
  converts to, errors where they belong, however it falls into batches.

* **Two directions from one table.** Every encoding decodes with an index and
  encodes with one built from it backwards, skipping pointers and bytes of its
  own both ways, and an error must not take bytes that belong to what follows.
  Correct: what is encoded decodes to what it was; the first of several pointers
  is used; no byte is swallowed.

The hazards list in `PROJECT.json` has each of these at its line.

## 2. The modules

A decoder is modelled three times: its *codes* (pure operators for what bytes
mean), its *stream* (the abstract specification: a reader that can look ahead
takes one token after another), and the *decoder* (the code, with what it has
put back). The decoder is driven to its end as `decode_view::iterator` drives
it, so a `done` of the model is the view's sentinel. The decoder implements the
stream under a refinement mapping whose core is `pos <- current - Len(pending)`:
bytes put back count as not taken.

| module | models | notes |
|---|---|---|
| `Iso2022JpCodes` | the bytes of ISO-2022-JP: modes, designators, `PlainResult`, `PairResult` | index jis0208 is a constant |
| `Iso2022JpStream` | what decoding promises | tokens: escape, character, malformed byte |
| `Iso2022JpDecoder` | `iso2022jp_decode_one`, one action per branch of its `switch`, and its end of input | `Position`, `HalfRead` give the mapping |
| `Iso2022JpEncoder` | `iso2022jp_encode_one` and its flush, one action per branch, under an `encode_view` that replaces or reports (`Report`) | |
| `Iso2022JpRoundTrip` | `text \| encode \| decode`: the two composed | the decoder's base range is the encoder's output, produced on demand |
| `Gb18030Token` | the stateless `gb18030_decode_one(current, end)`: what is read and handed back | a character is known by its bytes |
| `Gb18030Stream`, `Gb18030Decoder` | tokens; the decoder with `replay` | bytes are known by their places |
| `Gb18030Ranges` | the binary search of the four-byte ranges, a turn of its loop per step | one search by code point or by pointer |
| `Gb18030Codec` | `gb18030_encode_one`, and the decoder on one character: a scalar value there and back, or four bytes there and back | over `ReverseIndex` and `Gb18030Ranges` |
| `Utf16Units`, `Utf16Stream`, `Utf16Decoder` | units, surrogates and both byte orders; the look-ahead reader; the decoder with `decode_first` | |
| `CodecView` | what both views have in common: iterators, copies, an arbitrary codec | see below |
| `DecodeView` | `decode_view::iterator` | a step is one call of the codec |
| `EncodeView` | `encode_view::iterator`, with the validation of code units and the byte buffer | a step is a whole operation: `load` asks the codec once |
| `CodecViews` | a program over one of the two views | composes the three modules above |
| `IconvConverter` | the converter, external: POSIX `iconv()` | bytes written are known by what they were written for |
| `IconvStream` | what the whole input converts to, and the errors there are | the promise all the iconv facilities share |
| `IconvBatch` | what both iconv iterators are given, and the batch `load` converts next: straight from the range or through staging | |
| `IconvOrErrorView` | `iconv_transcode_or_error_view::iterator` | one action per way `load` returns, and `++` |
| `IconvView` | `iconv_transcode_view::iterator` | one action per turn of `load`'s loop, what its end leads to, and `++` |
| `IconvBulk` | `iconv_transcode_to`, `iconv_transcode_into`, `iconv_transcode_to_or_error` | one action per outcome of `convert()` |
| `IconvFacilities` | a program that uses any one of the five | composes the three modules above |
| `Index`, `ReverseIndex` | an index; `make_reverse_index`'s two passes, entry by entry, and `find` | 16-bit entries and page numbers, as in the code |
| `TableCodecs` | Big5, EUC-KR, GBK, EUC-JP, Shift_JIS, single-byte, x-user-defined: one call each way | operators |
| `Utf8` | `utf8_decode_one`, `utf8_encode_one` | operators |
| `Transcode` | `whatwg::transcode` and `transcode_string`: indexes reversed, then bytes of one encoding turned into another's | composes the three rows above, with `decode_first`, Big5's second code point and the random-access views |
| `MC...` | instances | table entries and pointers are copied from `detail/tables/` |
| `..._proofs` | theorems | |

Mutated forms of definitions (`ReadAdvancing`, `FinishAnywhere`, ...) stand
before the definitions they vary; each is marked `Mutant` and used by nothing.
They are slips the code could contain, and each property of a passing run is
violated when its mutant takes the definition's place. Model variables bear
the source's names (`output_flag`, `replay`, `staging`, ...).

**Steps.** A step of a decoder model is one byte (ISO-2022-JP) or one call
(gb18030, UTF-16) of `decode_one`. A step of `DecodeView` is one call to the
codec with all that follows it, and no other iterator moves while one is inside
`load`; `EncodeView`'s `load` asks once, so a step is all of it. So `begin`,
`++` and copies of different iterators interleave between complete loads, as
they can in the program. A step of an iconv module is one call of `convert()`,
together with everything that is set before the next call or the return; a step
of `Transcode` is one code point decoded or encoded, or one entry of a table put
into a reverse index.

**An arbitrary codec.** In `CodecView` what the codec does in a situation (its
operation, the place in the input or the code point it is given, its state) is
chosen when an iterator first meets the situation and kept in `codec_does`;
every iterator that meets it again sees the same. So a run ranges over every
deterministic codec with `MaxOwed + 1` states, with and without an `operator==`
(the concepts ask for a semiregular type only), over the combinations of the
optional concepts and over both error modes of `encode_view`. The contract
assumed of it is that of `codec_concepts.hpp`: a call of a decoder consumes a
byte or owes less, an engaged result of a flush owes less.

**The converter.** `IconvConverter` has characters of one and two bytes,
escapes that write nothing, a target that owes bytes at the end, invalid bytes,
incomplete sequences and a byte at which it fails for another reason. When it
resets, it writes what there is room for or all of it or nothing, and may fail
after that. Output bytes carry the place they were written for, so that a lost,
doubled or reordered byte shows.

## 3. The runs

All runs have finite inputs, so the system does stop: deadlock is not checked,
termination is.

| run | question | instance | distinct states |
|---|---|---|---|
| `iso2022jp_decoder` | is the byte-at-a-time machine the look-ahead reader? | every input of up to 4 bytes of {SO, ESC, `$`, `(`, `B`, `I`, 80}, at the start of a text and behind an escape into each mode | 98,489 |
| `iso2022jp_lost_lead` | does every malformed text have an error? (violated) | up to 6 bytes of {ESC, `$`, `(`, `B`} | stops |
| `gb18030_decoder` | is each byte decoded once, and the stream implemented? | up to 5 bytes of {20, 30, 41, 81, FE, FF} with at most two from 0x80 up, and any 5 behind `81 30 81` | 103,943 |
| `gb18030_overtaken` | are handed-back bytes decoded first? (violated) | up to 5 bytes of {20, 41, 81}, also behind `81 30 81` | stops |
| `gb18030_codec` | do the two directions use the same pointers? | all 207 rows of the ranges' table: each range's ends, both ways; 15 entries of index `gbk`; the exceptions | 7,811 |
| `utf16_decoder` | same as the first, for UTF-16, with its byte order mark | every input of up to 6 bytes of {00, 41, D8, DC}; FE FF and FF FE, after nothing, FE FF, 00 41 and D8 00, before up to 4 such bytes | 41,332 |
| `codec_views` | multi-pass, equality, protocol, order, termination | both views; 2 iterators, 2 elements of the base range, 2 values, 2 codec states | 138,462 |
| `whatwg_transcode` | do decoders, indexes and encoders fit together? | 7 indexes reversed; every string of up to 3 significant bytes of UTF-8, Big5, EUC-KR, EUC-JP and Shift_JIS, 4 after a long UTF-8 lead; every character of the indexes to each of 7 encodings, and to `single_byte_encode` of the two without a table; lazy and eager; forward, random-access and single-byte views | 87,353 |
| `iso2022jp_round_trip` | do the two shift states stay in step? | every text of up to 3 of 8 code points: ASCII, the two Roman differs in, the two Roman adds, two of JIS X 0208, one unmapped | 9,601 |
| `iso2022jp_report_view` | does the output end in ASCII when errors are reported? (violated) | texts of up to 3 of {`A`, U+3001, U+1F600}, in a report view | stops |
| `iconv_facilities` | do batches and buffers show in the two views and the three functions? | inputs of up to 4 (functions: 3) of 6 kinds of byte, buffers of 0, 1 and 2 bytes where the facility can have them, 3 bytes of staging, both kinds of range, `open` that fails, three ways to reset | 239,884 |
| `iconv_nothing_to_read` | is there always an element? (violated) | inputs with escapes in a row, for `iconv_transcode_or_error` | stops |

**What the properties say.**

* `PutBackIsBackingUp` (ISO-2022-JP, UTF-16): the bytes put back are the ones
  just before the iterator, in order, so that reading them is what backing up
  would be.
* `ModeToReturnTo`, `DoneMeansAllDecoded`, `ElementsAdvance`: an error returns
  to the last mode that was selected; the view does not end while something is
  put back or half-read; no two elements end at the same place.
* `WellFormedHasNoError`: for a text generated by a grammar written apart from
  both the machine and the stream.
* `ImplementsStream`: the refinement. It says which elements there are and that
  each ends where the look-ahead reader's does; in UTF-16, that one byte order
  mark is dropped at the start and none elsewhere.
* `NoByteTwice` (gb18030): a byte is in one element or handed back, never both.
  It does not say that none is lost: on the inputs of finding 1 bytes are.
* `DecodedIsEncoded` (UTF-16): what decodes without an error is, byte for byte,
  the encoding of what it decodes to.
* `MultiPass`, `EqualIsSameElement`, `CodecContract` (both views): all passes
  see the same elements; iterators that stand on the same one compare equal, and
  of a codec with `==` only those do; the codec is asked in the order the concepts give, and an encoder
  only for scalar values.
* `ElementsAreTheCodecsBytes` (encode_view): the elements are the bytes of the
  codec's results, each once, in order.
* `RoundTrip` (`Gb18030Codec`): a scalar value, or four bytes, come back, with
  the exceptions named; `Terminates`: the search returns, and nothing the code
  calls `std::unreachable()` is reached (`DecodeFound` is not enabled there).
* `RoundTrip` (`Transcode`): the output decodes to what the input did, with `?`
  exactly for what the target's index does not have.
* `Utf8MaximalSubparts`: one U+FFFD for each maximal subpart, stated with
  Table 3-7 of the Unicode Standard; `NothingIsSwallowed`: what one call of the
  decoder cannot return comes with the next; `FindIsFirstPointer`: the reverse
  index finds what a search of the table would; `RandomAccessAgrees`: the views
  of a random-access range yield what the decoder does, but for `single_byte_decode`
  of the two encodings that have no table (section 4).
* `RoundTrip`, `KeepsUp`, `EndsInAscii`, `InStep` (`Iso2022JpRoundTrip`): text in
  is text out; the reader is never behind the writer nor in another mode; the
  stream can be followed by another.
* `ViewsYieldTheConversion`, `SomethingToRead` (iconv views): the elements are
  always a prefix of what the whole input converts to in one go, with its errors
  or without, and at the end all of it; an iterator that is not at the end has
  an element.
* `FunctionsReturnTheConversion` (iconv functions): the eager functions return
  what the views yield, or the first error, also after their buffer was too
  small. Since both kinds are compared with `Conversion`, they agree.
* `Terminates`: the sentinel is reached, or the function returns.

**Why the bounds are enough.** The longest sequence of ISO-2022-JP is three
bytes and at most two are put back; four bytes hold an escape that breaks at
its last byte with a byte after it, or two escapes broken after their second
byte; a seven-byte alphabet has a byte for every branch (a control
that is an error, the escape's bytes, a byte that is lead and trail, a byte that
is none, half-width katakana). gb18030 sequences are four bytes and three are
handed back at most; eight bytes in all hold a broken sequence, another broken
in its replay, and what follows. UTF-16: six bytes are three units, or two and a
half, so that a high surrogate follows a high surrogate and the input is cut
anywhere behind them. In `CodecViews` two iterators suffice for a property of
pairs, and two codec states for a result that consumes nothing, before the end
and in the flush (with two, at most one result of a flush has bytes; the
theorems hold for any number of each). In
`Transcode` a sequence is at most three bytes, or four in UTF-8; the bytes are
those where a codec's conditions change, and the table entries those at both
sides of a skipped byte, at the ends, with several pointers, or with a second
code point. For ISO-2022-JP, a text of three code points passes through three
modes and an unmapped code point between two of them. Staging of three holds a character and half of the next;
inputs of four overflow it. Buffers of 0, 1 and 2 bytes are too small for
anything, for a two-byte character, and for the three bytes of a reset;
`iconv_transcode` gets 2, since its precondition (`iconv_min_buffer_size`) gives
it room for any one character, and so does `iconv_transcode_into`, with 3 for a
converter that resets as a whole, as the code's 4096 would have; the other
functions begin with 1 or 2 bytes where the code begins with 256 or more, so
that doubling happens.

**Fairness.** The program owes the library one thing: to go on iterating.
`WF_vars(Next)` says that a caller who has not reached the sentinel increments
again, and that a call that has begun goes on; both hold of
`for (auto x : view)`. There is no other process that has to be scheduled. In
`CodecViews` the assumption is made for each iterator (`WF_all(Goes(i))`: its
loads and increments), since one iterator's progress must not depend on
another's; `Begin` and `Copy` need not happen. An eager function needs no caller.
`whatwg_transcode` has no liveness property and no fairness. No run assumes
strong fairness.

## 4. Findings

Each is a violated property of a run; the quotes are in `PROJECT.json`.

1. **gb18030 bytes overtake one another** (`detail/gb18030.hpp:261-278`). When
   a byte that was handed back begins a sequence, the replay path completes it
   from the *input*, although other handed-back bytes stand between; those are
   decoded later, or forgotten when `replay` is overwritten. Input
   `81 30 81 41 81 20 41` shows it. `ImplementsStream` is therefore stated for
   inputs in which it cannot happen: those with at most two bytes from 0x80 up.
   (That no byte is decoded *twice* is proved for every input.)
2. **An ISO-2022-JP lead byte disappears** (`detail/iso2022jp.hpp:178`). ESC in
   a trail byte's place begins an escape and drops the lead byte silently. In
   the trace, `1B 24 42 24 28 24 1B 24 42`, the pair `24 28` decodes and the lead
   byte behind it is gone. (With no character before the lead byte there is one
   U+FFFD, since `output_flag` is still set: for the escape sequences that follow
   one another, not for the lead byte.)
   `Iso2022JpStream` has an action of its own for it, `DanglingLead`.
3. **A report view ends in JIS X 0208** (`detail/iso2022jp.hpp:255-260`,
   `encode_view.hpp:483-487`). For an unmapped scalar value the codec sets its
   state to ASCII and puts the escape into the error's bytes, which a report
   view drops; the flush then owes nothing.
4. **`iconv_transcode_or_error_view` has no element to read**
   (`iconv_transcode_or_error_view.hpp:289-303`). When a full staging buffer
   converts to nothing (escape sequences) and the range has more, `load`
   returns with neither output, error nor end. `operator*` then reads what the
   buffer held before. `iconv_transcode_view` loops instead. The passing run gives
   this view inputs without two escapes in a row, which cannot fill staging, and
   the other facilities all inputs.

The model follows the code also where it is not what one might expect. Where a
comment, a document or a test says otherwise it is named; no run has a property
that these violate.

* **`base()`** (`decode_view.hpp:181-183`) is documented as positioned at the
  first byte of the element not yet decoded. It returns `current_`, which with
  ISO-2022-JP, gb18030 and UTF-16 is past bytes the codec has put back.
  `PutBackIsBackingUp` says which those are: the last one or two bytes before
  `current_`.
* **ESC, SO and SI do not survive ISO-2022-JP** (`detail/iso2022jp.hpp:236`):
  U+001B, U+000E and U+000F are written as they are, so
  `decode(encode(text)) == text` (`papers/transcode-view.md:1190` says it of
  mapped code points) does not hold for them. The round trip's theorems assume
  texts without them (`PlainTexts`).
* **ISO-2022-JP otherwise**: `output_flag` is false after the error for a doubled
  escape; every ASCII character takes the encoder out of Roman; half-width
  katakana and U+2212 are not mapped to what the index has for them.
* **gb18030 encodes 18 code points as another one's bytes**: U+E78D to U+E796,
  U+E81E, U+E826, U+E82B, U+E82C, U+E832, U+E843, U+E854 and U+E864 are in no
  range and have no entry in index `gbk` (which has the characters of GB
  18030-2022 there), so the last range below them gives them a pointer past its
  end, which belongs to the next (`NeitherWay` of `Gb18030Codec`).
* **Big5 pointer 1165** (`detail/big5.hpp:44`, `:112`) yields U+00EA U+030C,
  where the WHATWG standard says 1166. So 88 A5 decodes to U+FFFD, and what the
  table has at 1165, U+1EBF, is never decoded.
* **Big5 keeps no NUL** (`detail/big5.hpp:98-100`, `whatwg/decoder.hpp:115`): an
  error's ASCII trail byte is kept as a second code point, but 0 stands for
  none, so 88 00 decodes to one U+FFFD. `NothingIsSwallowed` excepts U+0000.
* **EUC-KR, EUC-JP and Shift_JIS errors take an ASCII trail byte with them**
  (`detail/euc_kr.hpp:57-63`, `detail/euc_jp.hpp:62-97`,
  `detail/shift_jis.hpp:74-80`), where the standard puts it back
  (`docs/wpt/textdecoder-mistakes.any.js:385` and `:389` expect `:` after the
  U+FFFD for 81 3A). `PushesBack` names the encodings of which
  `NothingIsSwallowed` holds: UTF-8 and Big5.
* **`single_byte_decode` of x-user-defined and of replacement** has no table and
  yields bytes as they are (`detail/single_byte_tables.hpp:72-75`, `:145-146`). The
  decoder yields U+F780 and up for the upper half of the one, and a single error
  for all of the other. `RandomAccessAgrees` says so of these two.
* **A codec without `==`** (`decode_view.hpp:199-202`, `encode_view.hpp:198-201`) is
  not compared, so that iterators at different elements, if `current_` and the
  element are the same, compare equal. `EqualIsSameElement` requires the contrary
  only of codecs that have one (`Comparable`), as
  `docs/plans/sg16-index.md:279` does. The library's own codecs all have one.
* **Unmapped bytes below 0x80** in a full-table codec are errors in a forward
  report view and plain U+FFFD in a random-access one (`decode_view.hpp:291-297`).
* **Shift_JIS** treats 0x80 as an error, and has no mapping for U+2212.

## 5. The proofs

**`Iso2022JpDecoder_proofs`**, for every set of inputs and every index:
`TypeCorrect`, `PutBackCorrect`, `ModeCorrect`, `DoneCorrect` and `Progress`, the
decoder's invariants. The argument is one inductive invariant, `IInv`:

* the invariants themselves are not inductive: that two bytes put back are the
  two before the iterator depends on the machine remembering, as `lead`, the
  byte it read before the last one, and on nothing being put back still when it
  puts them back;
* `SequenceInv` says this: inside an escape nothing is put back, and the bytes
  just before `Position` are those the machine remembers. Two bytes are put back
  only in a mode and without ESC in front, so an escape cannot begin before the
  first of them has been read;
* `OutInv` says how far the elements reach: not into the sequence being read
  (`Taken`). `ElementsAdvance` follows from it.

`Refinement`, in the same module, proves that the decoder implements
`Iso2022JpStream`. There is a lemma for each action, which says which token of
the stream it is, or that the stream does not see it.

`TextDecodes` proves `WellFormedHasNoError`. The grammar is a recursive function,
which is first shown to exist and to unfold, from the last place where it would
not. `TextInv` says of a text that nothing is put back, that no element is an
error, and that what follows is a text in the mode the machine is in, after an
escape sequence if `output_flag` says so; inside a sequence, that the text goes
on with its end.

**`Iso2022JpRoundTrip_proofs`**: `RoundTrips`, `DecoderKeepsUp`, `StaysInStep`
and `LeftInAscii`, for every index and every set of texts, in a view that
replaces (`~Report`; with `Report` finding 3 holds) and without ESC, SO and SI
(`PlainTexts`). The two shift states do differ while bytes are on their way, so
the invariant is about those: what the decoder has not read is at most one
escape sequence and one character, in the mode that both will be in behind it.

**`Gb18030Decoder_proofs`**, for every set of inputs: `NoneTwice` and
`TypeCorrect`. Every place in an element or handed back has been passed by
`current`, and none is in both; a step takes only places that are available
(ahead of `current`, or handed back and not yet read), and hands back only what
it took. `TypeCorrect` includes that three slots for handed-back bytes suffice.

**`Gb18030Codec_proofs`**: `RoundTrips` (`RoundTrip`), for every scalar value
and every four bytes, for every index and every table of ranges that ascends
(`RangesAssumption`, `SpacingAssumption`), if between them they have every code
point but those the code makes an exception of (`CoverAssumption`).

* The search, by itself: `SearchCorrect`, it stops at the range its key is in;
  `SearchNarrows`, a turn that does not stop leaves less to search, so the search
  ends; `RangesRoundTrip`, a code point comes back from its pointer if that is
  still in its range; `NothingUnreachable`, what a range gives a pointer outside
  the gaps is below the next range and not above U+10FFFF.
* The bytes of a pointer, two or four, are those of no other.
* The invariant of a trip (`TripInvariant`): what the call that has returned has
  given is what the tables say (`Encodes`, `Decodes`), the search under way is
  for that call's key and has its range between its ends, and the index is as
  far as `ReverseIndex` has built it. `RoundTrip` speaks of the end alone and is
  not inductive without it.
* A code point of `NeitherWay` is given a pointer that is not its range's: one of
  a gap, or of a later range, whose code points are all above it. So it never
  comes back.
* `UnreachableIsNot`: in a trip no `std::unreachable()` is reached. This is the
  safety half of `Terminates`.

TLC evaluates the assumptions for the real table of ranges, all 207 rows of it,
and for the scalar values and the part of `tables::gbk` of the run; that
`CoverAssumption` holds of all of `tables::gbk` and every scalar value was
compared with the two headers, outside TLC.

**`Utf16Decoder_proofs`**, for both byte orders and every set of inputs:
`PutBackCorrect`, `TypeCorrect`, `DecodedEncodes` (`DecodedIsEncoded`) and
`Refinement`. The invariant adds to `PutBackIsBackingUp` that nothing is put
back at the input's beginning, so that `decode_first` cannot take a unit that
was put back for a mark, and that `Position` is where the last element ended.

**`Transcode_proofs`**: all five safety properties of `Transcode`, for every
set of sources, tables and jobs, whatever the order of decoding and encoding.

* One codec at a time (`Utf8RoundTrip`, `EucKrRoundTrip`, `ShiftJisRoundTrip`,
  `GbkRoundTrip`, `EucJpRoundTrip`, `Big5RoundTrip`): for UTF-8 and every scalar
  value, for the others and every index, decoding what was encoded, with any
  bytes after it, takes just those bytes and gives the code point. These are
  about the arithmetic of lead and trail bytes. (Index jis0208 has pointers that
  two bytes of EUC-JP do not reach; the theorem is about those they do, and
  `TablesAssumption` says that each of the others has the code point of one of
  those.)
* `FindsFirstPointer`, for every sequence of tables whose pointers fit the
  16-bit entries. Each pass has an invariant over the pointers it has come to
  (`BuildingInv`): pages have numbers of their own, nothing is on a page without
  a number, and the entry of a code point is the first of its pointers so far.
  `MadeInv` keeps it for the indexes that are done.
* `Decoding` is the invariant the next three rest on: every element comes from
  one call of the decoder, at the bytes behind the element before it, or was
  kept by that element's call. `NothingIsLost` (for UTF-8 and Big5, `PushesBack`)
  and `RandomIsForward` then speak of one call. `Utf8Subparts` needs of one call that what it takes is a
  well-formed sequence of Table 3-7 or a maximal subpart of one: the code
  narrows the range of the second byte where the table has rows.
* `WrittenIsRead`: what has been written is read back as what was decoded. The
  property's reader, `ReadBack`, is a recursive function; that it exists and
  unfolds is proved first, from the last place at which two candidates differ.
  `EncodingInv` says, for *any* bytes behind the output, that the two together
  read as the code points written and then as those bytes. A step adds the bytes
  of one code point, which one call of the target's decoder takes, whatever
  follows (`IsRead`; from the lemmas about codecs, and for a code point without
  bytes from `?`). `KnownInv` says that the encoder is asked for code
  points that its index was made to answer.

**`CodecViews_proofs`**: `IsMultiPass`, `EqualityCorrect`, `ContractKept`,
`BytesYielded` and `TypeCorrect`, for both views, any number of iterators, base
ranges of any length and every deterministic codec that keeps its contract. What
an iterator holds, has yielded and has called is a *point*. A point is determined by the one
before it and by what the codec has been found to do, and what has been found
is never forgotten or changed; so all points any iterator has been at make one
*course*, on which an iterator begun late, or a copy, can only follow. That gives
`MultiPass`. For equality the course is ordered, by the place in the base range,
then by what the codec owes, then by the place in the bytes of an element: every
step goes on in one of them, so two iterators at different points differ in
something that `==` compares, if the codec can be compared. Iterators at the same
point are equal whether it can or not.

**`IconvFacilities_proofs`**: all four safety properties of the iconv views and
functions, for every input, every size of the caller's buffer and of `staging_`,
every order of contiguous and copied batches, and every way in which the
converter may reset. The converter is external: what is proved is that the
facilities keep their promise over the converter `IconvConverter` describes.

* `Conversion`, the promise, and `Convert`, a call of the converter, are
  recursive functions, one over the input from its end, one over what has been
  consumed. That each exists and is what its equation says is proved first.
* Three lemmas relate a call to the promise. `ConvertSays`: a call, wherever it
  stops, has written what is to come from where it began without what is to come
  from where it stopped. `StopSays`: what is to come there begins with the error
  the call stopped with, or with a character that does not fit what room is left.
  `FlushSays`: the same of a flush and the bytes the converter owes.
* The invariant `IInv` (`Invariance`) says of a view: what has been read, then what is in
  the buffer or is the error to be read, then what is to come behind the bytes
  taken and not staged, is the whole conversion (`OrErrorPromise`,
  `ViewPromise`). None of the properties is inductive without it, since they
  speak of the end alone or of what has been read alone. What is to come depends
  on where the iterator is: in the range, in a batch cut short by the end, in
  the flush, or behind it. Bytes left in `staging_` are places just before
  `current`, so they belong to what is to come. Of a function it says the same,
  with the output in place of the buffer (`BulkGoesOn`).
* `ViewsYield` and `FunctionsReturn` are what `IInv` says when something has been
  read or returned. `ReadsSomething` is `SomethingToRead`; of
  `iconv_transcode_view` it holds always, since its loop goes on until there is
  output or the end, and of `iconv_transcode_or_error_view` if escapes in a row
  do not fill `staging_` (`FewEscapes`, which holds of every input the passing
  run gives that view). That this is needed is finding 4.

The theorems rest on the named assumptions and nothing else: inputs are
sequences of bytes (`InputsAssumption`), the index maps pointers to numbers
(`Jis0208Assumption`), the byte order is a Boolean (`BigEndianAssumption`), texts
are sequences of numbers (`EncoderAssumption`), the length of a range is a number
(`ViewAssumption`), the views' own marks are not values (`ValuesAssumption`,
`EncodeAssumption`), and those about tables: the two named above and, in
`Transcode`, that indexes fit their entries (`IndexesAssumption`), that tables have
the sizes the decoders expect and EUC-JP's the regularities named
(`TablesAssumption`), that jobs are between encodings the library has
(`JobsAssumption`), and that the indexes are asked for code points of
`CodePoints` (`CodePointsAssumption`). Of the iconv facilities: inputs are
sequences of the six kinds of byte, a view's or function's buffer has the least
size its preconditions ask for, and a converter does not answer `E2BIG` once it
has written all it owes (`GivenAssumption`); `staging_` has room for a byte
(`StagingAssumption`). Of gb18030: scalar values and four bytes are such
(`ScalarsAssumption`, `FourBytesAssumption`), the index is a table of code points
(`IndexAssumption`) of as many pointers as two bytes have (`GbkAssumption`), and
of the ranges what is said above (`SearchAssumption` is the first two). TLC evaluates each on a run.

**Only model-checked**: liveness (`Terminates`), since the prover does not reason
about `ENABLED`, which fairness is defined by; and that gb18030 implements its
stream, which holds of some inputs only.

## 6. Not modelled, and why

* **Labels and `get_encoding`**, and the overload of `transcode_string` that
  takes labels: a constant table and a search of it.
* **Random-access iterators of the views**: what a decoding one yields for a
  byte is modelled (`DecodeAt`), and the byte an encoding one yields is
  `EncodeOne`'s; their arithmetic forwards to the base range's.
* **GBK as a source of `Transcode`**: it is decoded by `gb18030_decode_one` with
  the bytes that function hands back, which is `Gb18030Decoder`, and its four-byte
  sequences are `Gb18030Codec`'s. `Transcode` has GBK as a target, whose output
  the same function reads back.
* **`base()`**: it returns a member; what that member means is in section 4.
* **The tables**: 12,013 of the implementation's 20,530 lines are generated
  data. The modules have tables as constants; the theorems hold for every
  table, and the runs have all of the four-byte ranges and entries of the
  others at their ends and exceptions. About a seventh of all lines are in the
  map, and a third of those that are not data.
* **Errors and results**: types. Which error code accompanies an error is left
  out in `Transcode`, where an error is U+FFFD.
* **Moves of an iconv iterator**: the descriptor is owned by a unique handle,
  and closed by its destructor.
* **`null_term`**: a sentinel. **Benchmarks, papers, tools**: not the library.
* **Undefined use**, such as two iterators converting into one caller's buffer
  (`iconv_real.hpp:31`) or incrementing an iterator at the end: outside the
  interface.

Hazards of these parts, and of an incomplete sequence longer than staging
(`iconv_transcode_or_error_view.hpp:232`; no encoding has one), are not in the
list in `PROJECT.json`.

## 7. What could follow

1. gb18030's refinement for the inputs in which nothing is handed back while
   something still is.
2. Descriptors of iconv iterators that are moved and destroyed: each closed once
   and not used after.
