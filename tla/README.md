# gorillats in TLA+

A verification project for gorillats, a codec for time series: delta-of-delta
timestamps and XOR-coded floating point values in a bit stream, written once in
C (`src/gorillats.c`) and wrapped for C++, Rust and Python. Paths below are
those of the repository; in `PROJECT.json` they have the repository's directory,
`src/`, in front.

## The system

| Component | State | Operations | What makes it correct |
|---|---|---|---|
| Bit writer, bit reader (`gt_writer`, `gt_reader`, `src/gorillats.c` 45-116) | memory of the caller, byte and bit position, `overflow`; byte and bit position, `eof` | init, put a bit, length; init, get a bit | bits come back as written although the memory was not zeroed; no write behind the buffer; zero padding; sticky marks |
| Timestamp codec (`gt_ts_encode`, `gt_ts_decode`, 154-209) | `prev_ts`, `prev_delta` on either side | encode, decode | the two sides hold the same state; the decoder stays in step |
| Value codec (`gt_val_encode`, `gt_val_decode`, 216-297) | `prev_bits`, the window `prev_lz`/`prev_tz`, `has_value`, `has_block` on either side | encode, decode | the two sides hold the same window; every bit of a value comes back |
| C API (329-495, `include/gorillats/gorillats.h`) | writer and both encoder states; reader and both decoder states | create, compress, compress_batch, finish, destroy; create, next, batch, destroy | a log of points: what was accepted is decoded, in order, before the end; a torn point is never decoded; overflow and end of input are final |
| C++ wrapper (`include/gorillats/gorillats.hpp`) | buffer, handle, count; data, count, iterator | append, append_batch, bytes, move; iterate, to_vector, decode_into, for double and float | the count in the envelope is the number of points in the stream; a reading has them all or throws |
| Rust crate (`rust/gorillats/src/lib.rs`) | the same | append, append_slice, finish, drop; iter, to_columns | the same; a truncated stream is not mistaken for a short one |
| Python binding (`python/bindings.cpp`) | a C++ object shared by threads | compress, compress_batch without the interpreter lock, get_bytes, len; compress_arrays; decompress, decompress_to_arrays, iterate | calls of several threads do not mix, and an envelope holds whole calls |
| FFI crate, build files, tests | none of their own; `rust/gorillats-sys/c` is a copy of the C core | | |

The components interact by calls only. Compressor and decompressor never share
an object: what passes between them is bytes. The writer of these bytes may be
cut off by the end of its buffer, and the reader may be given less than was
written (a truncated stream) or more (the whole buffer, as
`tests/test_compression.cpp` 189-202 does).

What is hard here: both sides keep state that must agree after any series of
points; memory is not zeroed, a 0 bit writes nothing; the last byte is shared by
the last point and padding, and padding is a legal code; a buffer may fill up
within a point; integers wrap, and a delta of deltas may not fit the 32 bits it
is stored in; and the Python binding gives up its lock in the middle of a batch.
`PROJECT.json` lists these hazards line by line with the properties that cover
them.

## The modules

| Module | Models | Extends |
|---|---|---|
| `BitLog` | what a bounded bit writer promises: a log that grows to its capacity, then refuses | |
| `BitIO` | `gt_writer` and `gt_reader` byte by byte, both on the same memory | |
| `BitIOProofs` | the proofs about `BitIO` | `BitIO` |
| `Bits` | bit fields as sequences of bits, and what a decoding function returns | |
| `TimestampCodec`, `TimestampLink` | `gt_ts_encode`, `gt_ts_decode`; the two joined by a wire | `Bits` |
| `ValueCodec`, `ValueLink` | `gt_val_encode`, `gt_val_decode`; the two joined by a wire | `Bits` |
| `PointCore` | what the C API promises of points, whatever the bits, as values: what a call makes of a compressor, what a reader may have | |
| `PointLog` | the same as a state machine: a compressor and a reader | `PointCore` |
| `GorillaStream` | the C API: both codecs over a bounded stream, single calls and batches | `TimestampCodec`, `ValueCodec` |
| `Envelope` | the C++ wrapper, the Rust crate and the Python classes over `PointCore`: counts, the envelope, every way to read it | `PointCore` |
| `EnvelopeProofs` | the proofs about `Envelope` | `Envelope` |
| `PyShared` | the Python binding: one compressor, several threads, the interpreter lock | |
| `PySharedProofs` | the proofs about `PyShared` for a program that locks around each call | `PyShared` |
| `BitsProofs` | induction, powers of two, fields written and read back, torn and whole codes | `Bits` |
| `CodecProofs` | the four codec functions: on their own codes, on torn ones, on any bits | `BitsProofs`, `TimestampCodec`, `ValueCodec` |
| `TimestampLinkProofs`, `ValueLinkProofs` | the proofs about the links | the link, `CodecProofs` |
| `GorillaStreamProofs` | the proofs about `GorillaStream` | `GorillaStream`, `CodecProofs` |
| `MC...` | finite instances for TLC | the module they name |

**BitIO.** `buf` is the caller's memory, `Size` bytes of which the first `Cap`
are the writer's; what lies behind belongs to somebody else. `PutBit` is
`gt_put_bit` including the clearing of the next byte, `PutOverflow` its first
branch, `GetBit` and `GetEof` the two branches of `gt_get_bit`. A reader may be
opened at any time, on the length `gt_writer_len` gives or on the whole buffer,
and the writer goes on: the byte they share is the interesting one. `put`,
`got`, `opened` and `mem0` are history variables.

**Bits and the codecs.** From here on the stream is the sequence of its bits,
which `BitIO` justifies. `Get` is `gt_get_bits`: behind the end it delivers
zeros and sets the mark. Encoders return the bits they write and the next state,
decoders a status, the reader, the next state and the output, each in the order
of the code: the value decoder takes a new window before it looks at the mark,
the timestamp decoder changes nothing when the mark is set. Values are sequences
of `Width` bits, at the real widths. Timestamps are integers that wrap at
`TsBits` bits: signed overflow is undefined in C, and the builds, which store
and subtract in registers, wrap. `LastBits` is the width of the last bucket, 32
in the code; the others are the code's 7, 9 and 12. Shifts are products and
quotients with `Pow2`, a recursive function because the prover knows nothing of
`^`.

**The links.** `TimestampLink` and `ValueLink` join an encoder to a decoder for
a series of any length: a step encodes one item, decodes its bits, and keeps the
decoder's state from before, so that every proper prefix of the bits can be
decoded too.

**The undefined shift.** Five bits of leading zeros and six of length can name a
window wider than a value: `tz` is then negative and `gt_val_decode` shifts by
it (285-286), or reuses it (277-279), which C leaves undefined. `Shifted` gives
`Unknown` for it, and what is computed from `Unknown` is `Unknown` (`Changed`).
One value stands for every outcome because no branch looks at the word: position,
status, window and end mark do not depend on it. No encoder writes such a window;
`ShiftsAreDefined` shows that none is met in a stream, wherever it is cut, and
`Fills` has a byte that makes one behind it. At width 32 the `uint64_t` of the
code may get bits above the word from a window behind a stream too; `prev_bits`
of the model is its low `Width` bits, which is all that `gt_bits_to_float` and
later XORs of them look at.

**GorillaStream.** `c` is the compressor, whose writer is a sequence of bits
bounded by `8 * cap`; `d` is the decompressor with its copy of the first bytes of
the buffer. `Compress` and `CompressBatch` advance both codec states whether the
point fits or not, as the code does. `Open` takes any length up to the buffer:
less than the stream, the stream, or more, where `fill` says what the caller's
memory held. The decompressor works on a copy, so that its calls commute with
those of the compressor; the model lets the compressor wait while a decompressor
is open, and reopening after `Close` gives every prefix of the series a reader.
Creation in a buffer below the size of the header returns NULL and leaves
nothing to model. `CompressRefused` and `DecompressRefused` are the calls that
get ERR_ARG, for a NULL pointer or a handle of the other width: they change
nothing but the status, which matters to `OverflowIsFinal` and to the end of a
read loop.

**PointCore and PointLog** are the specification between the layers.
`GorillaStream` implements `PointLog` (`ImplementsPointLog`, with the refinement
mapping `OpenedOn`), `Envelope` builds the wrappers from the operators of
`PointCore`, and the threads of `PyShared` implement the compressor of
`PointLog`. A compressor is the points accepted (`log`) and whether one was
refused (`full`); a call appends some of its points, and after a refusal none.
A reader that is opened on a stream delivers its points, all of them and in
order, before it reports the end, which is final. Between the last point and the
end there may be padding: up to three points (`spare`) for a whole stream, none
for one that is full, cut or empty. Only for a reader that is given bytes from
behind the stream is their number left open.

**Envelope.** `cores` are the C compressors of two objects, of which C++ may move
one to the other, also if that has points of its own; `handles` are the objects
that have one (a moved-from object keeps its count and refuses appends), `counts`
is `count_`. A batch takes any number of its points and then fills the core.
`Serialize` makes the envelope `env` with the count and the type of the values,
`CompressArrays` is the one-shot function of Python, whose buffer is large enough
for all points (`EnoughRoom`). `Truncate` is what storage or a network may do:
bytes of the header are missing, or so much that no C decompressor opens, or the
end of the stream (`CutStreams`). A decompressor of any language and type is
constructed on it. A C decompressor of the other type would deliver `Phantom`s
without end, as nothing in the stream tells the width of its values: the type in
the envelope has to keep it away. `CppBegin` and `CppNext` are the C++ iterator,
whose `CppFetch` reads one point ahead of the caller. After an exception of `++`
the caller still has the iterator and may go on (`raised`, `held`); after one of
`begin` it has none. `RustNext` is the Rust iterator; `CppDecodeAll`,
`PyDecodeAll`, `PyDecodeArrays` and `RustDecodeAll` are the calls that decode
everything. `to_vector` and `decode_into` are one action, because a caller sees
the same of both, and so are `decompress` and the iterator of Python.
`decompress_to_arrays` is another: it asks for the first element of its arrays,
which throws when there is none (`index_error`). Python has classes for doubles
only (`KindsIn`). The README of the repository (29-30) and the C++ header (14-15)
say that a stream produced in one language decodes in any other. That does not
hold of the code in two places: no class of Python reads an envelope of floats,
and `decompress_to_arrays` fails on an envelope without points, which every other
reader decodes as an empty series. `Interoperable` says what does hold: a refusal
is for the type of the values and nothing else, no reading of the right type
fails but that of no points into arrays, and a reading which ends has the whole
series. Appending after `bytes` is left out:
the bytes are a copy.

**PyShared.** A thread begins a call, with the program's own lock if there is
one (`CallerLocks`), takes the interpreter lock, and runs the call in steps: the
code of a timestamp, the code of a value with the look at the overflow mark, the
load and the store of `count_`, and for `get_bytes` the length of the stream and
then the count. `Unequal` is a batch that is refused and `Size` is `len`.
`compress_batch` has no interpreter lock between `CompressBatch` and `Regain`;
`compress` keeps it, so that `gil = t` tells the two apart where the buffer
overflows: `append` throws there and counts nothing, `append_batch` adds to the
count first. A code is written in one step; threads that mix within a code, a
data race, do more harm than that. So the model without the caller's lock is
used for what goes wrong and for `CallsReturn`, which no content of the buffer
can change, and never to show that a stream is right. With the lock the threads
are shown to implement the compressor of `PointLog`: `Counted`, the points in the
count, is its log, and a call takes effect where it adds to the count, or, if it
is a `compress` that throws, at the overflow. The arrays that a batch reads
without the interpreter lock belong to the program. They are not in the model: a
lock around the calls of the compressor does not keep another thread from writing
to them, and what a batch reads then is a data race about which the code promises
nothing.

## The runs

| Run | Shows | Bounds |
|---|---|---|
| `bit_io` | `ReadBack`, `PaddingIsZero`, `SlackUntouched`, `EofAfterAll`, `ImplementsBitLog` | 3 bytes of 2 bits in a memory of 4, filled with ones, zeros or both. Positions wrap twice and the buffer fills up; nothing in the code depends on 8 |
| `value_double` | `LockStep`, `RoundTrip`, `WindowIsProper`, `TornValueIsEof`, `ValueBitsBounded` | width 64, nine values whose differences begin and end around the ends of the word, bits 31 to 33 and the fields' limits; series of any length. The theorems hold for every width up to 64 and all values |
| `value_float` | `RoundTrip` | width 32, seven values |
| `timestamps` | `CleanRoundTrip`, `InStep`, `Congruent`, `TornTimestampIsEof`, `TsBitsBounded` | 16 bit timestamps and a 14 bit last bucket (wider than the bucket before it); twelve timestamps whose differences hit the edges of every bucket, of the last field and of the word; series of any length. The theorems hold for every width and all timestamps |
| `stream` | `ShiftsAreDefined`, `TornNeverDecodes`, `PaddingOnlyRepeats`, `OverflowIsFinal`, `StatusCountsPoints`, `EnoughRoom`, `ImplementsPointLog`, `ReadLoopEnds` | `MaxPoints` 3, `MaxBatch` 2, 16 bit timestamps, 8 bit values, buffers of 2, 7 and 12 bytes: header only, an end within a point, room for all. Four points: a repetition, a reused window, a new window, a larger jump. Memory filled with zeros, which decode as repetitions, or with a byte that reads as a window wider than a value. All but `ReadLoopEnds` are theorems, for every bound |
| `envelope` | `EnvelopeCount`, `OnlyTheSeries`, `AllOrThrow`, `Interoperable`, `HeldPointIsLast`, `IterationEnds` | two points, series of up to three in two objects, batches of up to two: a batch can stop at its first, second or no point, before and behind single points, and a stream can be moved over another. The theorems hold for every bound |
| `py_locked` | `StreamLayout`, `EnvelopeIsSnapshot`, `ImplementsPointLog` when the program locks around each call | two threads, three calls with batches of up to two, a buffer that ends behind the third timestamp. The lock keeps the calls apart; what is left to go wrong is that it has to span the release of the interpreter lock, and the end of the buffer. The theorems hold for every bound |
| `py_unlocked` | `CallsReturn` when it does not | two threads, two calls, batches of up to two, a buffer that ends behind the second timestamp |
| `envelope_rust` | finding: a truncated stream looks like a short one in Rust | as `envelope` |
| `py_layout` | finding: points of two Python threads mix | as `py_locked`, without the lock |
| `timestamp_range` | finding: a point is altered and compress returns OK | as `timestamps` |
| `stream_padding` | finding: padding is decoded as points | as `stream` |

Every run explores all its states. Link and stream runs differ in what they
are for: the links are exhaustive in the codecs' cases, the stream in the order
of calls, the end of the buffer and the length the reader is given.

**Fairness.** In `GorillaStream` a caller that has not seen the end mark and does
not close calls `decompress_next` again. That is the read loop of every wrapper.
It is weak fairness of `DecompressNext` with the enabling condition written out,
a call being possible at any time. `ReadLoopEnds` then says that the loop ends:
each call consumes at least two bits or meets the end, and whichever call sets
the mark reports it. In `Envelope` it is the same loop over an iterator, and a
caller that catches what `++` throws and goes on with the loop is one of its
callers: `IterationEnds` holds for it too, because `++` counts down before it
fetches. In
`PyShared` a thread in the middle of a call goes on (weak fairness of each of its
steps: the scheduler), and a thread that waits for the interpreter lock gets it
in the end while others take and release it (strong fairness of `Regain`: the
interpreter hands its lock over to waiting threads). Nothing makes a thread begin
a call.

**Findings.** The first two are disagreements of the C header with the C code.

1. A delta of deltas that needs more than 32 bits is stored cut off and
   `compress` returns OK. The decoder stays in step (`InStep`) and is off by a
   multiple of 2^32 from then on (`Congruent`); within 32 bits it is exact
   (`CleanRoundTrip`).
2. The padding of a stream may decode as up to three points. They only repeat
   the last delta and the last value (`PaddingOnlyRepeats`), and the wrappers'
   count of points hides them.
3. The Rust crate names an error `Truncated` and never returns it: `iter` takes
   every error for the end and `to_columns` cuts its vectors to what was decoded.
   What is delivered is right (`OnlyTheSeries`), that it is not all is not
   reported. The C++ wrapper throws (`AllOrThrow`).
4. `compress_batch` of the Python binding runs without the interpreter lock and
   with no other. A second thread's `compress` on the same object then writes
   between the timestamp and the value of a point. The C header allows only
   distinct instances to be used concurrently; nothing says so to a Python
   program. A lock around each call is enough (`py_locked`).
   Without one, `get_bytes` beside a batch can also return an envelope that counts
   more points than its stream has, since `bytes()` reads the length first and the
   count, to which the batch adds meanwhile, afterwards.

Read in the code, and excepted by name in `Interoperable`: the two places where
the claim of the README on languages fails, which the section on `Envelope` gives.

**Mutants.** Beside some definitions stand mutants: the same operator with a
plausible bug, such as a test left out or a reset forgotten. Each property is
violated by one of them.

## The proofs

`BitIOProofs` proves, for every byte width, buffer, memory size and set of
initial memories that satisfy `BitIOAssumption`, the invariants of the run
`bit_io` and the refinement of `BitLog`.

None of the invariants is inductive alone: that a reader gets back what was
written needs to know what the bytes hold, and that a bit that is OR-ed in is the
bit meant needs to know that the rest of the byte is zero. `IInv` therefore adds

- `WriterInv`: the number of bits put is the writer's position; `overflow` only
  at the end; every bit of the memory in front of the position is the bit put
  there;
- `ReaderInv`: the number of bits got is the reader's position, and not more was
  opened than there are bits to read.

The lemmas `PutBitInv`, `PutOverflowInv`, `OpenReaderInv`, `GetBitInv` and
`GetEofInv` show that each action preserves `IInv`, with one step per conjunct;
`ByteOrder` and `WrittenPosition` hold the arithmetic of positions (a product of
variables, which the provers need in small steps). The theorems follow from
`Invariant`, and `WriterIsBitLog` maps every step of the writer to a step of the
log and every step of the reader to a stutter.

`EnvelopeProofs` proves, for every set of points and every bound, the type
invariant and all other invariants of the run `envelope`. Its `IInv` adds to them

- `WriterInv`: while the series is written, every object that has a handle counts
  exactly the points of its core, and one that has none has no points;
- `StoredInv`: the stream of an envelope is a beginning of the log it was made
  from, has padding behind it only when it is all of that log, and carries the
  type and, if there was a handle, the length of it;
- `ReaderInv`: a decompressor that was constructed has the type of the stream;
  what was delivered is a beginning of what the C decompressor has and not longer
  than the count; and `remaining_` is the rest of the count, in C++ with the
  point that was fetched ahead, or less after an exception.

That padding is never delivered needs all three: the padding is behind the last
point, the count is the number of points, and no reading goes beyond the count.
`TakenInv` is the step of an append, whatever number of points the core takes,
`MoveInv` that of a move over an object with points; `PackInv` makes the
envelope, `DeliveredType` and its neighbours give what the single and the batch
call deliver, and the steps of the reading are reduced to them.

`PySharedProofs` proves, for any number of threads, calls, points in a batch and
codes in the buffer, that the invariants of the run `py_locked` hold and that
`PyShared` implements `PointLog`. Each theorem assumes `CallerLocks`, without
which `py_layout` is a counterexample. Its `IInv` adds to them

- `LockInv`: only the thread that has the program's lock is in a call, the batch
  that gave the interpreter lock away included;
- `CallInv` and `DataInv`: the thread that encodes is in the last call made, with
  one point if it has the interpreter lock, and the stream has codes of the calls
  made so far only;
- `ParityInv`: the stream ends with a timestamp only when the thread is between
  the codes of that point, or the buffer is full;
- `CountInv`: what the count lacks is what the thread in a call has written, and
  the count that a thread has loaded is the count;
- `SettledInv`: after an overflow no call writes a point;
- `ShotInv`: the last envelope is not longer than the stream and has nothing of
  the call that is being encoded.

`PutFacts` and `PutKeeps` hold what the writing of one code does, whatever code
it is; `QuietInv` covers the steps that leave the object alone. In the refinement
`StoreCount` is a step of the log (`StoreCountAccepts`): `PointsJoin` cuts what it
adds out of the stream. So is `EncodeVal` where `compress` throws
(`EncodeValAccepts`): a call that appends nothing and leaves the log full. A step that appends to the stream leaves the
points in the count as they are (`PointsStay`).

`BitsProofs` and `CodecProofs` are the lemmas about the operators of the codecs,
for every `Width` from 1 to 64 and every `TsBits` and `LastBits` with 12 <=
`LastBits` <= `TsBits` (`WidthAssumption`, `TimestampAssumption`: six bits hold a
length of 64 less one, and the last bucket is not narrower than the others). The
codecs compute with recursive functions, on numbers (`Pow2`, `NumberOf`) and over
calls (the batch loops). The induction this needs is stated without an operator
parameter: `SetInduction` is about a set that holds 0 and the successor of each
of its members, and follows from a smallest counterexample (`LeastExists`).
`Recursion` and `LoopExists` show that a recursive definition defines a function
at all; what it computes is then read off its equation. On top stand

- `NumberOfField` and `SignExtendField`: a number put in n bits is read as the
  number modulo 2^n, and sign-extended as itself if it fits;
- `WholeParts`, `TornParts`: a code that is all there, or is cut off anywhere, as
  seen by a decoder that reads it field by field;
- `TsDecodeWhole`, `TsDecodeTorn`, `ValDecodeWhole`, `ValDecodeTorn`: what each
  decoder makes of the code of its encoder in either case;
- `TsDecodeAny`, `ValDecodeAny`: what it makes of bits that nobody wrote, where
  the window of a value may be none (`LooseStates`).

`TimestampLinkProofs` proves the invariants of the run `timestamps`. What is said
of the last timestamp does not carry over to the next one, which depends on
timestamp and delta of the state: `IInv` adds that both parts of the decoder's
state are congruent to the encoder's modulo the last field's range (`StatesNear`)
and that they are equal as long as the series is clean. `ValueLinkProofs` proves
those of `value_double`, from `IInv` that encoder and decoder hold the same state
with a proper window; that a difference is its meaningful bits shifted back, and
that a reused window covers it, is in `XorFacts` and `ZeroCounts`.

`GorillaStreamProofs` proves all properties of the run `stream` but
`ReadLoopEnds`, for every word size, buffer, set of points, series and batch that
satisfies `StreamAssumption`. Two invariants are needed. `WInv`, of the
compressor, says that the bits are those of the block timestamp and, up to each
of the `ends`, the code of the point that was counted there, written in the state
that the points before it lead to (`Written`); behind the last of them there is
nothing, or, after an overflow, the part of another point's code that fitted
(`RanOut`). `OverflowIsFinal` and `EnoughRoom` follow. `IInv` adds, for a
decompressor that has not reached the end, where it is (`Place`):

- `InStream`: at the end of the point it has come to, in the state the compressor
  was in there. The next code is whole and gives the next point, or is torn and
  gives the end;
- `InPadding`: in the zeros behind a whole stream, which have room for three codes
  of two bits, each of which repeats the last point;
- `Beyond`: anywhere in bytes of other origin, where only the number of bits used
  up per point is known.

What has been delivered is recorded in `Kept` (the points of the stream),
`Repeats` and `Bounded`, and `Sane` keeps the window of the decoder one that an
encoder may write, also at the end, as long as it was given no bytes from behind
the stream: `DefinedShifts` follows. `OpenFollows` establishes this when a decompressor is
opened on any length of the buffer, `FollowedNext` preserves it in one call and
`LoopReads` in a batch. `StreamIsPointLog` is the refinement: `CallAccepts` makes
every compress call an append of `PointLog`, `OpenedAs` shows that what a reader
is opened on is a stream `PointLog` allows, and `CallReads` makes a call of the
decompressor a read of it, or nothing behind the end. It assumes `SpanFits`: no
delta of deltas of the points in use is cut off. Without that it is false, which
is finding 1; values come back in any case. The other theorems do not need it.

Model-checked only: liveness (`CallsReturn`, `ReadLoopEnds`, `IterationEnds`), as
the prover does not treat fairness. For `ReadLoopEnds` the step from calls to the
end is proved: a call that does not meet the end consumes at least two bits
(`StatusCountsPoints`) of a buffer whose length is that of the bytes it was opened
on (`GivenBits`).

## Not modelled

- Allocation failure and `create` calls that return NULL: there is no object then.
- A moved-from decompressor of C++ that is read: the count stays and the data is
  gone, which is undefined behaviour with no outcomes to choose from. A move of an
  object to itself, which leaves its buffer unspecified.
- The arrays that a Python batch reads, and threads that write to them meanwhile.
- That the C core writes its outputs only when it succeeds: `Envelope` takes it
  over from the C API, whose model has outputs of successful calls only.
- Calls on one C object from two threads within a bit: `PyShared` interleaves
  codes and shows that this is already wrong.
- The bit casts: a value of the model is its bit pattern.
- The FFI crate (declarations, and a copy of the C core that does not differ from
  it), tests, build files and packaging: no state of their own.

## Plan

Done: the bit level with its proofs, both codecs, the C API and the abstract
specification which it implements and the wrappers build upon, the wrappers of
C++, Rust and Python with their proofs, the Python binding's threads with theirs,
and the findings; the proofs about the codecs and the C API.

Every invariant, action property and refinement that a passing run checks is a
theorem. What could be added:

1. `BitIO` and `Bits`: that reading n bits of the byte level is `Get`, and writing
   them an append, as a refinement between the two.
2. `Envelope` over the state machine `PointLog` instead of the values of
   `PointCore`, so that the wrappers' theorems and `StreamIsPointLog` compose to
   one statement about bits.
3. The variants of the other loops (`CallsReturn`, `IterationEnds`) as action
   properties.
