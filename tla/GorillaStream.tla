---------------------------- MODULE GorillaStream ---------------------------
(***************************************************************************)
(* The C API of include/gorillats/gorillats.h: a compressor that appends   *)
(* points to a stream in a buffer of bounded size, and a decompressor that *)
(* is opened on a copy of the first bytes of that buffer, which is how the *)
(* C++, Rust and Python wrappers hand streams over. The copy may be cut    *)
(* short, or may hold bytes behind the stream.                             *)
(***************************************************************************)
EXTENDS TimestampCodec, ValueCodec

CONSTANTS Points,           \* the points [ts, val] that are handed to compress
          BlockTimestamps,  \* what a block may start with
          Caps,             \* the buffer sizes, in bytes
          Fills,            \* bytes the caller's memory may be filled with before
          MaxPoints,        \* bound: points in the stream
          MaxBatch          \* bound: points in one batch call

HeaderBytes == TsBits \div 8

ASSUME StreamAssumption ==
  /\ TsBits % 8 = 0
  /\ Points \subseteq [ts : Timestamp, val : Value]
  /\ BlockTimestamps \subseteq Timestamp
  /\ \A cap \in Caps : cap \in Nat /\ cap >= HeaderBytes
  /\ Fills \subseteq [1 .. 8 -> Bit]
  /\ MaxPoints \in Nat
  /\ MaxBatch \in Nat

VARIABLES c,         \* gorillats_compressor: its stream, overflow mark and states
          cap,       \* len of gt_compressor_create
          fill,      \* the byte the caller's memory was filled with before
          c_rc,      \* what the last compress call returned
          accepted,  \* history: the points compress and compress_batch counted
          ends,      \* history: the length of the stream after each of them
          reading,   \* there is a decompressor
          d,         \* gorillats_decompressor
          d_rc,      \* what the last decompress call returned
          out,       \* history: the points it decoded
          source     \* history: what it was opened on

writer == <<c, cap, fill, c_rc, accepted, ends>>
reader == <<reading, d, d_rc, out, source>>
vars   == <<writer, reader>>

(* Mutant: bits are stored whether there is room or not. *)
PutBitsUnbounded(w, bits, n) ==
  [w EXCEPT !.bits = @ \o bits, !.overflow = Len(w.bits) + Len(bits) > 8 * n]

(* gt_writer over a buffer of n bytes: what does not fit is not stored. *)
PutBits(w, bits, n) ==
  LET room == 8 * n - Len(w.bits)
  IN  IF Len(bits) <= room THEN [w EXCEPT !.bits = @ \o bits]
      ELSE [w EXCEPT !.bits = @ \o SubSeq(bits, 1, room), !.overflow = TRUE]

(* A compressor writes the block timestamp raw. A buffer that has no room    *)
(* for it is refused with NULL, which leaves nothing to model.               *)
Created(t0) ==
  [bits |-> FieldBits(t0, TsBits), overflow |-> FALSE, ts |-> TsStart(t0), vs |-> ValStart]

(* Mutant: a point is refused unless 16 bytes are left. *)
EncodedReserving(w, p) ==
  LET t == TsEncode(w.ts, p.ts)
      v == ValEncode(w.vs, p.val)
      s == IF 8 * cap - Len(w.bits) < 128 THEN [w EXCEPT !.overflow = TRUE] ELSE w
  IN  [PutBits(PutBits(s, t.bits, cap), v.bits, cap) EXCEPT !.ts = t.s, !.vs = v.s]

(* One point; the states advance whether it fits or not. *)
Encoded(w, p) ==
  LET t == TsEncode(w.ts, p.ts)
      v == ValEncode(w.vs, p.val)
  IN  [PutBits(PutBits(w, t.bits, cap), v.bits, cap) EXCEPT !.ts = t.s, !.vs = v.s]

Status(w) == IF w.overflow THEN "ERR_OVERFLOW" ELSE "OK"

Init ==
  /\ \E t0 \in BlockTimestamps : c = Created(t0)
  /\ cap \in Caps
  /\ fill \in Fills
  /\ c_rc = "OK"
  /\ accepted = << >>
  /\ ends = << >>
  /\ reading = FALSE
  /\ d = << >>
  /\ d_rc = "OK"
  /\ out = << >>
  /\ source = << >>

Compress(p) ==
  /\ c' = Encoded(c, p)
  /\ c_rc' = Status(c')
  /\ \/ /\ c_rc' = "OK"
        /\ accepted' = Append(accepted, p)
        /\ ends' = Append(ends, Len(c'.bits))
     \/ /\ c_rc' # "OK"
        /\ UNCHANGED <<accepted, ends>>
  /\ UNCHANGED <<cap, fill, reader>>

(* Mutant: the point that overflows is counted. *)
BatchPointCounted(b, p) ==
  LET w == Encoded(b.c, p)
  IN  IF b.broke THEN b
      ELSE [c |-> w, broke |-> w.overflow, written |-> b.written + 1,
            ends |-> Append(b.ends, Len(w.bits))]

(* The loop of compress_batch stops behind the first point that overflows.   *)
BatchPoint(b, p) ==
  LET w == Encoded(b.c, p)
  IN  IF b.broke THEN b
      ELSE IF w.overflow THEN [b EXCEPT !.c = w, !.broke = TRUE]
      ELSE [b EXCEPT !.c = w, !.written = @ + 1, !.ends = Append(@, Len(w.bits))]

Batch(ps) ==
  LET after[i \in 0 .. Len(ps)] ==
        IF i = 0 THEN [c |-> c, broke |-> FALSE, written |-> 0, ends |-> ends]
        ELSE BatchPoint(after[i - 1], ps[i])
  IN  after[Len(ps)]

(* Mutant: a batch is told only of its own points. *)
CompressBatchOwn(ps) ==
  /\ c' = Batch(ps).c
  /\ c_rc' = IF Batch(ps).broke THEN "ERR_OVERFLOW" ELSE "OK"
  /\ accepted' = accepted \o SubSeq(ps, 1, Batch(ps).written)
  /\ ends' = Batch(ps).ends
  /\ UNCHANGED <<cap, fill, reader>>

CompressBatch(ps) ==
  /\ c' = Batch(ps).c
  /\ c_rc' = Status(c')
  /\ accepted' = accepted \o SubSeq(ps, 1, Batch(ps).written)
  /\ ends' = Batch(ps).ends
  /\ UNCHANGED <<cap, fill, reader>>

(* Mutant: a byte that was entered counts as written. *)
FinishLenEntered == Len(c.bits) \div 8 + 1

(* gorillats_compressor_finish changes nothing: it rounds up to bytes.       *)
FinishLen == (Len(c.bits) + 7) \div 8

(* The buffer: the stream, zeros to the end of the byte being written, which *)
(* was cleared when it was entered, and behind it what was there before.     *)
Memory ==
  [i \in 1 .. 8 * cap |->
     IF i <= Len(c.bits) THEN c.bits[i]
     ELSE IF (i - 1) \div 8 = Len(c.bits) \div 8 THEN 0 ELSE fill[((i - 1) % 8) + 1]]

Open(len) ==
  /\ len >= HeaderBytes
  /\ LET header == Get(ReaderOn(SubSeq(Memory, 1, 8 * len)), TsBits)
     IN  d' = [r |-> header.r, ts |-> TsStart(SignExtend(header.bits)), vs |-> ValStart]
  /\ reading' = TRUE
  /\ d_rc' = "OK"
  /\ out' = << >>
  /\ source' = [given |-> len, finish |-> FinishLen, torn |-> c.overflow,
                points |-> Cardinality({i \in 1 .. Len(ends) : ends[i] <= 8 * len})]
  /\ UNCHANGED writer

(* Mutants: the status of the value, or of the timestamp, gets lost. *)
FetchedNoValueStatus(s) ==
  LET t == TsDecode(s.d.r, s.d.ts)
      v == ValDecode(t.r, s.d.vs)
  IN  IF t.rc # "OK" THEN [s EXCEPT !.rc = t.rc, !.d.r = t.r, !.d.ts = t.s]
      ELSE [rc |-> "OK", d |-> [r |-> v.r, ts |-> t.s, vs |-> v.s],
            out |-> Append(s.out, [ts |-> t.out, val |-> v.out])]
FetchedNoTsStatus(s) ==
  LET t == TsDecode(s.d.r, s.d.ts)
      v == ValDecode(t.r, s.d.vs)
  IN  IF t.rc # "OK" THEN [s EXCEPT !.d.r = t.r, !.d.ts = t.s]
      ELSE IF v.rc # "OK" THEN [s EXCEPT !.rc = v.rc, !.d = [r |-> v.r, ts |-> t.s, vs |-> v.s]]
      ELSE [rc |-> "OK", d |-> [r |-> v.r, ts |-> t.s, vs |-> v.s],
            out |-> Append(s.out, [ts |-> t.out, val |-> v.out])]

(* The body of decompress_next: the value is looked at only after the        *)
(* timestamp was there, and the timestamp stays consumed if the value is not.*)
Fetched(s) ==
  LET t == TsDecode(s.d.r, s.d.ts)
      v == ValDecode(t.r, s.d.vs)
  IN  IF t.rc # "OK" THEN [s EXCEPT !.rc = t.rc, !.d.r = t.r, !.d.ts = t.s]
      ELSE IF v.rc # "OK" THEN [s EXCEPT !.rc = v.rc, !.d = [r |-> v.r, ts |-> t.s, vs |-> v.s]]
      ELSE [rc |-> "OK", d |-> [r |-> v.r, ts |-> t.s, vs |-> v.s],
            out |-> Append(s.out, [ts |-> t.out, val |-> v.out])]

Take(s) ==
  /\ d' = s.d
  /\ d_rc' = s.rc
  /\ out' = s.out
  /\ UNCHANGED <<writer, reading, source>>

Now == [rc |-> "OK", d |-> d, out |-> out]

DecompressNext == reading /\ Take(Fetched(Now))

(* The loop of decompress_batch stops at the first point that is not there.  *)
ReadStep(s) == IF s.rc # "OK" THEN s ELSE Fetched(s)

DecompressBatch(n) ==
  LET after[i \in 0 .. n] == IF i = 0 THEN Now ELSE ReadStep(after[i - 1])
  IN  reading /\ Take(after[n])

(* A NULL pointer, a handle of the other width: the call says so and does    *)
(* nothing, not even to the counts it returns.                               *)
CompressRefused ==
  /\ c_rc' = "ERR_ARG"
  /\ UNCHANGED <<c, cap, fill, accepted, ends, reader>>

DecompressRefused ==
  /\ reading
  /\ d_rc' = "ERR_ARG"
  /\ UNCHANGED <<writer, reading, d, out, source>>

Close ==
  /\ reading
  /\ reading' = FALSE
  /\ d' = << >>
  /\ d_rc' = "OK"
  /\ out' = << >>
  /\ source' = << >>
  /\ UNCHANGED writer

(* The decompressor works on a copy, so that its calls commute with those of *)
(* the compressor: the compressor waits while there is a decompressor.       *)
Next ==
  \/ \E p \in Points : ~ reading /\ Len(accepted) < MaxPoints /\ Compress(p)
  \/ \E n \in 0 .. MaxBatch : \E ps \in [1 .. n -> Points] :
       ~ reading /\ Len(accepted) + n <= MaxPoints /\ CompressBatch(ps)
  \/ \E len \in 0 .. cap : ~ reading /\ Open(len)
  \/ DecompressNext
  \/ \E n \in 0 .. MaxBatch : DecompressBatch(n)
  \/ ~ reading /\ CompressRefused
  \/ DecompressRefused
  \/ Close

(* A caller that has not seen the end, and does not close, calls again. This *)
(* is weak fairness of DecompressNext with its enabling condition written    *)
(* out: while the end mark is not set, a call changes the reader.            *)
CanRead == reading /\ ~ d.r.eof
Fairness == []<>(~ CanRead) \/ []<><<DecompressNext>>_vars

Spec == Init /\ [][Next]_vars /\ Fairness

-----------------------------------------------------------------------------
Statuses == {"OK", "ERR_OVERFLOW", "ERR_EOF", "ERR_ARG"}

TypeOK ==
  /\ c.bits \in Seq(Bit) /\ Len(c.bits) <= 8 * cap
  /\ c.overflow \in BOOLEAN
  /\ c.ts.prev_ts \in Timestamp /\ c.ts.prev_delta \in Timestamp
  /\ c.vs.prev_bits \in Value /\ c.vs.prev_lz + c.vs.prev_tz < Width
  /\ c_rc \in Statuses \ {"ERR_EOF"}
  /\ accepted \in Seq(Points)
  /\ Len(ends) = Len(accepted)
  /\ d_rc \in Statuses \ {"ERR_OVERFLOW"}
  /\ reading => /\ d.r.pos \in TsBits .. Len(d.r.buf)
                /\ d.ts.prev_ts \in Timestamp /\ d.ts.prev_delta \in Timestamp
                /\ d.vs.prev_bits \in Words
                /\ out \in Seq([ts : Timestamp, val : Words])

(* In the bytes of a stream, whole or cut short anywhere, full or not, no    *)
(* window is found that is wider than a value: the undefined shift is met    *)
(* only in bytes from behind the stream. The window of the state is the one  *)
(* last shifted by, also where the end came in the middle of it.             *)
ShiftsAreDefined ==
  reading /\ source.given <= source.finish
    => /\ d.vs.prev_tz >= 0
       /\ d.vs.prev_bits # Unknown

(* From a stream that was cut short, or that ran into the end of the buffer  *)
(* in the middle of a point, nothing is decoded but the points that are      *)
(* wholly there: a torn point never turns into a point.                      *)
TornNeverDecodes ==
  reading /\ (source.given < source.finish \/ (source.torn /\ source.given = source.finish))
    => Len(out) <= source.points

(* The zeros that fill up the last byte of a stream may be decoded, but only *)
(* as repetitions: at most three points, with the last delta and the last    *)
(* value of the stream.                                                      *)
PaddingOnlyRepeats ==
  reading /\ ~ source.torn /\ source.given = source.finish
    => /\ Len(out) <= source.points + 3
       /\ \A i \in source.points + 1 .. Len(out) :
            /\ out[i].val = out[i - 1].val
            /\ i > 2 => Wrap(out[i].ts - out[i - 1].ts) = Wrap(out[i - 1].ts - out[i - 2].ts)

(* Once the buffer has overflowed the stream in it is final, and no later    *)
(* call, not even an empty batch or one that is refused, reports success     *)
(* or writes.                                                                *)
OverflowIsFinal ==
  [][c.overflow => /\ c'.overflow /\ c'.bits = c.bits
                   /\ ends' = ends
                   /\ c_rc' # "OK"]_vars

(* The status of a call says how many points it has delivered: all that were *)
(* asked for, or fewer, and then the end mark is up. Each of them has used   *)
(* up bits of the stream, which is why a read loop comes to its end.         *)
Delivered(n) ==
  /\ d'.r.pos >= d.r.pos + 2 * (Len(out') - Len(out))
  /\ \/ d_rc' = "OK" /\ Len(out') = Len(out) + n
     \/ d_rc' = "ERR_EOF" /\ d'.r.eof /\ Len(out') < Len(out) + n
StatusCountsPoints ==
  [][reading /\ reading' =>
       /\ ~ Delivered(1) => ~ DecompressNext
       /\ \A n \in 0 .. MaxBatch : ~ Delivered(n) => ~ DecompressBatch(n)]_vars

(* A point is refused only where the most that points can take would not     *)
(* fit: a caller that reserves that much, as compress_arrays of the Python   *)
(* binding does, never meets an overflow.                                    *)
PointBits == (4 + LastBits) + (2 + 5 + 6 + Width)
EnoughRoom == c.overflow => TsBits + (Len(accepted) + 1) * PointBits > 8 * cap

(* Where the casts of gt_ts_encode lose nothing: whichever of the points     *)
(* follow each other, the delta of deltas fits the last field.               *)
Times    == BlockTimestamps \cup {p.ts : p \in Points}
SpanFits == \A a, b, x \in Times : Wrap(Wrap(x - b) - Wrap(b - a)) \in Signed(LastBits)

(* What the calls do to bits is what PointLog says of points: a reader       *)
(* delivers the points it was opened on, all of them and in order, before    *)
(* the end, and nothing after it; and what comes in between is padding, of   *)
(* which a stream that is full, cut short or empty has none.                 *)
OpenedOn ==
  LET kind == IF source.given < source.finish THEN "cut"
              ELSE IF source.given = source.finish THEN "whole" ELSE "overlong"
  IN  [kind   |-> kind,
       points |-> SubSeq(accepted, 1, source.points),
       spare  |-> IF kind = "overlong" THEN 8 * source.given
                  ELSE IF kind = "cut" \/ source.torn \/ accepted = << >> THEN 0 ELSE 3]
Log == INSTANCE PointLog WITH
         core    <- [log |-> accepted, full |-> c.overflow],
         reading <- reading,
         stream  <- IF reading THEN OpenedOn
                    ELSE [kind |-> "none", points |-> << >>, spare |-> 0],
         taken   <- out,
         ended   <- reading /\ d.r.eof
ImplementsPointLog == Log!Spec

(* A loop that reads until it is told that there is no more is told so: the  *)
(* end mark of the bit reader always comes up, and never unreported.         *)
ReadLoopEnds == CanRead ~> (~ reading \/ d_rc = "ERR_EOF")

(* What the header promises: the points of a stream, then ERR_EOF.           *)
EofWhenExhausted ==
  reading /\ ~ source.torn /\ source.given = source.finish => Len(out) <= source.points
=============================================================================
