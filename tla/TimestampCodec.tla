--------------------------- MODULE TimestampCodec ---------------------------
(***************************************************************************)
(* gt_ts_encode and gt_ts_decode of src/gorillats.c: delta-of-delta coding *)
(* of signed timestamps.                                                   *)
(***************************************************************************)
EXTENDS Bits, FiniteSetsExt

CONSTANTS TsBits,    \* bits in a timestamp: 64
          LastBits   \* bits in the field of the last bucket: 32
ASSUME TimestampAssumption ==
  /\ TsBits \in Nat \ {0}
  /\ LastBits \in 12 .. TsBits   \* the last bucket is not narrower than the others

Signed(n) == -Pow2[n - 1] .. Pow2[n - 1] - 1

Timestamp == Signed(TsBits)

(* Timestamps and deltas are int64_t, and the builds let them wrap around. *)
Wrap(x) == ((x + Pow2[TsBits - 1]) % Pow2[TsBits]) - Pow2[TsBits - 1]

TsStart(t0) == [prev_ts |-> t0, prev_delta |-> 0]

(* Mutant: deltas of more than TsBits bits. *)
UnwrappedDelta(s, ts) == ts - s.prev_ts

Delta(s, ts) == Wrap(ts - s.prev_ts)
Dod(s, ts)   == Wrap(Delta(s, ts) - s.prev_delta)

(* The buckets: a prefix of ones, and the field that follows it. *)
FieldWidths == <<0, 7, 9, 12, LastBits>>
Buckets     == 1 .. 5

(* Mutant: the last prefix ends in a zero like the others. *)
UnaryPrefix(k) == [i \in 1 .. k |-> IF i < k THEN 1 ELSE 0]

Prefix(k) == [i \in 1 .. IF k < 5 THEN k ELSE 4 |-> IF i < k THEN 1 ELSE 0]

(* Mutant: a bucket takes one number too many. *)
FitsOneMore(dod, k) ==
  \/ k = 1 /\ dod = 0
  \/ k \in 2 .. 4 /\ (dod \in Signed(FieldWidths[k]) \/ dod = Pow2[FieldWidths[k] - 1])
  \/ k = 5

(* The first bucket takes 0, the last one whatever is left. *)
Fits(dod, k) ==
  \/ k = 1 /\ dod = 0
  \/ k \in 2 .. 4 /\ dod \in Signed(FieldWidths[k])
  \/ k = 5

BucketOf(dod) == Min({k \in Buckets : Fits(dod, k)})

TsEncode(s, ts) ==
  LET k == BucketOf(Dod(s, ts))
  IN  [bits |-> Prefix(k) \o FieldBits(Dod(s, ts), FieldWidths[k]),
       s    |-> [prev_ts |-> ts, prev_delta |-> Delta(s, ts)]]

(* Mutant: the field is taken as unsigned. *)
ZeroExtend(bits) == NumberOf(bits)

(* gt_sign_extend of a field; the first bucket has no field and means 0. *)
SignExtend(bits) ==
  IF bits = << >> THEN 0 ELSE NumberOf(bits) - bits[1] * Pow2[Len(bits)]

(* Mutant: the fourth bit of the prefix is not read. *)
BucketOfThree(r) == Min({k \in 1 .. 4 : k = 4 \/ Get(r, 4).bits[k] = 0})

(* Ones are read until a zero, or the fourth of them, ends the prefix. *)
BucketAt(r) == Min({k \in Buckets : k = 5 \/ Get(r, 4).bits[k] = 0})

(* Mutant: the state changes before the end mark is looked at. *)
TsDecodeEager(r, s) ==
  LET k     == BucketAt(r)
      field == Get(Get(r, Len(Prefix(k))).r, FieldWidths[k])
      delta == Wrap(SignExtend(field.bits) + s.prev_delta)
      ts    == Wrap(s.prev_ts + delta)
      state == [prev_ts |-> ts, prev_delta |-> delta]
  IN  IF field.r.eof THEN AtEof(field.r, state) ELSE Decoded(field.r, state, ts)

TsDecode(r, s) ==
  LET k     == BucketAt(r)
      field == Get(Get(r, Len(Prefix(k))).r, FieldWidths[k])
      delta == Wrap(SignExtend(field.bits) + s.prev_delta)
      ts    == Wrap(s.prev_ts + delta)
  IN  IF field.r.eof THEN AtEof(field.r, s)
      ELSE Decoded(field.r, [prev_ts |-> ts, prev_delta |-> delta], ts)
=============================================================================
