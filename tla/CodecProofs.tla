----------------------------- MODULE CodecProofs ----------------------------
(***************************************************************************)
(* What the proofs need of the two codecs. Of gt_ts_encode and             *)
(* gt_ts_decode: how integers wrap, and what a field and a bucket hold. Of *)
(* gt_val_encode and gt_val_decode: the window around the ones of a word.  *)
(* Of both: the types of states and codes, and what decoding makes of a    *)
(* code that is there or that is torn.                                     *)
(***************************************************************************)
EXTENDS TimestampCodec, ValueCodec, BitsProofs

(* Integers that wrap around. *)
LEMMA WordSize ==
  /\ Pow2[TsBits] \in Nat \ {0} /\ Pow2[TsBits - 1] \in Nat \ {0}
  /\ Pow2[TsBits] = 2 * Pow2[TsBits - 1]
<1>1. TsBits - 1 \in Nat /\ (TsBits - 1) + 1 = TsBits /\ TsBits \in Nat
  BY TimestampAssumption
<1> QED
  BY <1>1, Pow2Def

(* A timestamp is the only one that is congruent to it. *)
LEMMA WrapUnique ==
  ASSUME NEW x \in Int, NEW y \in Timestamp, NEW k \in Int, x = y + Pow2[TsBits] * k
  PROVE  Wrap(x) = y
<1> DEFINE M == Pow2[TsBits]
           H == Pow2[TsBits - 1]
<1>1. M \in Nat \ {0} /\ H \in Nat \ {0} /\ M = 2 * H
  BY WordSize
<1>2. y \in Int /\ y + H \in 0 .. M - 1
  BY <1>1 DEF Timestamp, Signed
<1>3. M * k \in Int /\ x + H = M * k + (y + H)
  <2> HIDE DEF M, H
  <2>1. M * k \in Int
    BY <1>1
  <2>2. x = y + M * k
    BY DEF M
  <2> QED
    BY <1>1, <1>2, <2>1, <2>2
<1> HIDE DEF M, H
<1>4. (x + H) % M = y + H
  <2>1. x + H \in Int
    BY <1>1
  <2> QED
    BY <1>1, <1>2, <1>3, <2>1, DivModUnique
<1> QED
  BY <1>1, <1>2, <1>4 DEF Wrap, M, H

(* Wrapping around changes a number by a multiple of the range. *)
LEMMA WrapCongruent ==
  ASSUME NEW x \in Int
  PROVE  /\ Wrap(x) \in Timestamp
         /\ \E k \in Int : x = Wrap(x) + Pow2[TsBits] * k
<1> DEFINE M == Pow2[TsBits]
           H == Pow2[TsBits - 1]
           k == (x + H) \div M
<1>1. M \in Nat \ {0} /\ H \in Nat \ {0} /\ M = 2 * H
  BY WordSize
<1>2. Wrap(x) = ((x + H) % M) - H
  BY DEF Wrap
<1>3. Timestamp = -H .. H - 1
  BY DEF Timestamp, Signed
<1> HIDE DEF M, H
<1>4. /\ k \in Int /\ (x + H) % M \in 0 .. M - 1
      /\ x + H = M * k + ((x + H) % M)
  <2>1. x + H \in Int
    BY <1>1
  <2> QED
    BY <1>1, <2>1, DivMod
<1> HIDE DEF k
<1>5. M * k \in Int
  BY <1>1, <1>4
<1>6. Wrap(x) \in Timestamp /\ x = Wrap(x) + M * k
  BY <1>1, <1>2, <1>3, <1>4, <1>5
<1> QED
  BY <1>4, <1>6 DEF M

(* Fields of signed numbers. *)
LEMMA SignExtendField ==
  ASSUME NEW v \in Int, NEW n \in Nat \ {0}
  PROVE  /\ SignExtend(FieldBits(v, n)) \in Signed(n)
         /\ \E q \in Int : SignExtend(FieldBits(v, n)) = v + Pow2[n] * q
         /\ v \in Signed(n) => SignExtend(FieldBits(v, n)) = v
<1> DEFINE M == Pow2[n]
           H == Pow2[n - 1]
           b == (v \div H) % 2
           r == v % M
           c == v \div M
           bits == FieldBits(v, n)
<1>1. M \in Nat \ {0} /\ H \in Nat \ {0} /\ M = 2 * H
  <2>1. n - 1 \in Nat /\ (n - 1) + 1 = n
    OBVIOUS
  <2> QED
    BY <2>1, Pow2Def
<1>2. SignExtend(bits) = r - b * M
  <2>1. Len(bits) = n /\ NumberOf(bits) = r
    BY FieldType, NumberOfField
  <2>2. bits # << >> /\ bits[1] = b
    BY <2>1 DEF FieldBits
  <2> HIDE DEF bits
  <2> QED
    BY <2>1, <2>2 DEF SignExtend
<1>3. Signed(n) = -H .. H - 1
  BY DEF Signed
<1> HIDE DEF M, H
<1>4. v = M * c + r /\ r \in 0 .. M - 1 /\ c \in Int
  BY <1>1, DivMod
<1> HIDE DEF r, c
<1>5. b = IF r < H THEN 0 ELSE 1
  <2>1. v = H * (2 * c) + r
    BY <1>1, <1>4
  <2>2. CASE r < H
    <3>1. v \div H = 2 * c
      <4>1. r \in 0 .. H - 1 /\ 2 * c \in Int
        BY <1>1, <1>4, <2>2
      <4> QED
        BY <1>1, <2>1, <4>1, DivModUnique
    <3> QED
      BY <1>4, <2>2, <3>1
  <2>3. CASE ~ (r < H)
    <3>1. v \div H = 2 * c + 1
      <4>1. r - H \in 0 .. H - 1 /\ 2 * c + 1 \in Int
        BY <1>1, <1>4, <2>3
      <4>2. H * (2 * c + 1) = H * (2 * c) + H /\ H * (2 * c) \in Int
        BY <1>1, <1>4
      <4>3. v = H * (2 * c + 1) + (r - H)
        BY <1>1, <1>4, <2>1, <4>2
      <4> QED
        BY <1>1, <4>1, <4>3, DivModUnique
    <3> QED
      BY <1>4, <2>3, <3>1
  <2> QED
    BY <2>2, <2>3
<1>6. b * M = IF r < H THEN 0 ELSE M
  BY <1>1, <1>5
<1> HIDE DEF b, bits
<1>7. SignExtend(bits) \in Signed(n)
  BY <1>1, <1>2, <1>3, <1>4, <1>6
<1>8. \E q \in Int : SignExtend(bits) = v + M * q
  <2>1. b \in Int /\ -c - b \in Int
    BY <1>4, <1>5
  <2>2. M * (-c - b) = - (M * c) - b * M /\ M * c \in Int /\ b * M \in Int
    BY <1>1, <1>4, <2>1
  <2>3. SignExtend(bits) = v + M * (-c - b)
    BY <1>2, <1>4, <2>2
  <2> QED
    BY <2>1, <2>3
<1>9. ASSUME v \in Signed(n) PROVE SignExtend(bits) = v
  <2>1. CASE v >= 0
    <3>1. v = M * 0 + v /\ v \in 0 .. M - 1
      BY <1>1, <1>3, <1>9, <2>1
    <3>2. v % M = v
      BY <1>1, <3>1, DivModUnique
    <3> QED
      BY <1>1, <1>2, <1>3, <1>6, <1>9, <3>2 DEF r
  <2>2. CASE v < 0
    <3>1. v = M * (-1) + (v + M) /\ v + M \in 0 .. M - 1
      BY <1>1, <1>3, <1>9, <2>2
    <3>2. v % M = v + M
      BY <1>1, <3>1, DivModUnique
    <3> QED
      BY <1>1, <1>2, <1>3, <1>6, <1>9, <3>2 DEF r
  <2> QED
    BY <2>1, <2>2
<1> QED
  BY <1>7, <1>8, <1>9 DEF bits, M

-----------------------------------------------------------------------------
(* Buckets. *)
LEMMA LeastBucket ==
  ASSUME NEW S \in SUBSET Buckets, S # {}
  PROVE  Min(S) \in S /\ \A k \in S : Min(S) <= k
<1>1. S \in SUBSET Nat
  BY DEF Buckets
<1>2. \E x \in S : \A k \in S : x <= k
  BY <1>1, LeastExists
<1> QED
  BY <1>2 DEF Min

(* The fields of the buckets; only the last is wider than 12 bits. *)
LEMMA FieldWidth ==
  ASSUME NEW k \in Buckets
  PROVE  /\ FieldWidths[k] \in Nat
         /\ k = 1 <=> FieldWidths[k] = 0
         /\ k = 5 => FieldWidths[k] = LastBits
         /\ k < 5 => FieldWidths[k] <= 12
<1>1. LastBits \in Nat /\ LastBits > 0
  BY TimestampAssumption
<1>2. /\ FieldWidths[1] = 0 /\ FieldWidths[2] = 7 /\ FieldWidths[3] = 9
      /\ FieldWidths[4] = 12 /\ FieldWidths[5] = LastBits
  BY DEF FieldWidths
<1>3. k = 1 \/ k = 2 \/ k = 3 \/ k = 4 \/ k = 5
  BY DEF Buckets
<1> QED
  BY <1>1, <1>2, <1>3

(* The prefix of bucket k: k ones in four bits at most, the last a zero but  *)
(* in the last bucket.                                                       *)
LEMMA PrefixType ==
  ASSUME NEW k \in Buckets
  PROVE  /\ Prefix(k) \in Seq(Bit)
         /\ Len(Prefix(k)) = IF k < 5 THEN k ELSE 4
         /\ \A i \in 1 .. Len(Prefix(k)) : Prefix(k)[i] = IF i < k THEN 1 ELSE 0
<1> DEFINE n == IF k < 5 THEN k ELSE 4
<1>1. n \in Nat
  BY DEF Buckets
<1>2. Prefix(k) = [i \in 1 .. n |-> IF i < k THEN 1 ELSE 0]
  BY DEF Prefix
<1> HIDE DEF n
<1>3. \A i \in 1 .. n : (IF i < k THEN 1 ELSE 0) \in Bit
  BY DEF Bit
<1>4. Prefix(k) \in [1 .. n -> Bit]
  BY <1>2, <1>3
<1> QED
  BY <1>1, <1>2, <1>4 DEF n

(* The delta of deltas fits the field of its bucket, unless that is the last.*)
LEMMA BucketFits ==
  ASSUME NEW v \in Int
  PROVE  /\ BucketOf(v) \in Buckets
         /\ BucketOf(v) = 1 => v = 0
         /\ BucketOf(v) \in 2 .. 4 => v \in Signed(FieldWidths[BucketOf(v)])
<1> DEFINE S == {k \in Buckets : Fits(v, k)}
<1>1. 5 \in S
  BY DEF Fits, Buckets
<1>2. S \in SUBSET Buckets /\ S # {}
  BY <1>1
<1> HIDE DEF S
<1>3. Min(S) \in S
  BY <1>2, LeastBucket
<1>4. BucketOf(v) \in Buckets /\ Fits(v, BucketOf(v))
  BY <1>3 DEF S, BucketOf
<1> QED
  BY <1>4 DEF Fits

(* What the decoder adds to the delta. *)
FieldValue(v) == SignExtend(FieldBits(v, FieldWidths[BucketOf(v)]))

(* A number that is written to its field and read back is off by a multiple  *)
(* of the last field's range, and the same if it fits.                       *)
LEMMA FieldValueFacts ==
  ASSUME NEW v \in Int
  PROVE  /\ FieldValue(v) \in Int
         /\ \E q \in Int : FieldValue(v) = v + Pow2[LastBits] * q
         /\ v \in Signed(LastBits) => FieldValue(v) = v
<1> DEFINE k == BucketOf(v)
           n == FieldWidths[k]
<1>1. k \in Buckets /\ n \in Nat /\ LastBits \in Nat /\ Pow2[LastBits] \in Nat
  <2>1. LastBits \in Nat
    BY TimestampAssumption
  <2> QED
    BY <2>1, BucketFits, FieldWidth, Pow2Def
<1>2. v + Pow2[LastBits] * 0 = v /\ 0 \in Int
  BY <1>1
<1>3. CASE k = 1
  <2>1. v = 0 /\ n = 0
    BY <1>1, <1>3, BucketFits, FieldWidth
  <2>2. FieldBits(v, n) = << >>
    <3>1. FieldBits(v, n) \in Seq(Bit) /\ Len(FieldBits(v, n)) = 0
      BY <1>1, <2>1, FieldType
    <3> QED
      BY <3>1, EmptySeq
  <2>3. FieldValue(v) = 0
    BY <2>2 DEF FieldValue, SignExtend
  <2> QED
    BY <1>2, <2>1, <2>3
<1>4. CASE k # 1
  <2>1. n \in Nat \ {0}
    BY <1>1, <1>4, FieldWidth
  <2>2. /\ FieldValue(v) \in Signed(n)
        /\ \E q \in Int : FieldValue(v) = v + Pow2[n] * q
        /\ v \in Signed(n) => FieldValue(v) = v
    <3> HIDE DEF n
    <3>1. FieldValue(v) = SignExtend(FieldBits(v, n))
      BY DEF FieldValue, n
    <3> QED
      BY <2>1, <3>1, SignExtendField
  <2>3. FieldValue(v) \in Int
    <3>1. n - 1 \in Nat
      BY <2>1
    <3>2. Pow2[n - 1] \in Nat
      BY <3>1, Pow2Def
    <3> QED
      BY <2>2, <3>2 DEF Signed
  <2>4. CASE k \in 2 .. 4
    <3>1. v \in Signed(n)
      BY <2>4, BucketFits
    <3> QED
      BY <1>2, <2>2, <2>3, <3>1
  <2>5. CASE k = 5
    <3>1. n = LastBits
      BY <1>1, <2>5, FieldWidth
    <3> QED
      BY <2>2, <2>3, <3>1
  <2> QED
    BY <1>1, <1>4, <2>4, <2>5 DEF Buckets
<1> QED
  BY <1>3, <1>4

-----------------------------------------------------------------------------
(* The codec. *)
TsStates == [prev_ts : Timestamp, prev_delta : Timestamp]

TsCode(v) == Prefix(BucketOf(v)) \o FieldBits(v, FieldWidths[BucketOf(v)])

(* The code of a delta of deltas takes one bit at least and a prefix with    *)
(* the last field at most.                                                   *)
LEMMA TsCodeType ==
  ASSUME NEW v \in Int
  PROVE  TsCode(v) \in Seq(Bit) /\ Len(TsCode(v)) \in 1 .. 4 + LastBits
<1> DEFINE k == BucketOf(v)
           n == FieldWidths[k]
<1>1. /\ k \in Buckets /\ n \in Nat /\ LastBits \in Nat /\ LastBits >= 12
      /\ k < 5 => n <= 12
      /\ k = 5 => n = LastBits
  BY BucketFits, FieldWidth, TimestampAssumption
<1>2. /\ Prefix(k) \in Seq(Bit) /\ FieldBits(v, n) \in Seq(Bit)
      /\ Len(Prefix(k)) = IF k < 5 THEN k ELSE 4
      /\ Len(FieldBits(v, n)) = n
  BY <1>1, PrefixType, FieldType
<1>3. TsCode(v) = Prefix(k) \o FieldBits(v, n)
  BY DEF TsCode
<1> HIDE DEF k, n
<1>4. TsCode(v) \in Seq(Bit) /\ Len(TsCode(v)) = Len(Prefix(k)) + Len(FieldBits(v, n))
  BY <1>2, <1>3, ConcatProperties
<1> QED
  BY <1>1, <1>2, <1>4 DEF Buckets

(* gt_ts_encode writes the code of the delta of deltas and keeps timestamp   *)
(* and delta.                                                                *)
LEMMA TsEncodeFacts ==
  ASSUME NEW s \in TsStates, NEW ts \in Timestamp
  PROVE  /\ Delta(s, ts) \in Timestamp /\ Dod(s, ts) \in Timestamp
         /\ TsEncode(s, ts).bits = TsCode(Dod(s, ts))
         /\ TsEncode(s, ts).s = [prev_ts |-> ts, prev_delta |-> Delta(s, ts)]
         /\ TsEncode(s, ts).s \in TsStates
<1>1. \A x \in Timestamp : x \in Int
  BY WordSize DEF Timestamp, Signed
<1>2. s.prev_ts \in Timestamp /\ s.prev_delta \in Timestamp
  BY DEF TsStates
<1>3. ts - s.prev_ts \in Int
  BY <1>1, <1>2
<1>4. Delta(s, ts) \in Timestamp
  BY <1>3, WrapCongruent DEF Delta
<1>5. Delta(s, ts) - s.prev_delta \in Int
  BY <1>1, <1>2, <1>4
<1>6. Dod(s, ts) \in Timestamp
  BY <1>5, WrapCongruent DEF Dod
<1> QED
  BY <1>4, <1>6 DEF TsEncode, TsCode, TsStates

(* The bits of a prefix end where a zero, or the fourth one, ends it. *)
LEMMA BucketOfPrefix ==
  ASSUME NEW r \in Readers, NEW k \in Buckets, Agrees(r, Prefix(k))
  PROVE  /\ BucketAt(r) \in Buckets
         /\ Whole(r, Prefix(k)) => BucketAt(r) = k
         /\ Torn(r, Prefix(k)) => r.pos + Len(Prefix(BucketAt(r))) > Len(r.buf)
<1> DEFINE bits == Get(r, 4).bits
           S == {j \in Buckets : j = 5 \/ bits[j] = 0}
           b == BucketAt(r)
           n == Len(Prefix(k))
<1>1. n = (IF k < 5 THEN k ELSE 4) /\ k \in 1 .. 5
  BY PrefixType DEF Buckets
<1>2. /\ b \in Buckets
      /\ b = 5 \/ bits[b] = 0
      /\ \A j \in Buckets : j = 5 \/ bits[j] = 0 => b <= j
  <2>1. 5 \in S /\ S \in SUBSET Buckets
    BY DEF Buckets
  <2>2. b = Min(S)
    BY DEF BucketAt
  <2> HIDE DEF S, b
  <2>3. b \in S /\ \A j \in S : b <= j
    BY <2>1, <2>2, LeastBucket
  <2> QED
    BY <2>3 DEF S
<1> HIDE DEF b
<1>3. r.pos \in Nat /\ Len(r.buf) \in Nat
  BY LenProperties DEF Readers
<1>4. \A j \in 1 .. 4 : bits[j] = IF r.pos + j <= Len(r.buf) THEN r.buf[r.pos + j] ELSE 0
  BY DEF Get
<1> HIDE DEF bits
<1>5. \A j \in 1 .. n : r.pos + j <= Len(r.buf) => r.buf[r.pos + j] = IF j < k THEN 1 ELSE 0
  BY PrefixType DEF Agrees
<1> HIDE DEF n
<1>6. ASSUME r.pos + n <= Len(r.buf) PROVE b = k
  <2>1. ASSUME NEW j \in 1 .. n PROVE bits[j] = IF j < k THEN 1 ELSE 0
    <3>1. j \in 1 .. 4 /\ r.pos + j <= Len(r.buf)
      BY <1>1, <1>3, <1>6
    <3>2. bits[j] = r.buf[r.pos + j]
      BY <1>4, <3>1
    <3>3. r.buf[r.pos + j] = IF j < k THEN 1 ELSE 0
      BY <1>5, <3>1
    <3> QED
      BY <3>2, <3>3
  <2>2. k < 5 => bits[k] = 0
    BY <1>1, <2>1
  <2>3. b <= k
    BY <1>1, <1>2, <2>2 DEF Buckets
  <2>4. ASSUME b < k PROVE FALSE
    <3>1. b \in 1 .. n
      BY <1>1, <1>2, <2>4 DEF Buckets
    <3>2. bits[b] = 1
      BY <2>1, <2>4, <3>1
    <3> QED
      BY <1>1, <1>2, <2>4, <3>2
  <2> QED
    BY <1>1, <1>2, <2>3, <2>4 DEF Buckets
<1>7. ASSUME r.pos + n > Len(r.buf) PROVE r.pos + Len(Prefix(b)) > Len(r.buf)
  <2>1. Len(Prefix(b)) = IF b < 5 THEN b ELSE 4
    BY <1>2, PrefixType
  <2>2. CASE b = 5
    <3>1. n <= 4 /\ n \in Nat
      BY <1>1
    <3>2. Len(Prefix(b)) = 4
      BY <2>1, <2>2
    <3> QED
      BY <1>3, <1>7, <3>1, <3>2
  <2>3. CASE b < 5
    <3>1. b \in 1 .. 4 /\ bits[b] = 0 /\ Len(Prefix(b)) = b
      BY <1>2, <2>1, <2>3 DEF Buckets
    <3>2. ASSUME r.pos + b <= Len(r.buf) PROVE FALSE
      <4>1. b < n
        BY <1>1, <1>3, <1>7, <3>1, <3>2
      <4>2. b \in 1 .. n /\ b < k
        BY <1>1, <3>1, <4>1
      <4>3. bits[b] = 1
        BY <1>4, <1>5, <3>1, <3>2, <4>2
      <4> QED
        BY <3>1, <4>3
    <3> QED
      BY <1>3, <3>1, <3>2
  <2> QED
    BY <1>2, <2>2, <2>3 DEF Buckets
<1> QED
  BY <1>2, <1>6, <1>7 DEF Whole, Torn, b, n

(* What a decoder with state s adds up from a delta of deltas f. *)
AfterField(s, f) ==
  LET delta == Wrap(f + s.prev_delta)
  IN  [prev_ts |-> Wrap(s.prev_ts + delta), prev_delta |-> delta]

(* gt_ts_decode of a code that is there consumes just the code and adds its  *)
(* value to the state.                                                       *)
LEMMA TsDecodeWhole ==
  ASSUME NEW r \in Readers, NEW s \in TsStates, NEW v \in Int,
         r.eof = FALSE, Whole(r, TsCode(v))
  PROVE  TsDecode(r, s) =
           Decoded([buf |-> r.buf, pos |-> r.pos + Len(TsCode(v)), eof |-> FALSE],
                   AfterField(s, FieldValue(v)), AfterField(s, FieldValue(v)).prev_ts)
<1> DEFINE k == BucketOf(v)
           n == FieldWidths[k]
           p == Prefix(k)
           f == FieldBits(v, n)
<1>1. k \in Buckets /\ n \in Nat
  BY BucketFits, FieldWidth
<1>2. /\ p \in Seq(Bit) /\ f \in Seq(Bit) /\ Len(f) = n
      /\ TsCode(v) = p \o f
  BY <1>1, PrefixType, FieldType DEF TsCode
<1>3. FieldValue(v) = SignExtend(f)
  BY DEF FieldValue
<1>4. r.eof = FALSE /\ r.pos \in Nat
  BY DEF Readers
<1> HIDE DEF p, f, n
<1> DEFINE q == Get(r, Len(p)).r
<1>5. /\ q = [buf |-> r.buf, pos |-> r.pos + Len(p), eof |-> FALSE]
      /\ q \in Readers /\ Whole(q, f)
      /\ Len(TsCode(v)) = Len(p) + n /\ Len(p) \in Nat
      /\ Whole(r, p)
  <2>1. Whole(r, TsCode(v))
    OBVIOUS
  <2>2. Len(p) \in Nat
    BY <1>2, LenProperties
  <2>3. /\ Whole(r, p)
        /\ Len(TsCode(v)) = Len(p) + Len(f)
        /\ q = Behind(r, Len(p))
        /\ q \in Readers /\ Whole(q, f)
    <3>1. p \in Seq(Bit) /\ f \in Seq(Bit) /\ TsCode(v) = p \o f
      BY <1>2
    <3> DEFINE c == TsCode(v)
    <3>2. Whole(r, c) /\ c = p \o f
      BY <2>1, <3>1
    <3> HIDE DEF c
    <3>3. Parts(r, p, f)
      BY <3>1, <3>2, WholeParts
    <3>4. Len(c) = Len(p) + Len(f)
      BY <3>1, <3>2, ConcatProperties
    <3> QED
      BY <3>3, <3>4 DEF c, Parts
  <2> HIDE DEF q
  <2> QED
    BY <1>2, <1>4, <2>2, <2>3 DEF Behind
<1> HIDE DEF q
<1> DEFINE g == Get(q, n)
<1>6. /\ g.bits = f
      /\ g.r = [buf |-> r.buf, pos |-> r.pos + Len(TsCode(v)), eof |-> FALSE]
  <2>1. /\ Get(q, Len(f)).bits = f
        /\ Get(q, Len(f)).r = Behind(q, Len(f))
    BY <1>2, <1>5, WholeRead
  <2>2. /\ q.buf = r.buf /\ q.eof = FALSE
        /\ q.pos + n = r.pos + Len(TsCode(v))
    BY <1>1, <1>4, <1>5
  <2> QED
    BY <1>2, <2>1, <2>2 DEF Behind
<1>7. BucketAt(r) = k
  <2>1. Whole(r, Prefix(k)) /\ Agrees(r, Prefix(k))
    BY <1>5 DEF Whole, p
  <2> QED
    BY <1>1, <2>1, BucketOfPrefix
<1>8. Get(Get(r, Len(Prefix(BucketAt(r)))).r, FieldWidths[BucketAt(r)]) = g
  BY <1>7 DEF q, p, n
<1> HIDE DEF g
<1>9. TsDecode(r, s) =
        Decoded(g.r, AfterField(s, SignExtend(g.bits)), AfterField(s, SignExtend(g.bits)).prev_ts)
  <2>1. ~ g.r.eof
    BY <1>6
  <2> QED
    BY <1>8, <2>1 DEF TsDecode, AfterField
<1> QED
  BY <1>3, <1>6, <1>9

(* gt_ts_decode of a torn code reports the end and leaves the state alone. *)
LEMMA TsDecodeTorn ==
  ASSUME NEW r \in Readers, NEW s \in TsStates, NEW v \in Int,
         r.eof \/ Torn(r, TsCode(v))
  PROVE  /\ TsDecode(r, s).rc = "ERR_EOF"
         /\ TsDecode(r, s).s = s
         /\ TsDecode(r, s).r \in Readers
         /\ TsDecode(r, s).r.eof = TRUE
         /\ TsDecode(r, s).r.buf = r.buf
<1> DEFINE b == BucketAt(r)
           q == Get(r, Len(Prefix(b))).r
           g == Get(q, FieldWidths[b])
<1>1. b \in Buckets
  <2>1. {j \in Buckets : j = 5 \/ Get(r, 4).bits[j] = 0} # {}
    BY DEF Buckets
  <2> QED
    BY <2>1, LeastBucket DEF BucketAt
<1>2. Len(Prefix(b)) \in Nat /\ FieldWidths[b] \in Nat
  BY <1>1, PrefixType, FieldWidth DEF Buckets
<1>3. q \in Readers /\ q.buf = r.buf
  BY <1>2, GetType
<1>4. g.r \in Readers /\ g.r.buf = r.buf
  <2> HIDE DEF q
  <2> QED
    BY <1>2, <1>3, GetType
<1>5. g.r.eof = TRUE
  <2>1. CASE r.eof
    <3>1. q.eof = TRUE
      BY <1>2, <2>1, GetTorn
    <3> HIDE DEF q
    <3> QED
      BY <1>2, <1>3, <3>1, GetTorn
  <2>2. CASE Torn(r, TsCode(v))
    <3> DEFINE k == BucketOf(v)
               p == Prefix(k)
               n == FieldWidths[k]
               f == FieldBits(v, n)
    <3>1. k \in Buckets /\ n \in Nat
      BY BucketFits, FieldWidth
    <3>2. /\ p \in Seq(Bit) /\ f \in Seq(Bit) /\ Len(f) = n
          /\ TsCode(v) = p \o f
      BY <3>1, PrefixType, FieldType DEF TsCode
    <3>3. \/ Torn(r, p)
          \/ Whole(r, p) /\ Torn(Get(r, Len(p)).r, f)
      <4>1. Torn(r, TsCode(v))
        BY <2>2
      <4> HIDE DEF p, f
      <4>2. TornIn(r, p, f)
        BY <3>2, <4>1, TornParts
      <4> QED
        BY <4>2 DEF TornIn
    <3>4. CASE Torn(r, p)
      <4>1. r.pos + Len(Prefix(b)) > Len(r.buf)
        BY <3>1, <3>4, BucketOfPrefix DEF Torn
      <4>2. q.eof = TRUE
        BY <1>2, <4>1, GetTorn
      <4> HIDE DEF q
      <4> QED
        BY <1>2, <1>3, <4>2, GetTorn
    <3>5. CASE Whole(r, p) /\ Torn(Get(r, Len(p)).r, f)
      <4>1. b = k
        BY <3>1, <3>5, BucketOfPrefix DEF Whole
      <4>2. Torn(q, f)
        BY <3>5, <4>1
      <4> HIDE DEF q
      <4>3. q.pos + FieldWidths[b] > Len(q.buf)
        BY <3>2, <4>1, <4>2 DEF Torn
      <4> QED
        BY <1>2, <1>3, <4>3, GetTorn
    <3> QED
      BY <3>3, <3>4, <3>5
  <2> QED
    BY <2>1, <2>2
<1>6. TsDecode(r, s) = AtEof(g.r, s)
  <2> HIDE DEF b
  <2> QED
    BY <1>5 DEF TsDecode, b
<1> HIDE DEF g
<1> QED
  BY <1>4, <1>5, <1>6 DEF AtEof

(* What encoding and decoding do to a state.                                 *)
LEMMA AddedUp ==
  ASSUME NEW e \in TsStates, NEW ts \in Timestamp
  PROVE  AfterField(e, Dod(e, ts)) = TsEncode(e, ts).s
<1> DEFINE M == Pow2[TsBits]
<1>1. M \in Nat
  BY WordSize
<1>2. \A x \in Timestamp : x \in Int
  BY WordSize DEF Timestamp, Signed
<1>3. /\ e.prev_ts \in Timestamp /\ e.prev_delta \in Timestamp
      /\ e.prev_ts \in Int /\ e.prev_delta \in Int /\ ts \in Int
  BY <1>2 DEF TsStates
<1>4. /\ Delta(e, ts) \in Timestamp /\ Dod(e, ts) \in Timestamp
      /\ Delta(e, ts) \in Int /\ Dod(e, ts) \in Int
  BY <1>2, TsEncodeFacts
<1>5. Wrap(Dod(e, ts) + e.prev_delta) = Delta(e, ts)
  <2> DEFINE D == Delta(e, ts)
             f == Dod(e, ts)
  <2>1. PICK k \in Int : D - e.prev_delta = f + M * k
    <3>1. D - e.prev_delta \in Int
      BY <1>3, <1>4
    <3> QED
      BY <3>1, WrapCongruent DEF Dod
  <2> HIDE DEF D, f, M
  <2>2. M * k \in Int /\ M * (-k) = -(M * k) /\ -k \in Int
    BY <1>1
  <2>3. f + e.prev_delta = D + M * (-k) /\ f + e.prev_delta \in Int
    BY <1>3, <1>4, <2>1, <2>2 DEF D, f
  <2> QED
    BY <1>4, <2>2, <2>3, WrapUnique DEF D, f, M
<1>6. Wrap(e.prev_ts + Delta(e, ts)) = ts
  <2> DEFINE D == Delta(e, ts)
  <2>1. PICK k \in Int : ts - e.prev_ts = D + M * k
    <3>1. ts - e.prev_ts \in Int
      BY <1>3
    <3> QED
      BY <3>1, WrapCongruent DEF Delta
  <2> HIDE DEF D, M
  <2>2. M * k \in Int /\ M * (-k) = -(M * k) /\ -k \in Int
    BY <1>1
  <2>3. e.prev_ts + D = ts + M * (-k) /\ e.prev_ts + D \in Int
    BY <1>3, <1>4, <2>1, <2>2 DEF D
  <2> QED
    BY <1>4, <2>2, <2>3, WrapUnique DEF D, M
<1> QED
  BY <1>5, <1>6, TsEncodeFacts DEF AfterField

(* A decoded state is a pair of timestamps, whatever was read. *)
LEMMA AfterFieldType ==
  ASSUME NEW d \in TsStates, NEW f \in Int
  PROVE  AfterField(d, f) \in TsStates
<1>1. \A x \in Timestamp : x \in Int
  BY WordSize DEF Timestamp, Signed
<1>2. d.prev_ts \in Int /\ d.prev_delta \in Int
  BY <1>1 DEF TsStates
<1>3. Wrap(f + d.prev_delta) \in Timestamp /\ Wrap(f + d.prev_delta) \in Int
  <2>1. f + d.prev_delta \in Int
    BY <1>2
  <2> QED
    BY <1>1, <2>1, WrapCongruent
<1>4. Wrap(d.prev_ts + Wrap(f + d.prev_delta)) \in Timestamp
  <2>1. d.prev_ts + Wrap(f + d.prev_delta) \in Int
    BY <1>2, <1>3
  <2> QED
    BY <2>1, WrapCongruent
<1> QED
  BY <1>3, <1>4 DEF AfterField, TsStates

-----------------------------------------------------------------------------
(* Words. *)
LEMMA WidthSize == Width \in Nat \ {0} /\ Width <= 64
BY WidthAssumption

(* A value is a sequence of Width bits. *)
LEMMA ValueIsSeq ==
  ASSUME NEW v \in Value
  PROVE  v \in Seq(Bit) /\ Len(v) = Width
BY WidthSize DEF Value

(* Zero is a value. *)
LEMMA ZerosType == Zeros(Width) \in Value
BY WidthSize DEF Zeros, Value, Bit

(* A difference is undone by the value it was taken from, and only equal     *)
(* values have none.                                                         *)
LEMMA XorFacts ==
  ASSUME NEW a \in Value, NEW b \in Value
  PROVE  /\ Xor(a, b) \in Value
         /\ Xor(b, Xor(a, b)) = a
         /\ Xor(a, b) = Zeros(Width) => a = b
<1> DEFINE x == Xor(a, b)
<1>1. \A i \in 1 .. Width : a[i] \in Bit /\ b[i] \in Bit /\ x[i] = (a[i] + b[i]) % 2
  BY DEF Value, Xor
<1>2. \A i \in 1 .. Width :
        x[i] \in Bit /\ (b[i] + x[i]) % 2 = a[i] /\ (x[i] = 0 => a[i] = b[i])
  BY <1>1 DEF Bit
<1>3. x \in Value
  <2>1. x = [i \in 1 .. Width |-> x[i]]
    BY DEF Xor
  <2> HIDE DEF x
  <2> QED
    BY <1>2, <2>1 DEF Value
<1>4. Xor(b, x) = a
  <2>1. a = [i \in 1 .. Width |-> a[i]]
    BY DEF Value
  <2>2. Xor(b, x) = [i \in 1 .. Width |-> (b[i] + x[i]) % 2]
    BY DEF Xor
  <2> HIDE DEF x
  <2> QED
    BY <1>2, <2>1, <2>2
<1>5. ASSUME x = Zeros(Width) PROVE a = b
  <2>1. \A i \in 1 .. Width : x[i] = 0
    BY <1>5 DEF Zeros
  <2>2. \A i \in 1 .. Width : a[i] = b[i]
    BY <1>2, <2>1
  <2>3. a = [i \in 1 .. Width |-> a[i]] /\ b = [i \in 1 .. Width |-> b[i]]
    BY DEF Value
  <2> QED
    BY <2>2, <2>3
<1> QED
  BY <1>3, <1>4, <1>5

(* A difference that is known is taken from a value that is known. *)
LEMMA ChangedIsXor ==
  ASSUME NEW a \in Value, NEW x \in Value
  PROVE  a # Unknown /\ Changed(a, x) = Xor(a, x)
<1>1. Len(a) # 0 /\ Len(x) # 0 /\ Len(<< >>) = 0
  BY ValueIsSeq, WidthSize
<1>2. a # Unknown /\ x # Unknown
  BY <1>1 DEF Unknown
<1> QED
  BY <1>2 DEF Changed

-----------------------------------------------------------------------------
(* Windows. *)
(* No one of x lies outside the window. *)
Covers(x, lz, tz) ==
  \A i \in 1 .. Width : i <= lz \/ i > Width - tz => x[i] = 0

(* The zeros counted at both ends of a difference, clamped to 31 in front,   *)
(* leave a bit between them and may be left out.                             *)
LEMMA ZeroCounts ==
  ASSUME NEW x \in Value, x # Zeros(Width)
  PROVE  /\ LeadingZeros(x) \in 0 .. 31
         /\ Ctz(x) \in 0 .. 63
         /\ LeadingZeros(x) + Ctz(x) < Width
         /\ \A lz \in Nat, tz \in Nat :
              lz <= LeadingZeros(x) /\ tz <= Ctz(x) => Covers(x, lz, tz)
<1> DEFINE S == Ones(x)
           a == Min(S)
           b == Max(S)
<1>1. Width \in Nat /\ Width <= 64
  BY WidthSize
<1>2. S \in SUBSET (0 .. Width) /\ S \in SUBSET Nat /\ S # {}
  <2>1. \E i \in 1 .. Width : x[i] # 0
    BY DEF Value, Zeros
  <2>2. \A i \in 1 .. Width : x[i] \in Bit
    BY DEF Value
  <2> QED
    BY <1>1, <2>1, <2>2 DEF Ones, Bit
<1>3. a \in S /\ \A i \in S : a <= i
  <2>1. \E i \in S : \A j \in S : i <= j
    BY <1>2, LeastExists
  <2> HIDE DEF S
  <2> QED
    BY <2>1 DEF Min
<1>4. b \in S /\ \A i \in S : b >= i
  <2>1. \E i \in S : \A j \in S : i >= j
    <3> HIDE DEF S
    <3> QED
      BY <1>1, <1>2, GreatestExists
  <2> HIDE DEF S
  <2> QED
    BY <2>1 DEF Max
<1>5. a \in 1 .. Width /\ b \in 1 .. Width /\ a <= b
  BY <1>2, <1>3, <1>4 DEF Ones
<1>6. Clz(x) = a - 1 /\ Ctz(x) = Width - b
  BY DEF Clz, Ctz
<1>7. \A i \in 1 .. Width : i < a \/ i > b => x[i] = 0
  <2>1. \A i \in 1 .. Width : x[i] \in Bit
    BY DEF Value
  <2>2. \A i \in 1 .. Width : x[i] = 1 => a <= i /\ b >= i
    BY <1>3, <1>4 DEF Ones
  <2> HIDE DEF a, b
  <2> QED
    BY <1>5, <2>1, <2>2 DEF Bit
<1> HIDE DEF a, b
<1>8. LeadingZeros(x) \in 0 .. 31 /\ LeadingZeros(x) <= a - 1
  BY <1>5, <1>6 DEF LeadingZeros
<1>9. \A lz \in Nat, tz \in Nat :
        lz <= LeadingZeros(x) /\ tz <= Ctz(x) => Covers(x, lz, tz)
  BY <1>1, <1>5, <1>6, <1>7, <1>8 DEF Covers
<1> QED
  BY <1>1, <1>5, <1>6, <1>8, <1>9

(* The bits of the window, and the word they come from. *)
LEMMA WindowBits ==
  ASSUME NEW x \in Value, NEW lz \in Nat, NEW tz \in Nat, lz + tz < Width
  PROVE  /\ Meaningful(x, lz, tz) \in Seq(Bit)
         /\ Len(Meaningful(x, lz, tz)) = Width - lz - tz
         /\ Covers(x, lz, tz) => Shifted(Meaningful(x, lz, tz), tz) = x
<1> DEFINE n == Width - lz - tz
           m == Meaningful(x, lz, tz)
<1>1. Width \in Nat /\ n \in Nat /\ lz + 1 \in Int /\ Width - tz \in Int
  BY WidthSize
<1>2. \A i \in lz + 1 .. Width - tz : x[i] \in Bit
  BY <1>1 DEF Value
<1>3. /\ m \in Seq(Bit)
      /\ Len(m) = IF lz + 1 <= Width - tz THEN (Width - tz) - (lz + 1) + 1 ELSE 0
      /\ \A i \in 1 .. (Width - tz) - (lz + 1) + 1 : m[i] = x[(lz + 1) + i - 1]
  BY <1>1, <1>2, SubSeqProperties DEF Meaningful
<1> HIDE DEF m
<1>4. Len(m) = n
  BY <1>1, <1>3
<1>5. \A i \in 1 .. n : m[i] = x[lz + i]
  <2>1. ASSUME NEW i \in 1 .. n PROVE m[i] = x[lz + i]
    <3>1. i \in 1 .. (Width - tz) - (lz + 1) + 1 /\ (lz + 1) + i - 1 = lz + i
      BY <1>1
    <3> QED
      BY <1>3, <3>1
  <2> QED
    BY <2>1
<1>6. ASSUME Covers(x, lz, tz) PROVE Shifted(m, tz) = x
  <2>1. ~ (tz < 0)
    OBVIOUS
  <2>2. ASSUME NEW i \in 1 .. Width
        PROVE  Shifted(m, tz)[i] = x[i]
    <3>1. Width - tz - Len(m) = lz
      BY <1>1, <1>4
    <3>2. Shifted(m, tz)[i] = IF i - lz \in 1 .. Len(m) THEN m[i - lz] ELSE 0
      BY <3>1, <2>1 DEF Shifted
    <3>3. CASE i - lz \in 1 .. Len(m)
      <4>1. m[i - lz] = x[lz + (i - lz)] /\ lz + (i - lz) = i
        BY <1>1, <1>4, <1>5, <3>3
      <4> QED
        BY <3>2, <3>3, <4>1
    <3>4. CASE ~ (i - lz \in 1 .. Len(m))
      <4>1. i <= lz \/ i > Width - tz
        BY <1>1, <1>4, <3>4
      <4> QED
        BY <1>6, <3>2, <3>4, <4>1 DEF Covers
    <3> QED
      BY <3>3, <3>4
  <2>3. Shifted(m, tz) = [i \in 1 .. Width |-> Shifted(m, tz)[i]]
    BY <2>1 DEF Shifted
  <2>4. x = [i \in 1 .. Width |-> x[i]]
    BY DEF Value
  <2> QED
    BY <2>2, <2>3, <2>4
<1> QED
  BY <1>3, <1>4, <1>6 DEF m

-----------------------------------------------------------------------------
(* Codes. *)
(* A state whose window leaves room for a meaningful bit. *)
ValStates ==
  {s \in [prev_bits : Value, prev_lz : 0 .. 31, prev_tz : 0 .. 63,
          has_value : BOOLEAN, has_block : BOOLEAN] : s.prev_lz + s.prev_tz < Width}

(* The state before the first value. *)
LEMMA StartState == ValStart \in ValStates
BY WidthSize, ZerosType DEF ValStart, ValStates

(* The codes of a changed value, one field after the other. *)
ReusedCode(lz, tz, x) == <<1>> \o (<<0>> \o Meaningful(x, lz, tz))

BlockFields(lz, tz, x) ==
  FieldBits(lz, 5) \o (FieldBits(Width - lz - tz - 1, 6) \o Meaningful(x, lz, tz))

BlockCode(lz, tz, x) == <<1>> \o (<<1>> \o BlockFields(lz, tz, x))

(* The control bits. *)
LEMMA OneBit ==
  /\ <<0>> \in Seq(Bit) /\ Len(<<0>>) = 1 /\ <<0>>[1] = 0
  /\ <<1>> \in Seq(Bit) /\ Len(<<1>>) = 1 /\ <<1>>[1] = 1
  /\ <<1, 0>> = <<1>> \o <<0>> /\ <<1, 1>> = <<1>> \o <<1>>
BY DEF Bit

(* The two length fields and the meaningful bits of a new window, and how    *)
(* many they are.                                                            *)
LEMMA BlockFieldTypes ==
  ASSUME NEW x \in Value, NEW lz \in 0 .. 31, NEW tz \in 0 .. 63, lz + tz < Width
  PROVE  /\ FieldBits(lz, 5) \in Seq(Bit) /\ Len(FieldBits(lz, 5)) = 5
         /\ FieldBits(Width - lz - tz - 1, 6) \in Seq(Bit)
         /\ Len(FieldBits(Width - lz - tz - 1, 6)) = 6
         /\ Meaningful(x, lz, tz) \in Seq(Bit)
         /\ Len(Meaningful(x, lz, tz)) = Width - lz - tz
<1>1. Width - lz - tz - 1 \in Int /\ lz \in Int /\ lz \in Nat /\ tz \in Nat
  BY WidthSize
<1> QED
  BY <1>1, FieldType, WindowBits

(* The code of a new window. *)
LEMMA NewBlockCode ==
  ASSUME NEW x \in Value, NEW lz \in 0 .. 31, NEW tz \in 0 .. 63, lz + tz < Width
  PROVE  /\ NewBlock(lz, tz, x) = BlockCode(lz, tz, x)
         /\ BlockFields(lz, tz, x) \in Seq(Bit)
         /\ BlockCode(lz, tz, x) \in Seq(Bit)
         /\ Len(BlockCode(lz, tz, x)) = 13 + (Width - lz - tz)
<1> DEFINE o == <<1>>
           w == <<1, 1>>
           a == FieldBits(lz, 5)
           b == FieldBits(Width - lz - tz - 1, 6)
           m == Meaningful(x, lz, tz)
           f == BlockFields(lz, tz, x)
           g == o \o f
           code == NewBlock(lz, tz, x)
<1>1. /\ a \in Seq(Bit) /\ b \in Seq(Bit) /\ m \in Seq(Bit)
      /\ Len(a) = 5 /\ Len(b) = 6 /\ Len(m) = Width - lz - tz
  BY BlockFieldTypes
<1>2. /\ code = w \o a \o b \o m
      /\ f = a \o (b \o m)
      /\ BlockCode(lz, tz, x) = o \o g
  BY DEF NewBlock, BlockFields, BlockCode
<1>3. /\ o \in Seq(Bit) /\ Len(o) = 1
      /\ w \in Seq(Bit) /\ w = o \o o
  BY OneBit DEF Bit
<1>4. g = o \o f
  OBVIOUS
<1> HIDE DEF o, w, a, b, m, f, g, code
<1>5. Fields(code, w, f)
  BY <1>1, <1>2, <1>3, FourFields
<1>6. Fields(f, a, b \o m) /\ Fields(b \o m, b, m)
  <2>1. Fields(b \o m, b, m)
    BY <1>1, TwoFields
  <2>2. b \o m \in Seq(Bit)
    BY <2>1 DEF Fields
  <2> QED
    BY <1>1, <1>2, <2>1, <2>2, TwoFields
<1>7. Fields(g, o, f) /\ Fields(code, o, g)
  <2>1. code = o \o o \o f /\ f \in Seq(Bit)
    BY <1>3, <1>5 DEF Fields
  <2>2. Fields(g, o, f)
    BY <1>3, <1>4, <2>1, TwoFields
  <2> QED
    BY <1>3, <1>4, <2>1, <2>2, ThreeFields
<1>8. code = BlockCode(lz, tz, x)
  BY <1>2, <1>7 DEF Fields
<1>9. Len(code) = 13 + (Width - lz - tz)
  BY <1>1, <1>3, <1>6, <1>7, WidthSize DEF Fields
<1> QED
  BY <1>5, <1>7, <1>8, <1>9 DEF f, code, Fields

(* The code within the last window. *)
LEMMA ReusedCodeType ==
  ASSUME NEW x \in Value, NEW lz \in Nat, NEW tz \in Nat, lz + tz < Width
  PROVE  /\ <<1, 0>> \o Meaningful(x, lz, tz) = ReusedCode(lz, tz, x)
         /\ <<0>> \o Meaningful(x, lz, tz) \in Seq(Bit)
         /\ ReusedCode(lz, tz, x) \in Seq(Bit)
         /\ Len(ReusedCode(lz, tz, x)) = 2 + (Width - lz - tz)
<1> DEFINE o == <<1>>
           z == <<0>>
           w == <<1, 0>>
           m == Meaningful(x, lz, tz)
           f == z \o m
           code == w \o m
<1>1. /\ m \in Seq(Bit) /\ Len(m) = Width - lz - tz
      /\ o \in Seq(Bit) /\ Len(o) = 1 /\ z \in Seq(Bit) /\ Len(z) = 1
      /\ w = o \o z
  BY OneBit, WindowBits
<1>2. ReusedCode(lz, tz, x) = o \o f /\ f = z \o m /\ code = w \o m
  BY DEF ReusedCode
<1> HIDE DEF o, z, w, m, f, code
<1>3. code = o \o z \o m
  BY <1>1, <1>2
<1>4. Fields(f, z, m) /\ Fields(code, o, f)
  BY <1>1, <1>2, <1>3, TwoFields, ThreeFields
<1>5. code = ReusedCode(lz, tz, x)
  BY <1>2, <1>4 DEF Fields
<1>6. Len(code) = 2 + (Width - lz - tz)
  BY <1>1, <1>4, WidthSize DEF Fields
<1> QED
  BY <1>4, <1>5, <1>6 DEF code, f, z, w, m, Fields

-----------------------------------------------------------------------------
(* What gt_val_encode writes and remembers. *)
Seen(s, v) == [s EXCEPT !.prev_bits = v, !.has_value = TRUE]

(* The four kinds of code; x is the XOR of v and the value before it.        *)
FirstCode(s, v) == ~ s.has_value /\ ValEncode(s, v) = [bits |-> v, s |-> Seen(s, v)]

SameCode(s, v) ==
  s.has_value /\ v = s.prev_bits /\ ValEncode(s, v) = [bits |-> <<0>>, s |-> Seen(s, v)]

InWindow(s, v) ==
  LET x == Xor(v, s.prev_bits)
  IN  /\ s.has_value
      /\ Covers(x, s.prev_lz, s.prev_tz)
      /\ ValEncode(s, v) = [bits |-> ReusedCode(s.prev_lz, s.prev_tz, x), s |-> Seen(s, v)]

InBlock(s, v, lz, tz) ==
  LET x == Xor(v, s.prev_bits)
  IN  /\ s.has_value
      /\ lz + tz < Width
      /\ Covers(x, lz, tz)
      /\ ValEncode(s, v) =
           [bits |-> BlockCode(lz, tz, x),
            s    |-> [Seen(s, v) EXCEPT !.prev_lz = lz, !.prev_tz = tz, !.has_block = TRUE]]

(* gt_val_encode writes one of four codes. *)
LEMMA ValEncodeKinds ==
  ASSUME NEW s \in ValStates, NEW v \in Value
  PROVE  \/ FirstCode(s, v)
         \/ SameCode(s, v)
         \/ InWindow(s, v)
         \/ \E lz \in 0 .. 31, tz \in 0 .. 63 : InBlock(s, v, lz, tz)
<1> DEFINE x  == Xor(v, s.prev_bits)
           lz == LeadingZeros(x)
           tz == Ctz(x)
<1>1. /\ s.prev_bits \in Value /\ s.has_value \in BOOLEAN
      /\ s.prev_lz \in 0 .. 31 /\ s.prev_tz \in 0 .. 63 /\ s.prev_lz + s.prev_tz < Width
  BY DEF ValStates
<1>2. x \in Value /\ (x = Zeros(Width) => v = s.prev_bits)
  BY <1>1, XorFacts
<1>3. CASE ~ s.has_value
  BY <1>3 DEF ValEncode, FirstCode, Seen
<1>4. CASE s.has_value /\ x = Zeros(Width)
  BY <1>2, <1>4 DEF ValEncode, SameCode, Seen
<1>5. CASE s.has_value /\ x # Zeros(Width)
  <2>1. /\ lz \in 0 .. 31 /\ tz \in 0 .. 63 /\ lz + tz < Width
        /\ \A l \in Nat, t \in Nat : l <= lz /\ t <= tz => Covers(x, l, t)
    BY <1>2, <1>5, ZeroCounts
  <2>2. CASE FitsWindow(s, x)
    <3>1. Covers(x, s.prev_lz, s.prev_tz)
      <4>1. s.prev_lz <= lz /\ s.prev_tz <= tz /\ s.prev_lz \in Nat /\ s.prev_tz \in Nat
        BY <1>1, <2>1, <2>2 DEF FitsWindow
      <4> HIDE DEF x, lz, tz
      <4> QED
        BY <2>1, <4>1
    <3>2. ValEncode(s, v) =
            [bits |-> <<1, 0>> \o Meaningful(x, s.prev_lz, s.prev_tz), s |-> Seen(s, v)]
      BY <1>5, <2>2 DEF ValEncode, Seen
    <3>3. <<1, 0>> \o Meaningful(x, s.prev_lz, s.prev_tz)
            = ReusedCode(s.prev_lz, s.prev_tz, x)
      <4>1. s.prev_lz \in Nat /\ s.prev_tz \in Nat
        BY <1>1
      <4> HIDE DEF x
      <4> QED
        BY <1>1, <1>2, <4>1, ReusedCodeType
    <3> QED
      BY <1>5, <3>1, <3>2, <3>3 DEF InWindow
  <2>3. CASE ~ FitsWindow(s, x)
    <3>1. lz <= lz /\ tz <= tz /\ lz \in Nat /\ tz \in Nat
      <4> HIDE DEF lz, tz
      <4> QED
        BY <2>1
    <3>2. Covers(x, lz, tz)
      <4> HIDE DEF x, lz, tz
      <4> QED
        BY <2>1, <3>1
    <3>3. ValEncode(s, v) =
            [bits |-> NewBlock(lz, tz, x),
             s    |-> [Seen(s, v) EXCEPT !.prev_lz = lz, !.prev_tz = tz, !.has_block = TRUE]]
      BY <1>5, <2>3 DEF ValEncode, Seen
    <3>4. NewBlock(lz, tz, x) = BlockCode(lz, tz, x)
      <4> HIDE DEF x, lz, tz
      <4> QED
        BY <1>2, <2>1, NewBlockCode
    <3>5. InBlock(s, v, lz, tz)
      BY <1>5, <2>1, <3>2, <3>3, <3>4 DEF InBlock
    <3> HIDE DEF lz, tz
    <3> QED
      BY <2>1, <3>5
  <2> QED
    BY <2>2, <2>3
<1> QED
  BY <1>1, <1>3, <1>4, <1>5

-----------------------------------------------------------------------------
(* What gt_val_decode makes of a code that is there. *)
LEMMA SmallNumbers ==
  /\ \A n \in 0 .. 31 : NumberOf(FieldBits(n, 5)) = n
  /\ \A n \in 0 .. 63 : NumberOf(FieldBits(n, 6)) = n
<1>1. Pow2[5] = 32 /\ Pow2[6] = 64
  <2>1. Pow2[0] = 1 /\ Pow2[0 + 1] = 2 * Pow2[0] /\ Pow2[1 + 1] = 2 * Pow2[1]
    BY Pow2Def
  <2>2. Pow2[2 + 1] = 2 * Pow2[2] /\ Pow2[3 + 1] = 2 * Pow2[3]
    BY Pow2Def
  <2>3. Pow2[4 + 1] = 2 * Pow2[4] /\ Pow2[5 + 1] = 2 * Pow2[5]
    BY Pow2Def
  <2> QED
    BY <2>1, <2>2, <2>3
<1>2. ASSUME NEW n \in 0 .. 31 PROVE NumberOf(FieldBits(n, 5)) = n
  <2>1. NumberOf(FieldBits(n, 5)) = n % 32
    BY <1>1, NumberOfField
  <2> QED
    BY <2>1
<1>3. ASSUME NEW n \in 0 .. 63 PROVE NumberOf(FieldBits(n, 6)) = n
  <2>1. NumberOf(FieldBits(n, 6)) = n % 64
    BY <1>1, NumberOfField
  <2> QED
    BY <2>1
<1> QED
  BY <1>2, <1>3

(* The state that a new window leaves. *)
Opened(s, lz, tz) == [s EXCEPT !.prev_lz = lz, !.prev_tz = tz, !.has_block = TRUE]

BlockRead(r, s, x, lz, tz) ==
  [r |-> Behind(r, Len(BlockFields(lz, tz, x))), x |-> x, s |-> Opened(s, lz, tz)]

(* A new window that is there is read as it was written. *)
LEMMA ReadBlockWhole ==
  ASSUME NEW r \in Readers, NEW s, NEW x \in Value,
         NEW lz \in 0 .. 31, NEW tz \in 0 .. 63, lz + tz < Width,
         Covers(x, lz, tz), Whole(r, BlockFields(lz, tz, x))
  PROVE  ReadBlock(r, s) = BlockRead(r, s, x, lz, tz)
<1> DEFINE a == FieldBits(lz, 5)
           b == FieldBits(Width - lz - tz - 1, 6)
           m == Meaningful(x, lz, tz)
           f == BlockFields(lz, tz, x)
           g == b \o m
<1>1. /\ a \in Seq(Bit) /\ b \in Seq(Bit) /\ m \in Seq(Bit)
      /\ Len(a) = 5 /\ Len(b) = 6 /\ Len(m) = Width - lz - tz
  BY BlockFieldTypes
<1>2. f = a \o g /\ g = b \o m /\ Whole(r, f)
  BY DEF BlockFields
<1>3. NumberOf(a) = lz /\ NumberOf(b) = Width - lz - tz - 1
  <2>1. Width - lz - tz - 1 \in 0 .. 63
    BY WidthSize
  <2> QED
    BY <2>1, SmallNumbers
<1>4. Shifted(m, tz) = x
  <2>1. lz \in Nat /\ tz \in Nat
    OBVIOUS
  <2> QED
    BY <2>1, WindowBits
<1>5. r.pos \in Nat /\ Width \in Nat
  BY WidthSize DEF Readers
<1> HIDE DEF a, b, m, f, g
<1>6. Fields(g, b, m)
  BY <1>1, <1>2, TwoFields
<1>7. Fields(f, a, g)
  BY <1>1, <1>2, <1>6, TwoFields DEF Fields
<1> DEFINE first == Get(r, 5)
<1>8. /\ first.bits = a /\ first.r = Behind(r, 5)
      /\ first.r \in Readers /\ Whole(first.r, g)
  <2>1. Parts(r, a, g)
    BY <1>1, <1>2, <1>6, WholeParts DEF Fields
  <2> QED
    BY <1>1, <2>1 DEF Parts
<1> HIDE DEF first
<1> DEFINE second == Get(first.r, 6)
<1>9. /\ second.bits = b /\ second.r = Behind(first.r, 6)
      /\ second.r \in Readers /\ Whole(second.r, m)
  <2>1. Parts(first.r, b, m)
    BY <1>1, <1>2, <1>8, WholeParts
  <2> QED
    BY <1>1, <2>1 DEF Parts
<1> HIDE DEF second
<1>10. /\ Get(second.r, Len(m)).bits = m
       /\ Get(second.r, Len(m)).r = Behind(second.r, Len(m))
  BY <1>1, <1>9, WholeRead
<1>11. Behind(second.r, Len(m)) = Behind(r, Len(f))
  <2>1. Len(f) = 5 + (6 + Len(m)) /\ Len(m) \in Nat
    BY <1>1, <1>5, <1>6, <1>7 DEF Fields
  <2>2. ((r.pos + 5) + 6) + Len(m) = r.pos + Len(f)
    BY <1>5, <2>1
  <2>3. second.r = [buf |-> r.buf, pos |-> (r.pos + 5) + 6, eof |-> r.eof]
    BY <1>8, <1>9 DEF Behind
  <2> QED
    BY <2>2, <2>3 DEF Behind
<1> DEFINE sig == NumberOf(second.bits) + 1
<1>12. NumberOf(first.bits) = lz /\ sig = Len(m) /\ Width - lz - sig = tz
  <2>1. NumberOf(first.bits) = lz /\ NumberOf(second.bits) = Width - lz - tz - 1
    BY <1>3, <1>8, <1>9
  <2>2. sig = (Width - lz - tz - 1) + 1
    BY <2>1
  <2> HIDE DEF sig
  <2>3. sig = Width - lz - tz
    BY <1>5, <2>2
  <2>4. sig = Len(m)
    BY <1>1, <2>3
  <2>5. Width - lz - sig = tz
    BY <1>5, <2>3
  <2> QED
    BY <2>1, <2>4, <2>5
<1>13. ReadBlock(r, s) =
         [r |-> Get(second.r, sig).r,
          x |-> Shifted(Get(second.r, sig).bits, Width - NumberOf(first.bits) - sig),
          s |-> Opened(s, NumberOf(first.bits), Width - NumberOf(first.bits) - sig)]
  BY DEF ReadBlock, Opened, first, second
<1> HIDE DEF sig
<1> QED
  BY <1>4, <1>10, <1>11, <1>12, <1>13 DEF BlockRead, f

(* So are bits within the last window. *)
LEMMA ReadReusedWhole ==
  ASSUME NEW r \in Readers, NEW s \in ValStates, NEW x \in Value,
         Covers(x, s.prev_lz, s.prev_tz), Whole(r, Meaningful(x, s.prev_lz, s.prev_tz))
  PROVE  ReadReused(r, s) =
           [r |-> Behind(r, Len(Meaningful(x, s.prev_lz, s.prev_tz))), s |-> s, x |-> x]
<1> DEFINE m == Meaningful(x, s.prev_lz, s.prev_tz)
<1>1. s.prev_lz \in Nat /\ s.prev_tz \in Nat /\ s.prev_lz + s.prev_tz < Width
  BY DEF ValStates
<1>2. /\ m \in Seq(Bit) /\ Len(m) = Width - s.prev_lz - s.prev_tz
      /\ Shifted(m, s.prev_tz) = x
  BY <1>1, WindowBits
<1>3. Whole(r, m)
  OBVIOUS
<1> HIDE DEF m
<1>4. Get(r, Len(m)).bits = m /\ Get(r, Len(m)).r = Behind(r, Len(m))
  BY <1>2, <1>3, WholeRead
<1>5. ReadReused(r, s) = [r |-> Behind(r, Len(m)), s |-> s, x |-> x]
  BY <1>2, <1>4 DEF ReadReused
<1> QED
  BY <1>5 DEF m

(* What is left, h, is read from q as the window that the control bit d says.*)
Window(d, q, s) == IF d = 0 THEN ReadReused(q, s) ELSE ReadBlock(q, s)

Continues(r, s, d, h, q) ==
  /\ q.eof = FALSE /\ q.buf = r.buf /\ q.pos = r.pos + 2
  /\ Whole(q, h)
  /\ LET read == Window(d, q, s)
         bits == Changed(s.prev_bits, read.x)
     IN  ~ read.r.eof =>
           ValDecode(r, s) = Decoded(read.r, [read.s EXCEPT !.prev_bits = bits], bits)

(* The bits that say that a value changed, and how its window is given.      *)
LEMMA ControlBits ==
  ASSUME NEW r \in Readers, r.eof = FALSE, NEW s \in ValStates, s.has_value,
         NEW d \in Bit, NEW h \in Seq(Bit), NEW g, g = << d >> \o h,
         NEW code, code = << 1 >> \o g, Whole(r, code)
  PROVE  \E q \in Readers : Continues(r, s, d, h, q)
<1> DEFINE o == <<1>>
           c == <<d>>
           q1 == Get(r, 1).r
           q2 == Get(q1, 1).r
<1>1. /\ o \in Seq(Bit) /\ Len(o) = 1 /\ c \in Seq(Bit) /\ Len(c) = 1
      /\ c = <<0>> <=> d = 0
  BY OneBit DEF Bit
<1>2. g = c \o h /\ code = o \o g
  OBVIOUS
<1> HIDE DEF c
<1>3. g \in Seq(Bit)
  <2>1. Fields(g, c, h)
    BY <1>1, <1>2, TwoFields
  <2> QED
    BY <2>1 DEF Fields
<1>4. Get(r, 1).bits = <<1>> /\ q1 = Behind(r, 1) /\ q1 \in Readers /\ Whole(q1, g)
  <2> HIDE DEF o, q1
  <2>1. Parts(r, o, g)
    BY <1>1, <1>2, <1>3, WholeParts
  <2> QED
    BY <1>1, <2>1 DEF Parts, o, q1
<1> HIDE DEF q1
<1>5. Get(q1, 1).bits = c /\ q2 = Behind(q1, 1) /\ q2 \in Readers /\ Whole(q2, h)
  <2> HIDE DEF q2
  <2>1. Parts(q1, c, h)
    BY <1>1, <1>2, <1>4, WholeParts
  <2> QED
    BY <1>1, <2>1 DEF Parts, q2
<1>6. q2.eof = FALSE /\ q2.buf = r.buf /\ q2.pos = r.pos + 2
  BY <1>4, <1>5 DEF Behind, Readers
<1>7. ValDecode(r, s) = ChangedValue(q1, s)
  BY <1>4 DEF ValDecode, q1
<1> DEFINE read == Window(d, q2, s)
           bits == Changed(s.prev_bits, read.x)
<1>8. read = IF Get(q1, 1).bits = <<0>> THEN ReadReused(q2, s) ELSE ReadBlock(q2, s)
  BY <1>1, <1>5 DEF Window
<1> HIDE DEF read
<1>9. ASSUME ~ read.r.eof
      PROVE  ValDecode(r, s) = Decoded(read.r, [read.s EXCEPT !.prev_bits = bits], bits)
  BY <1>7, <1>8, <1>9 DEF ChangedValue
<1> HIDE DEF q2
<1>10. Continues(r, s, d, h, q2)
  BY <1>5, <1>6, <1>9 DEF read, Continues
<1> QED
  BY <1>5, <1>10

(* gt_val_decode inverts gt_val_encode: value and state come back, and just  *)
(* the code is consumed.                                                     *)
LEMMA ValDecodeWhole ==
  ASSUME NEW r \in Readers, r.eof = FALSE, NEW s \in ValStates, NEW v \in Value,
         Whole(r, ValEncode(s, v).bits)
  PROVE  ValDecode(r, s) =
           Decoded(Behind(r, Len(ValEncode(s, v).bits)), ValEncode(s, v).s, v)
<1> DEFINE x == Xor(v, s.prev_bits)
           code == ValEncode(s, v).bits
<1>1. /\ s.prev_bits \in Value /\ s.has_value \in BOOLEAN
      /\ s.prev_lz \in Nat /\ s.prev_tz \in Nat /\ s.prev_lz + s.prev_tz < Width
  BY DEF ValStates
<1>2. x \in Value /\ Changed(s.prev_bits, x) = v
  <2>1. x \in Value /\ Xor(s.prev_bits, x) = v
    BY <1>1, XorFacts
  <2> HIDE DEF x
  <2> QED
    BY <1>1, <2>1, ChangedIsXor
<1>3. r.eof = FALSE /\ r.pos \in Nat /\ Whole(r, code)
  BY DEF Readers
<1> HIDE DEF x
<1>4. CASE FirstCode(s, v)
  <2>1. v \in Seq(Bit) /\ Len(v) = Width
    BY ValueIsSeq
  <2>2. code = v /\ ValEncode(s, v).s = Seen(s, v) /\ ~ s.has_value
    BY <1>4 DEF FirstCode
  <2>3. Get(r, Width).bits = v /\ Get(r, Width).r = Behind(r, Width)
    BY <1>3, <2>1, <2>2, WholeRead
  <2>4. ValDecode(r, s) = Decoded(Behind(r, Width), Seen(s, v), v)
    BY <1>3, <2>2, <2>3 DEF ValDecode, FirstValue, Seen, Behind
  <2> QED
    BY <2>1, <2>2, <2>4
<1>5. CASE SameCode(s, v)
  <2>1. code = <<0>> /\ ValEncode(s, v).s = Seen(s, v) /\ s.has_value /\ v = s.prev_bits
    BY <1>5 DEF SameCode
  <2>2. Get(r, 1).bits = <<0>> /\ Get(r, 1).r = Behind(r, 1)
    BY <1>3, <2>1, OneBit, WholeRead
  <2>3. Seen(s, v) = s
    BY <1>1, <2>1 DEF Seen, ValStates
  <2>4. ValDecode(r, s) = Decoded(Behind(r, 1), s, v)
    BY <1>3, <2>1, <2>2 DEF ValDecode, Behind
  <2> QED
    BY <2>1, <2>3, <2>4, OneBit
<1>6. CASE InWindow(s, v)
  <2> DEFINE m == Meaningful(x, s.prev_lz, s.prev_tz)
             g == <<0>> \o m
  <2>1. /\ s.has_value /\ Covers(x, s.prev_lz, s.prev_tz)
        /\ code = <<1>> \o g
        /\ code = ReusedCode(s.prev_lz, s.prev_tz, x)
        /\ ValEncode(s, v).s = Seen(s, v)
    BY <1>6 DEF InWindow, ReusedCode, x
  <2>2. m \in Seq(Bit) /\ Len(m) \in Nat /\ Len(code) = 2 + Len(m)
    <3>1. m \in Seq(Bit) /\ Len(m) = Width - s.prev_lz - s.prev_tz
      BY <1>1, <1>2, WindowBits
    <3>2. Len(ReusedCode(s.prev_lz, s.prev_tz, x)) = 2 + (Width - s.prev_lz - s.prev_tz)
      BY <1>1, <1>2, ReusedCodeType
    <3>3. Len(m) \in Nat
      BY <3>1, LenProperties
    <3> HIDE DEF m, code
    <3> QED
      BY <2>1, <3>1, <3>2, <3>3
  <2> HIDE DEF code, m
  <2>3. PICK q \in Readers : Continues(r, s, 0, m, q)
    BY <1>3, <2>1, <2>2, ControlBits DEF Bit
  <2>4. q.eof = FALSE /\ q.buf = r.buf /\ q.pos = r.pos + 2 /\ Whole(q, m)
    BY <2>3 DEF Continues
  <2>5. Window(0, q, s) = [r |-> Behind(q, Len(m)), s |-> s, x |-> x]
    BY <1>2, <2>1, <2>4, ReadReusedWhole DEF m, Window
  <2>6. Behind(q, Len(m)) = Behind(r, Len(code))
    <3>1. q.pos + Len(m) = r.pos + Len(code)
      BY <1>3, <2>2, <2>4
    <3> QED
      BY <1>3, <2>4, <3>1 DEF Behind
  <2>7. ValDecode(r, s) = Decoded(Behind(q, Len(m)), [s EXCEPT !.prev_bits = v], v)
    <3>1. ~ Behind(q, Len(m)).eof
      BY <2>4 DEF Behind
    <3> QED
      BY <1>2, <2>3, <2>5, <3>1 DEF Continues
  <2>8. [s EXCEPT !.prev_bits = v] = Seen(s, v)
    BY <1>1, <2>1 DEF Seen, ValStates
  <2> QED
    BY <2>1, <2>6, <2>7, <2>8 DEF code
<1>7. ASSUME NEW lz \in 0 .. 31, NEW tz \in 0 .. 63, InBlock(s, v, lz, tz)
      PROVE  ValDecode(r, s) = Decoded(Behind(r, Len(code)), ValEncode(s, v).s, v)
  <2> DEFINE f == BlockFields(lz, tz, x)
             g == <<1>> \o f
  <2>1. /\ s.has_value /\ Covers(x, lz, tz) /\ lz + tz < Width
        /\ code = <<1>> \o g
        /\ code = BlockCode(lz, tz, x)
        /\ ValEncode(s, v).s = Opened(Seen(s, v), lz, tz)
    BY <1>7 DEF InBlock, BlockCode, Opened, x
  <2>2. f \in Seq(Bit) /\ Len(f) \in Nat /\ Len(code) = 2 + Len(f)
    <3>1. f \in Seq(Bit)
      BY <1>2, <2>1, NewBlockCode
    <3> DEFINE o == <<1>>
    <3>2. g = o \o f /\ code = o \o g /\ o \in Seq(Bit) /\ Len(o) = 1
      BY <2>1, OneBit
    <3> HIDE DEF o, f, g, code
    <3>3. Fields(g, o, f)
      BY <3>1, <3>2, TwoFields
    <3>4. Fields(code, o, g)
      BY <3>2, <3>3, TwoFields DEF Fields
    <3>5. Len(f) \in Nat
      BY <3>1, LenProperties
    <3> QED
      BY <3>1, <3>2, <3>3, <3>4, <3>5 DEF Fields
  <2> HIDE DEF code, f
  <2>3. PICK q \in Readers : Continues(r, s, 1, f, q)
    BY <1>3, <2>1, <2>2, ControlBits DEF Bit
  <2>4. q.eof = FALSE /\ q.buf = r.buf /\ q.pos = r.pos + 2 /\ Whole(q, f)
    BY <2>3 DEF Continues
  <2>5. Window(1, q, s) = [r |-> Behind(q, Len(f)), x |-> x, s |-> Opened(s, lz, tz)]
    <3>1. Whole(q, BlockFields(lz, tz, x))
      BY <2>4 DEF f
    <3>2. ReadBlock(q, s) = BlockRead(q, s, x, lz, tz)
      BY <1>2, <2>1, <3>1, ReadBlockWhole
    <3> QED
      BY <3>2 DEF BlockRead, Window, f
  <2>6. Behind(q, Len(f)) = Behind(r, Len(code))
    <3>1. q.pos + Len(f) = r.pos + Len(code)
      BY <1>3, <2>2, <2>4
    <3> QED
      BY <1>3, <2>4, <3>1 DEF Behind
  <2>7. ValDecode(r, s) =
          Decoded(Behind(q, Len(f)), [Opened(s, lz, tz) EXCEPT !.prev_bits = v], v)
    <3>1. ~ Behind(q, Len(f)).eof
      BY <2>4 DEF Behind
    <3> QED
      BY <1>2, <2>3, <2>5, <3>1 DEF Continues
  <2>8. [Opened(s, lz, tz) EXCEPT !.prev_bits = v] = Opened(Seen(s, v), lz, tz)
    BY <1>1, <2>1 DEF Opened, Seen, ValStates
  <2> QED
    BY <2>1, <2>6, <2>7, <2>8 DEF code
<1> QED
  BY <1>4, <1>5, <1>6, <1>7, ValEncodeKinds

-----------------------------------------------------------------------------
(* What gt_val_decode makes of a code that is torn.                          *)
LEMMA StateFacts ==
  ASSUME NEW s \in ValStates
  PROVE  /\ s.prev_bits \in Value /\ s.has_value \in BOOLEAN
         /\ s.prev_lz \in Nat /\ s.prev_tz \in Nat /\ s.prev_lz + s.prev_tz < Width
BY DEF ValStates

(* Meaningful bits that are not all there raise the end mark. *)
LEMMA ReadReusedTorn ==
  ASSUME NEW r \in Readers, NEW s \in ValStates,
         r.eof \/ r.pos + (Width - s.prev_lz - s.prev_tz) > Len(r.buf)
  PROVE  /\ ReadReused(r, s).s = s
         /\ ReadReused(r, s).r \in Readers
         /\ ReadReused(r, s).r.buf = r.buf
         /\ ReadReused(r, s).r.eof = TRUE
<1> DEFINE n == Width - s.prev_lz - s.prev_tz
<1>1. n \in Nat
  BY StateFacts, WidthSize
<1>2. r.eof \/ r.pos + n > Len(r.buf)
  OBVIOUS
<1>3. ReadReused(r, s).r = Get(r, n).r /\ ReadReused(r, s).s = s
  BY DEF ReadReused
<1> HIDE DEF n
<1> QED
  BY <1>1, <1>2, <1>3, GetType, GetTorn

(* The numbers read from torn length fields are not above those written, so  *)
(* that the window they make is proper.                                      *)
LEMMA ReadBlockTorn ==
  ASSUME NEW r \in Readers, NEW s \in ValStates, NEW x \in Value,
         NEW lz \in 0 .. 31, NEW tz \in 0 .. 63, lz + tz < Width,
         Torn(r, BlockFields(lz, tz, x))
  PROVE  /\ ReadBlock(r, s).s \in ValStates
         /\ ReadBlock(r, s).r \in Readers
         /\ ReadBlock(r, s).r.buf = r.buf
         /\ ReadBlock(r, s).r.eof = TRUE
<1> DEFINE a == FieldBits(lz, 5)
           b == FieldBits(Width - lz - tz - 1, 6)
           m == Meaningful(x, lz, tz)
           f == BlockFields(lz, tz, x)
           g == b \o m
           first  == Get(r, 5)
           second == Get(first.r, 6)
           L == NumberOf(first.bits)
           N == NumberOf(second.bits)
           last == Get(second.r, N + 1)
<1>1. /\ a \in Seq(Bit) /\ b \in Seq(Bit) /\ m \in Seq(Bit)
      /\ Len(a) = 5 /\ Len(b) = 6 /\ Len(m) = Width - lz - tz
  BY BlockFieldTypes
<1>2. f = a \o g /\ g = b \o m /\ Torn(r, f)
  BY DEF BlockFields
<1>3. NumberOf(a) = lz /\ NumberOf(b) = Width - lz - tz - 1
  <2>1. Width - lz - tz - 1 \in 0 .. 63
    BY WidthSize
  <2> QED
    BY <2>1, SmallNumbers
<1>4. Width \in Nat /\ Width <= 64 /\ lz + tz < Width /\ lz \in 0 .. 31 /\ tz \in 0 .. 63
  BY WidthSize
<1>5. ReadBlock(r, s).r = last.r /\ ReadBlock(r, s).s = Opened(s, L, Width - L - (N + 1))
  BY DEF ReadBlock, Opened
<1> HIDE DEF a, b, m, f, g
<1>6. a \in [1 .. 5 -> Bit] /\ b \in [1 .. 6 -> Bit]
  BY <1>1, LenProperties
<1>7. /\ first.bits \in [1 .. 5 -> Bit] /\ Len(first.bits) = 5
      /\ first.r \in Readers /\ first.r.buf = r.buf
  BY GetType, BitsLength
<1>8. Torn(r, a) \/ (Whole(r, a) /\ first.bits = a /\ Torn(first.r, g))
  <2>1. g \in Seq(Bit)
    <3>1. Fields(g, b, m)
      BY <1>1, <1>2, TwoFields
    <3> QED
      BY <3>1 DEF Fields
  <2>2. TornIn(r, a, g)
    BY <1>1, <1>2, <2>1, TornParts
  <2> QED
    BY <1>1, <2>2 DEF TornIn
<1>9. Torn(r, a) => /\ first.r.pos = Len(r.buf) /\ first.r.eof = TRUE
                   /\ \A i \in 1 .. 5 : first.bits[i] <= a[i]
  BY <1>1, TornRead
<1> HIDE DEF first
<1>10. /\ second.bits \in [1 .. 6 -> Bit] /\ Len(second.bits) = 6
       /\ second.r \in Readers /\ second.r.buf = r.buf
  BY <1>7, GetType, BitsLength
<1>11. Torn(first.r, g) => (Torn(first.r, b) \/ (second.bits = b /\ Torn(second.r, m)))
  <2>1. ASSUME Torn(first.r, g) PROVE TornIn(first.r, b, m)
    BY <1>1, <1>2, <1>7, <2>1, TornParts
  <2> QED
    BY <1>1, <2>1 DEF TornIn
<1>12. Torn(first.r, b) => /\ second.r.eof = TRUE
                          /\ \A i \in 1 .. 6 : second.bits[i] <= b[i]
  BY <1>1, <1>7, TornRead
<1>13. ASSUME first.r.pos = Len(r.buf)
       PROVE  second.bits = Zeros(6) /\ second.r.eof = TRUE
  <2>1. first.r.pos = Len(first.r.buf) /\ 6 \in Nat /\ 6 > 0
    BY <1>7, <1>13
  <2> QED
    BY <1>7, <2>1, GetAtEnd
<1> HIDE DEF second
<1>14. /\ L \in Nat /\ N \in Nat /\ L <= lz
       /\ N <= Width - lz - tz - 1
       /\ second.r.eof = TRUE \/ (Torn(second.r, m) /\ N + 1 = Len(m))
  <2>1. CASE Torn(r, a)
    <3>1. L \in Nat /\ L <= lz
      BY <1>1, <1>3, <1>6, <1>7, <1>9, <2>1, NumberOfLess
    <3>2. N = 0 /\ second.r.eof = TRUE
      <4>1. second.bits = Zeros(6) /\ second.r.eof = TRUE
        BY <1>9, <1>13, <2>1
      <4>2. NumberOf(Zeros(6)) = 0
        BY NumberOfZeros
      <4> QED
        BY <4>1, <4>2
    <3> HIDE DEF L, N
    <3> QED
      BY <1>4, <3>1, <3>2
  <2>2. CASE first.bits = a /\ Torn(first.r, b)
    <3>1. L = lz
      BY <1>3, <2>2
    <3>2. N \in Nat /\ N <= NumberOf(b) /\ second.r.eof = TRUE
      BY <1>1, <1>6, <1>10, <1>12, <2>2, NumberOfLess
    <3> HIDE DEF L, N
    <3> QED
      BY <1>3, <1>4, <3>1, <3>2
  <2>3. CASE first.bits = a /\ second.bits = b /\ Torn(second.r, m)
    <3>1. L = lz /\ N = Width - lz - tz - 1
      BY <1>3, <2>3
    <3> HIDE DEF L, N
    <3> QED
      BY <1>1, <1>4, <2>3, <3>1
  <2> QED
    BY <1>8, <1>11, <2>1, <2>2, <2>3
<1> HIDE DEF L, N
<1>15. last.r \in Readers /\ last.r.buf = r.buf /\ last.r.eof = TRUE
  <2>1. N + 1 \in Nat
    BY <1>14
  <2>2. second.r.eof \/ second.r.pos + (N + 1) > Len(second.r.buf)
    BY <1>14 DEF Torn
  <2> QED
    BY <1>10, <2>1, <2>2, GetType, GetTorn
<1>16. /\ L \in 0 .. 31 /\ Width - L - (N + 1) \in 0 .. 63
       /\ L + (Width - L - (N + 1)) < Width
  BY <1>4, <1>14
<1>17. Opened(s, L, Width - L - (N + 1)) \in ValStates
  <2> DEFINE t == Width - L - (N + 1)
  <2> HIDE DEF t
  <2>1. L \in 0 .. 31 /\ t \in 0 .. 63 /\ L + t < Width
    BY <1>16 DEF t
  <2>2. Opened(s, L, t) \in ValStates
    BY <2>1 DEF Opened, ValStates
  <2> QED
    BY <2>2 DEF t
<1> QED
  BY <1>5, <1>15, <1>17

(* The end was met, nothing was returned, and the state is a state.          *)
TornResult(d, r) ==
  /\ d.rc = "ERR_EOF"
  /\ d.s \in ValStates
  /\ d.r \in Readers /\ d.r.buf = r.buf /\ d.r.eof = TRUE

(* The end may be met at the bit that says how the window is given, or       *)
(* behind it.                                                                *)
LEMMA TornWindow ==
  ASSUME NEW r \in Readers, NEW q \in Readers, q.buf = r.buf, NEW s \in ValStates,
         NEW d \in Bit, NEW h \in Seq(Bit), NEW g, g = << d >> \o h, Torn(q, g),
         \A p \in Readers :
           Torn(p, h) =>
             /\ Window(d, p, s).s \in ValStates /\ Window(d, p, s).r \in Readers
             /\ Window(d, p, s).r.buf = p.buf /\ Window(d, p, s).r.eof = TRUE
  PROVE  TornResult(ChangedValue(q, s), r)
<1> DEFINE c == <<d>>
           fresh == Get(q, 1)
           read == IF fresh.bits = <<0>> THEN ReadReused(fresh.r, s) ELSE ReadBlock(fresh.r, s)
<1>1. c \in Seq(Bit) /\ Len(c) = 1 /\ (c = <<0>> <=> d = 0) /\ g = c \o h
  BY OneBit DEF Bit
<1>2. fresh.r \in Readers /\ fresh.r.buf = q.buf /\ fresh.bits \in [1 .. 1 -> Bit]
  BY GetType
<1> HIDE DEF c
<1>3. Torn(q, c) \/ (fresh.bits = c /\ Torn(fresh.r, h))
  <2>1. TornIn(q, c, h)
    BY <1>1, TornParts
  <2> QED
    BY <1>1, <2>1 DEF TornIn
<1>4. read.s \in ValStates /\ read.r \in Readers /\ read.r.buf = q.buf /\ read.r.eof = TRUE
  <2>1. CASE Torn(q, c)
    <3>1. fresh.r.eof = TRUE
      BY <1>1, <2>1, TornRead
    <3>2. fresh.bits = <<0>>
      <4>1. ~ (q.pos + 1 <= Len(q.buf))
        <5>1. q.pos \in Nat /\ Len(q.buf) \in Nat /\ q.pos + Len(c) > Len(q.buf)
          BY <2>1, LenProperties DEF Torn, Readers
        <5> QED
          BY <1>1, <5>1
      <4>2. fresh.bits = [i \in 1 .. 1 |-> 0]
        BY <4>1 DEF Get
      <4> QED
        BY <4>2
    <3>3. read = ReadReused(fresh.r, s)
      BY <3>2
    <3> HIDE DEF fresh, read
    <3> QED
      BY <1>2, <3>1, <3>3, ReadReusedTorn
  <2>2. CASE fresh.bits = c /\ Torn(fresh.r, h)
    <3>1. read = Window(d, fresh.r, s)
      BY <1>1, <2>2 DEF Window
    <3> HIDE DEF fresh, read
    <3> QED
      BY <1>2, <2>2, <3>1
  <2> QED
    BY <1>3, <2>1, <2>2
<1>5. ChangedValue(q, s) = AtEof(read.r, read.s)
  <2>1. read.r.eof
    BY <1>4
  <2> QED
    BY <2>1 DEF ChangedValue
<1> HIDE DEF read
<1> QED
  BY <1>4, <1>5 DEF TornResult, AtEof

(* gt_val_decode of a torn code reports the end. *)
LEMMA ValDecodeTorn ==
  ASSUME NEW r \in Readers, NEW s \in ValStates, NEW v \in Value,
         Torn(r, ValEncode(s, v).bits)
  PROVE  TornResult(ValDecode(r, s), r)
<1> DEFINE x == Xor(v, s.prev_bits)
           code == ValEncode(s, v).bits
           changed == Get(r, 1)
<1>1. /\ s.prev_bits \in Value /\ s.has_value \in BOOLEAN
      /\ s.prev_lz \in Nat /\ s.prev_tz \in Nat /\ s.prev_lz + s.prev_tz < Width
  BY DEF ValStates
<1>2. x \in Value
  BY <1>1, XorFacts
<1>3. Torn(r, code)
  OBVIOUS
<1>4. changed.r \in Readers /\ changed.r.buf = r.buf
  BY GetType
<1>5. ASSUME changed.bits = << 0 >>, changed.r.eof = TRUE, s.has_value
      PROVE  TornResult(ValDecode(r, s), r)
  <2>1. changed.bits # <<1>>
    BY <1>5
  <2>2. ValDecode(r, s) = AtEof(changed.r, s)
    BY <1>5, <2>1 DEF ValDecode
  <2> HIDE DEF changed
  <2> QED
    BY <1>4, <1>5, <2>2 DEF TornResult, AtEof
(* The first bit of a code is missing: it is read as a zero. *)
<1>6. ASSUME r.pos + 1 > Len(r.buf)
      PROVE  changed.bits = <<0>> /\ changed.r.eof = TRUE
  <2>1. changed.r.eof = TRUE
    BY <1>6, GetTorn
  <2>2. ~ (r.pos + 1 <= Len(r.buf))
    BY <1>6, LenProperties DEF Readers
  <2>3. changed.bits = [i \in 1 .. 1 |-> 0]
    BY <2>2 DEF Get
  <2> QED
    BY <2>1, <2>3
<1> HIDE DEF x
(* A changed value is torn in its first bit, or that is read. *)
<1>7. ASSUME s.has_value, NEW d \in Bit, NEW h \in Seq(Bit), code = << 1 >> \o (<< d >> \o h),
             \A p \in Readers :
               Torn(p, h) =>
                 /\ Window(d, p, s).s \in ValStates /\ Window(d, p, s).r \in Readers
                 /\ Window(d, p, s).r.buf = p.buf /\ Window(d, p, s).r.eof = TRUE
      PROVE  TornResult(ValDecode(r, s), r)
  <2> DEFINE o == <<1>>
             c == <<d>>
             g == c \o h
  <2>1. o \in Seq(Bit) /\ Len(o) = 1 /\ c \in Seq(Bit)
    BY OneBit DEF Bit
  <2>2. code = o \o g /\ g = c \o h
    BY <1>7
  <2> HIDE DEF code, o, c, g
  <2>3. g \in Seq(Bit)
    <3>1. Fields(g, c, h)
      BY <1>7, <2>1, <2>2, TwoFields
    <3> QED
      BY <3>1 DEF Fields
  <2>4. TornIn(r, o, g)
    BY <1>3, <2>1, <2>2, <2>3, TornParts
  <2>5. CASE Torn(r, o)
    <3>1. r.pos + 1 > Len(r.buf)
      BY <2>1, <2>5 DEF Torn
    <3> QED
      BY <1>5, <1>6, <1>7, <3>1
  <2>6. CASE changed.bits = <<1>> /\ Torn(changed.r, g)
    <3>1. ValDecode(r, s) = ChangedValue(changed.r, s)
      BY <1>7, <2>6 DEF ValDecode
    <3>2. g = <<d>> \o h
      BY DEF g, c
    <3> HIDE DEF changed
    <3>3. TornResult(ChangedValue(changed.r, s), r)
      BY <1>4, <1>7, <2>6, <3>2, TornWindow
    <3> QED
      BY <3>1, <3>3
  <2> QED
    BY <2>1, <2>4, <2>5, <2>6 DEF TornIn, o
<1>8. CASE FirstCode(s, v)
  <2>1. v \in Seq(Bit) /\ Len(v) = Width /\ Width \in Nat
    BY ValueIsSeq, WidthSize
  <2>2. code = v /\ ~ s.has_value
    BY <1>8 DEF FirstCode
  <2> DEFINE q == Get(r, Width).r
  <2>3. q.eof = TRUE /\ q \in Readers /\ q.buf = r.buf
    BY <1>3, <2>1, <2>2, TornRead, GetType
  <2>4. ValDecode(r, s) = AtEof(q, s)
    BY <2>2, <2>3 DEF ValDecode, FirstValue
  <2> HIDE DEF q
  <2> QED
    BY <2>3, <2>4 DEF TornResult, AtEof
<1>9. CASE SameCode(s, v)
  <2>1. code = <<0>> /\ s.has_value
    BY <1>9 DEF SameCode
  <2>2. r.pos + 1 > Len(r.buf)
    BY <1>3, <2>1, OneBit DEF Torn
  <2> QED
    BY <1>5, <1>6, <2>1, <2>2
<1>10. CASE InWindow(s, v)
  <2> DEFINE m == Meaningful(x, s.prev_lz, s.prev_tz)
  <2>1. s.has_value /\ code = <<1>> \o (<<0>> \o m)
    BY <1>10 DEF InWindow, ReusedCode, x
  <2>2. m \in Seq(Bit) /\ Len(m) = Width - s.prev_lz - s.prev_tz
    BY <1>1, <1>2, WindowBits
  <2> HIDE DEF m, code
  <2>3. ASSUME NEW p \in Readers, Torn(p, m)
        PROVE  /\ Window(0, p, s).s \in ValStates /\ Window(0, p, s).r \in Readers
               /\ Window(0, p, s).r.buf = p.buf /\ Window(0, p, s).r.eof = TRUE
    <3>1. p.pos + (Width - s.prev_lz - s.prev_tz) > Len(p.buf)
      BY <2>2, <2>3 DEF Torn
    <3> QED
      BY <3>1, ReadReusedTorn DEF Window
  <2> QED
    BY <1>7, <2>1, <2>2, <2>3 DEF Bit
<1>11. ASSUME NEW lz \in 0 .. 31, NEW tz \in 0 .. 63, InBlock(s, v, lz, tz)
       PROVE  TornResult(ValDecode(r, s), r)
  <2> DEFINE f == BlockFields(lz, tz, x)
  <2>1. s.has_value /\ code = <<1>> \o (<<1>> \o f) /\ lz + tz < Width
    BY <1>11 DEF InBlock, BlockCode, x
  <2>2. f \in Seq(Bit)
    BY <1>2, <2>1, NewBlockCode
  <2>3. ASSUME NEW p \in Readers, Torn(p, f)
        PROVE  /\ Window(1, p, s).s \in ValStates /\ Window(1, p, s).r \in Readers
               /\ Window(1, p, s).r.buf = p.buf /\ Window(1, p, s).r.eof = TRUE
    <3>1. Torn(p, BlockFields(lz, tz, x))
      BY <2>3
    <3>2. Window(1, p, s) = ReadBlock(p, s)
      BY DEF Window
    <3> HIDE DEF f
    <3>3. ReadBlock(p, s).s \in ValStates /\ ReadBlock(p, s).r \in Readers
      BY <1>2, <2>1, <3>1, ReadBlockTorn
    <3>4. ReadBlock(p, s).r.buf = p.buf
      BY <1>2, <2>1, <3>1, ReadBlockTorn
    <3>5. ReadBlock(p, s).r.eof = TRUE
      BY <1>2, <2>1, <3>1, ReadBlockTorn
    <3> QED
      BY <3>2, <3>3, <3>4, <3>5
  <2> HIDE DEF f, code
  <2> QED
    BY <1>7, <2>1, <2>2, <2>3 DEF Bit
<1> QED
  BY <1>8, <1>9, <1>10, <1>11, ValEncodeKinds

-----------------------------------------------------------------------------
(* What gt_val_encode leaves and how long its codes are.                     *)
LEMMA ValEncodeFacts ==
  ASSUME NEW s \in ValStates, NEW v \in Value
  PROVE  /\ ValEncode(s, v).s \in ValStates
         /\ ValEncode(s, v).s.has_value = TRUE
         /\ ValEncode(s, v).s.prev_bits = v
         /\ ValEncode(s, v).bits \in Seq(Bit)
         /\ Len(ValEncode(s, v).bits) \in 1 .. 13 + Width
<1> DEFINE x == Xor(v, s.prev_bits)
           code == ValEncode(s, v).bits
           next == ValEncode(s, v).s
<1>1. /\ s.prev_bits \in Value /\ s.has_value \in BOOLEAN
      /\ s.prev_lz \in Nat /\ s.prev_tz \in Nat /\ s.prev_lz + s.prev_tz < Width
  BY DEF ValStates
<1>2. x \in Value /\ Width \in Nat /\ Width > 0
  BY <1>1, XorFacts, WidthSize
<1>3. Seen(s, v) \in ValStates /\ Seen(s, v).has_value = TRUE /\ Seen(s, v).prev_bits = v
  BY DEF Seen, ValStates
<1>4. CASE FirstCode(s, v)
  BY <1>2, <1>3, <1>4, ValueIsSeq DEF FirstCode
<1>5. CASE SameCode(s, v)
  BY <1>2, <1>3, <1>5, OneBit DEF SameCode
<1>6. CASE InWindow(s, v)
  <2>1. code = ReusedCode(s.prev_lz, s.prev_tz, x) /\ next = Seen(s, v)
    BY <1>6 DEF InWindow
  <2> HIDE DEF x, code, next
  <2>2. code \in Seq(Bit) /\ Len(code) = 2 + (Width - s.prev_lz - s.prev_tz)
    BY <1>1, <1>2, <2>1, ReusedCodeType
  <2>3. Len(code) \in 1 .. 13 + Width
    BY <1>1, <1>2, <2>2
  <2> QED
    BY <1>3, <2>1, <2>2, <2>3 DEF code, next
<1>7. ASSUME NEW lz \in 0 .. 31, NEW tz \in 0 .. 63, InBlock(s, v, lz, tz)
      PROVE  /\ next \in ValStates /\ next.has_value = TRUE /\ next.prev_bits = v
             /\ code \in Seq(Bit) /\ Len(code) \in 1 .. 13 + Width
  <2>1. code = BlockCode(lz, tz, x) /\ next = Opened(Seen(s, v), lz, tz) /\ lz + tz < Width
    BY <1>7 DEF InBlock, Opened
  <2> HIDE DEF x, code, next
  <2>2. code \in Seq(Bit) /\ Len(code) = 13 + (Width - lz - tz)
    BY <1>2, <2>1, NewBlockCode
  <2>3. Len(code) \in 1 .. 13 + Width
    BY <1>2, <2>1, <2>2
  <2>4. next \in ValStates /\ next.has_value = TRUE /\ next.prev_bits = v
    BY <1>3, <2>1 DEF Opened, ValStates
  <2> QED
    BY <2>2, <2>3, <2>4
<1> QED
  BY <1>4, <1>5, <1>6, <1>7, ValEncodeKinds

-----------------------------------------------------------------------------
(* Decoding bits of any origin. *)
(* r2 is r after at least n bits were read, if the end did not come before.  *)
Moved(r, r2, n) ==
  /\ r2 \in Readers
  /\ r2.buf = r.buf
  /\ r2.pos >= r.pos
  /\ r.eof = TRUE => r2.eof = TRUE
  /\ r2.eof = FALSE => r2.pos >= r.pos + n

(* gt_get_bits goes on by n bits or raises the end mark. *)
LEMMA GetMoved ==
  ASSUME NEW r \in Readers, NEW n \in Nat
  PROVE  Moved(r, Get(r, n).r, n)
<1> DEFINE r2 == Get(r, n).r
<1>1. r.pos \in Nat /\ r.pos <= Len(r.buf) /\ Len(r.buf) \in Nat /\ r.eof \in BOOLEAN
  BY LenProperties DEF Readers
<1>2. r2 \in Readers /\ r2.buf = r.buf
  BY GetType
<1>3. /\ r2.pos = IF r.pos + n <= Len(r.buf) THEN r.pos + n ELSE Len(r.buf)
      /\ r2.eof = (r.eof \/ r.pos + n > Len(r.buf))
  BY DEF Get, Readers
<1>4. r.eof = TRUE => r2.eof = TRUE
  BY <1>3
<1>5. r2.eof = FALSE => ~ (r.pos + n > Len(r.buf))
  BY <1>3
<1> HIDE DEF r2
<1>6. r2.pos >= r.pos
  BY <1>1, <1>3
<1>7. r2.eof = FALSE => r2.pos >= r.pos + n
  BY <1>1, <1>3, <1>5
<1>8. Moved(r, r2, n)
  BY <1>2, <1>4, <1>6, <1>7 DEF Moved
<1> QED
  BY <1>8 DEF r2

(* One read behind another. *)
LEMMA MovedTwice ==
  ASSUME NEW r \in Readers, NEW r2, NEW r3, NEW m \in Nat, NEW n \in Nat,
         Moved(r, r2, m), Moved(r2, r3, n)
  PROVE  Moved(r, r3, m + n)
<1>1. /\ r.pos \in Nat /\ r2.pos \in Nat /\ r3.pos \in Nat /\ r3 \in Readers
      /\ r2.eof \in BOOLEAN
  BY DEF Moved, Readers
<1>2. r2.pos >= r.pos /\ r3.pos >= r2.pos
  BY DEF Moved
<1>3. r3.pos >= r.pos
  BY <1>1, <1>2
<1>4. r3.buf = r.buf /\ (r.eof = TRUE => r3.eof = TRUE)
  BY DEF Moved
<1>5. ASSUME r3.eof = FALSE PROVE r3.pos >= r.pos + (m + n)
  <2>1. r2.eof = FALSE
    BY <1>1, <1>5 DEF Moved
  <2>2. r3.pos >= r2.pos + n /\ r2.pos >= r.pos + m
    BY <1>5, <2>1 DEF Moved
  <2> QED
    BY <1>1, <2>2
<1> QED
  BY <1>1, <1>3, <1>4, <1>5 DEF Moved

(* Fewer bits were read if more were. *)
LEMMA MovedLess ==
  ASSUME NEW r \in Readers, NEW r2, NEW m \in Nat, NEW n \in Nat, m <= n, Moved(r, r2, n)
  PROVE  Moved(r, r2, m)
<1>1. r.pos \in Nat /\ r2.pos \in Nat
  BY DEF Moved, Readers
<1>2. r2.eof = FALSE => r2.pos >= r.pos + n
  BY DEF Moved
<1>3. r2.eof = FALSE => r2.pos >= r.pos + m
  BY <1>1, <1>2
<1> QED
  BY <1>3 DEF Moved

(* A timestamp, or the end. *)
TsResult(x, r, s) ==
  /\ Moved(r, x.r, 1)
  /\ x.s \in TsStates
  /\ \/ /\ x.rc = "OK" /\ x.r.eof = FALSE
        /\ x.out = x.s.prev_ts
        /\ x.s.prev_ts = Wrap(s.prev_ts + x.s.prev_delta)
     \/ x.rc = "ERR_EOF" /\ x.r.eof = TRUE /\ x.s = s

(* Bits read as a natural number. *)
LEMMA NumberOfType ==
  ASSUME NEW n \in Nat, NEW bits \in [1 .. n -> Bit]
  PROVE  NumberOf(bits) \in Nat
<1>1. bits \in Seq(Bit) /\ Len(bits) = n
  BY BitsLength
<1>2. PICK val : Reads(val, bits)
  BY <1>1, NumberOfReads
<1>3. Len(bits) \in 0 .. Len(bits)
  BY <1>1
<1> QED
  BY <1>2, <1>3 DEF Reads

(* A sign-extended field is an integer. *)
LEMMA SignExtendType ==
  ASSUME NEW n \in Nat, NEW bits \in [1 .. n -> Bit]
  PROVE  SignExtend(bits) \in Int
<1>1. bits \in Seq(Bit) /\ Len(bits) = n
  BY BitsLength
<1>2. CASE bits = << >>
  BY <1>2 DEF SignExtend
<1>3. CASE bits # << >>
  <2>1. NumberOf(bits) \in Nat
    BY NumberOfType
  <2>2. n # 0
    BY <1>1, <1>3, EmptySeq
  <2>3. bits[1] \in Bit
    <3>1. 1 \in 1 .. n
      BY <2>2
    <3> QED
      BY <3>1
  <2>4. Pow2[n] \in Nat
    BY Pow2Def
  <2>5. bits[1] * Pow2[n] \in Int
    BY <2>3, <2>4 DEF Bit
  <2>6. SignExtend(bits) = NumberOf(bits) - bits[1] * Pow2[n]
    BY <1>1, <1>3 DEF SignExtend
  <2> DEFINE a == NumberOf(bits)
             b == bits[1] * Pow2[n]
  <2> HIDE DEF a, b
  <2>7. a - b \in Int
    BY <2>1, <2>5 DEF a, b
  <2> QED
    BY <2>6, <2>7 DEF a, b
<1> QED
  BY <1>2, <1>3

(* Whatever bits follow, they are the prefix of a bucket. *)
LEMMA BucketAtType ==
  ASSUME NEW r \in Readers
  PROVE  BucketAt(r) \in Buckets
<1> DEFINE S == {j \in Buckets : j = 5 \/ Get(r, 4).bits[j] = 0}
<1>1. 5 \in S /\ S \in SUBSET Buckets
  BY DEF Buckets
<1>2. BucketAt(r) = Min(S)
  BY DEF BucketAt
<1> HIDE DEF S
<1> QED
  BY <1>1, <1>2, LeastBucket

(* gt_ts_decode of any bits at all. *)
LEMMA TsDecodeAny ==
  ASSUME NEW r \in Readers, NEW s \in TsStates
  PROVE  TsResult(TsDecode(r, s), r, s)
<1> DEFINE k == BucketAt(r)
           q == Get(r, Len(Prefix(k))).r
           field == Get(q, FieldWidths[k])
           f == SignExtend(field.bits)
           delta == Wrap(f + s.prev_delta)
           ts == Wrap(s.prev_ts + delta)
           x == TsDecode(r, s)
<1>1. k \in Buckets
  BY BucketAtType
<1>2. FieldWidths[k] \in Nat /\ Len(Prefix(k)) \in Nat \ {0}
  <2> HIDE DEF k
  <2>1. Len(Prefix(k)) = IF k < 5 THEN k ELSE 4
    BY <1>1, PrefixType
  <2> QED
    BY <1>1, <2>1, FieldWidth DEF Buckets
<1>3. x = IF field.r.eof THEN AtEof(field.r, s)
          ELSE Decoded(field.r, [prev_ts |-> ts, prev_delta |-> delta], ts)
  BY DEF TsDecode
<1> HIDE DEF k
<1>4. Moved(r, q, Len(Prefix(k))) /\ q \in Readers
  BY <1>2, GetMoved, GetType
<1> HIDE DEF q
<1>5. /\ Moved(q, field.r, FieldWidths[k])
      /\ field.bits \in [1 .. FieldWidths[k] -> Bit]
  BY <1>2, <1>4, GetMoved, GetType
<1> HIDE DEF field
<1>6. Moved(r, field.r, 1)
  <2> DEFINE a == Len(Prefix(k))
             b == FieldWidths[k]
  <2>1. a \in Nat \ {0} /\ b \in Nat
    BY <1>2
  <2> HIDE DEF a, b
  <2>2. Moved(r, field.r, a + b)
    BY <1>4, <1>5, <2>1, MovedTwice DEF a, b
  <2>3. 1 <= a + b /\ a + b \in Nat
    BY <2>1
  <2> QED
    BY <2>2, <2>3, MovedLess
<1>7. f \in Int
  BY <1>2, <1>5, SignExtendType
<1> HIDE DEF f
<1>8. AfterField(s, f) \in TsStates
  BY <1>7, AfterFieldType
<1>9. AfterField(s, f) = [prev_ts |-> ts, prev_delta |-> delta]
  BY DEF AfterField
<1>10. field.r.eof \in BOOLEAN
  BY <1>6 DEF Moved, Readers
<1> HIDE DEF delta
<1>11. CASE field.r.eof = TRUE
  <2>1. x = AtEof(field.r, s)
    BY <1>3, <1>11
  <2> HIDE DEF x
  <2>2. x.rc = "ERR_EOF" /\ x.r = field.r /\ x.s = s
    BY <2>1 DEF AtEof
  <2>3. TsResult(x, r, s)
    BY <1>6, <1>11, <2>2 DEF TsResult
  <2> QED
    BY <2>3 DEF x
<1>12. CASE field.r.eof = FALSE
  <2>1. x = Decoded(field.r, [prev_ts |-> ts, prev_delta |-> delta], ts)
    BY <1>3, <1>12
  <2> HIDE DEF x
  <2>2. /\ x.rc = "OK" /\ x.r = field.r /\ x.out = ts
        /\ x.s = [prev_ts |-> ts, prev_delta |-> delta]
    BY <2>1 DEF Decoded
  <2>3. x.s.prev_ts = ts /\ x.s.prev_delta = delta /\ x.s \in TsStates
    BY <1>8, <1>9, <2>2
  <2> HIDE DEF ts
  <2>4. x.s.prev_ts = Wrap(s.prev_ts + x.s.prev_delta)
    BY <2>3 DEF ts
  <2>5. TsResult(x, r, s)
    BY <1>6, <1>12, <2>2, <2>3, <2>4 DEF TsResult
  <2> QED
    BY <2>5 DEF x
<1> QED
  BY <1>10, <1>11, <1>12

(* A decoder that has read any bits. *)
LooseStates ==
  {s \in [prev_bits : Words, prev_lz : Nat, prev_tz : Int,
          has_value : BOOLEAN, has_block : BOOLEAN] : Width - s.prev_lz - s.prev_tz \in Nat}

(* The states of an encoder are among those of a decoder. *)
LEMMA ProperIsLoose == ValStates \subseteq LooseStates
<1> SUFFICES ASSUME NEW s \in ValStates PROVE s \in LooseStates
  OBVIOUS
<1>1. s.prev_lz \in Nat /\ s.prev_tz \in Nat /\ s.prev_lz + s.prev_tz < Width
  BY StateFacts
<1>2. s.prev_tz \in Int /\ Width - s.prev_lz - s.prev_tz \in Nat
  BY <1>1, WidthSize
<1>3. s \in [prev_bits : Value, prev_lz : 0 .. 31, prev_tz : 0 .. 63,
             has_value : BOOLEAN, has_block : BOOLEAN]
  BY DEF ValStates
<1>4. s \in [prev_bits : Words, prev_lz : Nat, prev_tz : Int,
             has_value : BOOLEAN, has_block : BOOLEAN]
  BY <1>3 DEF Words
<1> QED
  BY <1>2, <1>4 DEF LooseStates

(* Bits shifted to their place are a value, unless the count is negative. *)
LEMMA ShiftedType ==
  ASSUME NEW n \in Nat, NEW m \in [1 .. n -> Bit], NEW tz \in Int
  PROVE  Shifted(m, tz) \in Words
<1>1. Len(m) = n /\ Width \in Nat
  BY BitsLength, WidthSize
<1> DEFINE x == [i \in 1 .. Width |->
                   LET k == i - (Width - tz - Len(m)) IN IF k \in 1 .. Len(m) THEN m[k] ELSE 0]
<1>2. \A k \in 1 .. Len(m) : m[k] \in Bit
  BY <1>1
<1>3. \A i \in 1 .. Width : x[i] \in Bit
  BY <1>2 DEF Bit
<1>4. x \in Value
  BY <1>3 DEF Value
<1>5. Shifted(m, tz) = IF tz < 0 THEN Unknown ELSE x
  BY DEF Shifted
<1> QED
  BY <1>4, <1>5 DEF Words

(* What is computed from a word is one. *)
LEMMA ChangedType ==
  ASSUME NEW a \in Words, NEW x \in Words
  PROVE  Changed(a, x) \in Words
<1>1. CASE a = Unknown \/ x = Unknown
  BY <1>1 DEF Changed, Words
<1>2. CASE ~ (a = Unknown \/ x = Unknown)
  <2>1. a \in Value /\ x \in Value
    BY <1>2 DEF Words
  <2>2. Xor(a, x) \in Value
    BY <2>1, XorFacts
  <2> QED
    BY <1>2, <2>2 DEF Changed, Words
<1> QED
  BY <1>1, <1>2

(* What is read of a window: n bits at least. *)
WindowResult(w, r, s, n) ==
  /\ Moved(r, w.r, n)
  /\ w.x \in Words
  /\ w.s \in LooseStates
  /\ w.s.prev_bits = s.prev_bits /\ w.s.has_value = s.has_value

(* A reused window in any bits. *)
LEMMA ReadReusedAny ==
  ASSUME NEW r \in Readers, NEW s \in LooseStates
  PROVE  WindowResult(ReadReused(r, s), r, s, 0)
<1> DEFINE n == Width - s.prev_lz - s.prev_tz
           m == Get(r, n)
           w == ReadReused(r, s)
<1>1. n \in Nat /\ s.prev_tz \in Int
  BY DEF LooseStates
<1>2. w = [r |-> m.r, s |-> s, x |-> Shifted(m.bits, s.prev_tz)]
  BY DEF ReadReused
<1> HIDE DEF n
<1>3. m.bits \in [1 .. n -> Bit] /\ Moved(r, m.r, n)
  BY <1>1, GetType, GetMoved
<1> HIDE DEF m
<1>4. Shifted(m.bits, s.prev_tz) \in Words
  BY <1>1, <1>3, ShiftedType
<1>5. Moved(r, m.r, 0)
  <2>1. 0 <= n /\ 0 \in Nat
    BY <1>1
  <2> QED
    BY <1>1, <1>3, <2>1, MovedLess
<1> HIDE DEF w
<1>6. w.r = m.r /\ w.s = s /\ w.x = Shifted(m.bits, s.prev_tz)
  BY <1>2
<1>7. WindowResult(w, r, s, 0)
  BY <1>4, <1>5, <1>6 DEF WindowResult
<1> QED
  BY <1>7 DEF w

(* A new window in any bits. *)
LEMMA ReadBlockAny ==
  ASSUME NEW r \in Readers, NEW s \in LooseStates
  PROVE  WindowResult(ReadBlock(r, s), r, s, 0)
<1> DEFINE first == Get(r, 5)
           second == Get(first.r, 6)
           lz == NumberOf(first.bits)
           sig == NumberOf(second.bits) + 1
           tz == Width - lz - sig
           m == Get(second.r, sig)
           s2 == [s EXCEPT !.prev_lz = lz, !.prev_tz = tz, !.has_block = TRUE]
           w == ReadBlock(r, s)
<1>1. w = [r |-> m.r, x |-> Shifted(m.bits, tz), s |-> s2]
  BY DEF ReadBlock
<1> HIDE DEF w
<1>2. /\ s \in [prev_bits : Words, prev_lz : Nat, prev_tz : Int,
                has_value : BOOLEAN, has_block : BOOLEAN]
      /\ Width \in Nat
  BY WidthSize DEF LooseStates
<1>3. Moved(r, first.r, 5) /\ first.r \in Readers /\ first.bits \in [1 .. 5 -> Bit]
  BY GetMoved, GetType
<1> HIDE DEF first
<1>4. Moved(first.r, second.r, 6) /\ second.r \in Readers /\ second.bits \in [1 .. 6 -> Bit]
  BY <1>3, GetMoved, GetType
<1> HIDE DEF second
<1>5. lz \in Nat /\ sig \in Nat
  <2>1. NumberOf(first.bits) \in Nat
    BY <1>3, NumberOfType
  <2>2. NumberOf(second.bits) \in Nat
    BY <1>4, NumberOfType
  <2> QED
    BY <2>1, <2>2
<1> HIDE DEF lz, sig
<1>6. tz \in Int /\ Width - lz - tz = sig
  BY <1>2, <1>5
<1> HIDE DEF tz
<1>7. Moved(second.r, m.r, sig) /\ m.bits \in [1 .. sig -> Bit]
  BY <1>4, <1>5, GetMoved, GetType
<1> HIDE DEF m
<1>8. Shifted(m.bits, tz) \in Words
  BY <1>5, <1>6, <1>7, ShiftedType
<1>9. Moved(r, m.r, 0)
  <2>1. Moved(r, second.r, 5 + 6)
    BY <1>3, <1>4, MovedTwice
  <2>2. 5 + 6 \in Nat
    OBVIOUS
  <2>3. Moved(r, m.r, (5 + 6) + sig)
    BY <1>5, <1>7, <2>1, <2>2, MovedTwice
  <2>4. 0 <= (5 + 6) + sig /\ (5 + 6) + sig \in Nat /\ 0 \in Nat
    BY <1>5
  <2> QED
    BY <2>3, <2>4, MovedLess
<1>10. /\ s2 \in [prev_bits : Words, prev_lz : Nat, prev_tz : Int,
                  has_value : BOOLEAN, has_block : BOOLEAN]
       /\ s2.prev_lz = lz /\ s2.prev_tz = tz
       /\ s2.prev_bits = s.prev_bits /\ s2.has_value = s.has_value
  BY <1>2, <1>5, <1>6
<1> HIDE DEF s2
<1>11. s2 \in LooseStates
  BY <1>5, <1>6, <1>10 DEF LooseStates
<1>12. w.r = m.r /\ w.s = s2 /\ w.x = Shifted(m.bits, tz)
  BY <1>1
<1>13. WindowResult(w, r, s, 0)
  BY <1>8, <1>9, <1>10, <1>11, <1>12 DEF WindowResult
<1> QED
  BY <1>13 DEF w

(* A value, or the end. *)
ValResult(x, r) ==
  /\ Moved(r, x.r, 1)
  /\ x.s \in LooseStates
  /\ \/ x.rc = "OK" /\ x.r.eof = FALSE /\ x.out = x.s.prev_bits
     \/ x.rc = "ERR_EOF" /\ x.r.eof = TRUE

(* The last look at the end mark. *)
LEMMA DecodedOrEof ==
  ASSUME NEW r, NEW q, Moved(r, q, 1), NEW s1 \in LooseStates, NEW s2 \in LooseStates,
         NEW v, v = s2.prev_bits, NEW x,
         x = IF q.eof THEN AtEof(q, s1) ELSE Decoded(q, s2, v)
  PROVE  ValResult(x, r)
<1>1. q.eof \in BOOLEAN
  BY DEF Moved, Readers
<1>2. CASE q.eof = TRUE
  <2>1. x.rc = "ERR_EOF" /\ x.r = q /\ x.s = s1
    BY <1>2 DEF AtEof
  <2> QED
    BY <1>2, <2>1 DEF ValResult
<1>3. CASE q.eof = FALSE
  <2>1. x.rc = "OK" /\ x.r = q /\ x.s = s2 /\ x.out = v
    BY <1>3 DEF Decoded
  <2> QED
    BY <1>3, <2>1 DEF ValResult
<1> QED
  BY <1>1, <1>2, <1>3

(* The value kept in the state. *)
LEMMA NewBits ==
  ASSUME NEW s \in LooseStates, NEW v \in Words, NEW b \in BOOLEAN
  PROVE  /\ [s EXCEPT !.prev_bits = v, !.has_value = b] \in LooseStates
         /\ [s EXCEPT !.prev_bits = v, !.has_value = b].prev_bits = v
<1> DEFINE s2 == [s EXCEPT !.prev_bits = v, !.has_value = b]
<1>1. /\ s \in [prev_bits : Words, prev_lz : Nat, prev_tz : Int,
                has_value : BOOLEAN, has_block : BOOLEAN]
      /\ Width - s.prev_lz - s.prev_tz \in Nat
  BY DEF LooseStates
<1>2. /\ s2 \in [prev_bits : Words, prev_lz : Nat, prev_tz : Int,
                 has_value : BOOLEAN, has_block : BOOLEAN]
      /\ s2.prev_lz = s.prev_lz /\ s2.prev_tz = s.prev_tz /\ s2.prev_bits = v
  BY <1>1
<1> HIDE DEF s2
<1>3. s2 \in LooseStates /\ s2.prev_bits = v
  BY <1>1, <1>2 DEF LooseStates
<1> QED
  BY <1>3 DEF s2

(* A first value in any bits. *)
LEMMA FirstValueAny ==
  ASSUME NEW r \in Readers, NEW s \in LooseStates
  PROVE  ValResult(FirstValue(r, s), r)
<1> DEFINE g == Get(r, Width)
           s2 == [s EXCEPT !.prev_bits = g.bits, !.has_value = TRUE]
<1>1. FirstValue(r, s) = IF g.r.eof THEN AtEof(g.r, s) ELSE Decoded(g.r, s2, g.bits)
  BY DEF FirstValue
<1>2. Width \in Nat /\ 1 <= Width /\ 1 \in Nat
  BY WidthSize
<1>3. Moved(r, g.r, Width) /\ g.bits \in Value
  BY <1>2, GetMoved, GetType DEF Value
<1> HIDE DEF g
<1>4. Moved(r, g.r, 1)
  BY <1>2, <1>3, MovedLess
<1>5. s2 \in LooseStates /\ s2.prev_bits = g.bits
  <2>1. g.bits \in Words
    BY <1>3 DEF Words
  <2> QED
    BY <2>1, NewBits
<1> HIDE DEF s2
<1> QED
  BY <1>1, <1>4, <1>5, DecodedOrEof

(* A changed value in any bits. *)
LEMMA ChangedValueAny ==
  ASSUME NEW r \in Readers, NEW s \in LooseStates
  PROVE  ValResult(ChangedValue(r, s), r)
<1> DEFINE fresh == Get(r, 1)
           read == IF fresh.bits = <<0>> THEN ReadReused(fresh.r, s) ELSE ReadBlock(fresh.r, s)
           bits == Changed(s.prev_bits, read.x)
           s2 == [read.s EXCEPT !.prev_bits = bits]
<1>1. ChangedValue(r, s) = IF read.r.eof THEN AtEof(read.r, read.s) ELSE Decoded(read.r, s2, bits)
  BY DEF ChangedValue
<1>2. Moved(r, fresh.r, 1) /\ fresh.r \in Readers
  BY GetMoved, GetType
<1> HIDE DEF fresh
<1>3. WindowResult(read, fresh.r, s, 0)
  <2>1. WindowResult(ReadReused(fresh.r, s), fresh.r, s, 0)
    BY <1>2, ReadReusedAny
  <2>2. WindowResult(ReadBlock(fresh.r, s), fresh.r, s, 0)
    BY <1>2, ReadBlockAny
  <2> QED
    BY <2>1, <2>2
<1> HIDE DEF read
<1>4. /\ Moved(fresh.r, read.r, 0) /\ read.x \in Words /\ read.s \in LooseStates
      /\ read.s.has_value \in BOOLEAN
  BY <1>3 DEF WindowResult, LooseStates
<1>5. Moved(r, read.r, 1)
  <2>1. Moved(r, read.r, 1 + 0)
    BY <1>2, <1>4, MovedTwice
  <2>2. 1 + 0 = 1
    OBVIOUS
  <2> QED
    BY <2>1, <2>2
<1>6. bits \in Words
  <2>1. s.prev_bits \in Words
    BY DEF LooseStates
  <2> QED
    BY <1>4, <2>1, ChangedType
<1> HIDE DEF bits
<1>7. s2 \in LooseStates /\ s2.prev_bits = bits
  <2> DEFINE s3 == [read.s EXCEPT !.prev_bits = bits, !.has_value = read.s.has_value]
  <2>1. s3 \in LooseStates /\ s3.prev_bits = bits
    BY <1>4, <1>6, NewBits
  <2>2. s2 = s3
    <3>1. read.s \in [prev_bits : Words, prev_lz : Nat, prev_tz : Int,
                      has_value : BOOLEAN, has_block : BOOLEAN]
      BY <1>4 DEF LooseStates
    <3> QED
      BY <3>1
  <2> QED
    BY <2>1, <2>2
<1> HIDE DEF s2
<1> QED
  BY <1>1, <1>4, <1>5, <1>7, DecodedOrEof

(* gt_val_decode of any bits at all. *)
LEMMA ValDecodeAny ==
  ASSUME NEW r \in Readers, NEW s \in LooseStates
  PROVE  ValResult(ValDecode(r, s), r)
<1> DEFINE changed == Get(r, 1)
<1>1. s.has_value \in BOOLEAN
  BY DEF LooseStates
<1>2. ValDecode(r, s) =
        IF ~ s.has_value THEN FirstValue(r, s)
        ELSE IF changed.bits = <<1>> THEN ChangedValue(changed.r, s)
        ELSE IF changed.r.eof THEN AtEof(changed.r, s)
        ELSE Decoded(changed.r, s, s.prev_bits)
  BY DEF ValDecode
<1>3. Moved(r, changed.r, 1) /\ changed.r \in Readers
  BY GetMoved, GetType
<1> HIDE DEF changed
<1>4. ValResult(FirstValue(r, s), r)
  BY FirstValueAny
<1>5. ValResult(ChangedValue(changed.r, s), r)
  <2> DEFINE x == ChangedValue(changed.r, s)
  <2>1. ValResult(x, changed.r)
    BY <1>3, ChangedValueAny
  <2> HIDE DEF x
  <2>2. Moved(r, x.r, 1 + 1)
    BY <1>3, <2>1, MovedTwice DEF ValResult
  <2>3. 1 <= 1 + 1 /\ 1 + 1 \in Nat /\ 1 \in Nat
    OBVIOUS
  <2>4. Moved(r, x.r, 1)
    BY <2>2, <2>3, MovedLess
  <2>5. ValResult(x, r)
    BY <2>1, <2>4 DEF ValResult
  <2> QED
    BY <2>5 DEF x
<1>6. ValResult(IF changed.r.eof THEN AtEof(changed.r, s)
                ELSE Decoded(changed.r, s, s.prev_bits), r)
  BY <1>3, DecodedOrEof
<1> QED
  BY <1>1, <1>2, <1>4, <1>5, <1>6
=============================================================================
