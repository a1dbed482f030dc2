------------------------- MODULE GorillaStreamProofs ------------------------
(***************************************************************************)
(* The C API, for every word size, every set of points and every size of   *)
(* the buffer.                                                             *)
(***************************************************************************)
EXTENDS GorillaStream, CodecProofs

(* The header in bytes and in bits, and the most bits of a point. *)
LEMMA Sizes ==
  /\ HeaderBytes \in Nat /\ 8 * HeaderBytes = TsBits
  /\ TsBits \in Nat \ {0} /\ LastBits \in Nat /\ Width \in Nat \ {0}
  /\ PointBits \in Nat /\ PointBits = 17 + LastBits + Width
<1>1. TsBits \in Nat \ {0} /\ LastBits \in Nat /\ Width \in Nat \ {0} /\ TsBits % 8 = 0
  BY TimestampAssumption, WidthSize, StreamAssumption
<1> QED
  BY <1>1 DEF HeaderBytes, PointBits

-----------------------------------------------------------------------------
(* Writing. *)
(* A compressor over n bytes. *)
Compressors(n) ==
  {w \in [bits : Seq(Bit), overflow : BOOLEAN, ts : TsStates, vs : ValStates] :
     Len(w.bits) <= 8 * n}

(* A reader that has come to pos. *)
At(bits, pos) == [buf |-> bits, pos |-> pos, eof |-> FALSE]

(* w2 is w with code behind its bits, as much of it as fits in n bytes. *)
IsPut(w, w2, code, n) ==
  /\ w2 \in Compressors(n)
  /\ \A i \in 1 .. Len(w.bits) : w2.bits[i] = w.bits[i]
  /\ Len(w2.bits) = IF Len(w.bits) + Len(code) <= 8 * n THEN Len(w.bits) + Len(code) ELSE 8 * n
  /\ Agrees(At(w2.bits, Len(w.bits)), code)
  /\ w2.overflow = TRUE <=> (w.overflow = TRUE \/ Len(w.bits) + Len(code) > 8 * n)
  /\ w2.ts = w.ts /\ w2.vs = w.vs

(* The first k of a sequence. *)
LEMMA FirstOf ==
  ASSUME NEW S, NEW s \in Seq(S), NEW k \in 0 .. Len(s)
  PROVE  /\ SubSeq(s, 1, k) \in Seq(S)
         /\ Len(SubSeq(s, 1, k)) = k
         /\ \A i \in 1 .. k : SubSeq(s, 1, k)[i] = s[i]
<1> DEFINE part == SubSeq(s, 1, k)
<1>1. Len(s) \in Nat /\ k \in Nat /\ \A i \in 1 .. k : i \in 1 .. Len(s)
  BY LenProperties
<1>2. \A i \in 1 .. k : s[i] \in S
  BY <1>1, ElementOfSeq
<1>3. part = [i \in 1 .. k |-> s[i]]
  BY <1>1
<1> HIDE DEF part
<1>4. part \in [1 .. k -> S]
  BY <1>2, <1>3
<1>5. part \in Seq(S) /\ Len(part) = k
  BY <1>1, <1>4
<1> QED
  BY <1>3, <1>5 DEF part

(* more is what of code fits behind the bits of w. *)
FitPart(w, code, more, n) ==
  /\ \A i \in 1 .. Len(more) : more[i] = code[i]
  /\ Len(more) = IF Len(code) <= 8 * n - Len(w.bits) THEN Len(code) ELSE 8 * n - Len(w.bits)

(* The bits of a code that fit, behind those that are there. *)
LEMMA PutPart ==
  ASSUME NEW n \in Nat, NEW w \in Compressors(n), NEW code \in Seq(Bit),
         NEW more \in Seq(Bit), FitPart(w, code, more, n)
  PROVE  /\ w.bits \o more \in Seq(Bit) /\ Len(w.bits \o more) <= 8 * n
         /\ \A i \in 1 .. Len(w.bits) : (w.bits \o more)[i] = w.bits[i]
         /\ Len(w.bits \o more)
              = IF Len(w.bits) + Len(code) <= 8 * n THEN Len(w.bits) + Len(code) ELSE 8 * n
         /\ Agrees(At(w.bits \o more, Len(w.bits)), code)
<1> DEFINE L == Len(w.bits)
           b == w.bits \o more
<1>1. w.bits \in Seq(Bit) /\ L \in Nat /\ L <= 8 * n /\ Len(code) \in Nat
  BY LenProperties DEF Compressors
<1>2. /\ b \in Seq(Bit) /\ Len(b) = L + Len(more) /\ Len(more) \in Nat
      /\ \A i \in 1 .. L + Len(more) : b[i] = IF i <= L THEN w.bits[i] ELSE more[i - L]
  BY <1>1, ConcatProperties, LenProperties
<1>3. /\ Len(more) = IF Len(code) <= 8 * n - L THEN Len(code) ELSE 8 * n - L
      /\ \A i \in 1 .. Len(more) : more[i] = code[i]
  BY DEF FitPart
<1> HIDE DEF b, L
<1>4. Len(b) <= 8 * n
  BY <1>1, <1>2, <1>3
<1>5. \A i \in 1 .. L : b[i] = w.bits[i]
  BY <1>1, <1>2
<1>6. Len(b) = IF L + Len(code) <= 8 * n THEN L + Len(code) ELSE 8 * n
  BY <1>1, <1>2, <1>3
<1>7. Agrees(At(b, L), code)
  <2>1. ASSUME NEW i \in 1 .. Len(code), L + i <= Len(b) PROVE b[L + i] = code[i]
    <3>1. i \in 1 .. Len(more) /\ L + i \in 1 .. L + Len(more) /\ ~ (L + i <= L) /\ (L + i) - L = i
      BY <1>1, <1>2, <2>1
    <3>2. b[L + i] = more[(L + i) - L]
      BY <1>2, <3>1
    <3> QED
      BY <1>3, <3>1, <3>2
  <2> QED
    BY <2>1 DEF Agrees, At
<1> QED
  BY <1>2, <1>4, <1>5, <1>6, <1>7 DEF b, L

(* With them the compressor has been written to, as long as it marks what    *)
(* did not fit.                                                              *)
LEMMA PutRecord ==
  ASSUME NEW n \in Nat, NEW w \in Compressors(n), NEW code \in Seq(Bit),
         NEW more \in Seq(Bit), FitPart(w, code, more, n), NEW o \in BOOLEAN,
         o = TRUE <=> (w.overflow = TRUE \/ Len(w.bits) + Len(code) > 8 * n), NEW w2,
         w2 = [bits |-> w.bits \o more, overflow |-> o, ts |-> w.ts, vs |-> w.vs]
  PROVE  IsPut(w, w2, code, n)
<1> DEFINE b == w.bits \o more
<1>1. w.ts \in TsStates /\ w.vs \in ValStates
  BY DEF Compressors
<1>2. /\ b \in Seq(Bit) /\ Len(b) <= 8 * n
      /\ \A i \in 1 .. Len(w.bits) : b[i] = w.bits[i]
      /\ Len(b) = IF Len(w.bits) + Len(code) <= 8 * n THEN Len(w.bits) + Len(code) ELSE 8 * n
      /\ Agrees(At(b, Len(w.bits)), code)
  BY PutPart
<1>3. /\ w2.bits = b /\ w2.overflow = o /\ w2.ts = w.ts /\ w2.vs = w.vs
      /\ w2 = [bits |-> b, overflow |-> o, ts |-> w.ts, vs |-> w.vs]
  OBVIOUS
<1> HIDE DEF b
<1>4. w2 \in Compressors(n)
  BY <1>1, <1>2, <1>3 DEF Compressors
<1> QED
  BY <1>2, <1>3, <1>4, Zenon DEF IsPut

(* gt_put_bits writes as much as fits, and marks the rest. *)
LEMMA PutBitsPuts ==
  ASSUME NEW n \in Nat, NEW w \in Compressors(n), NEW code \in Seq(Bit)
  PROVE  IsPut(w, PutBits(w, code, n), code, n)
<1> DEFINE room == 8 * n - Len(w.bits)
           full == Len(w.bits) + Len(code) > 8 * n
           w2 == PutBits(w, code, n)
           part == SubSeq(code, 1, room)
<1>1. /\ room \in Nat /\ Len(code) \in Nat /\ w.overflow \in BOOLEAN /\ Len(w.bits) \in Nat
      /\ w = [bits |-> w.bits, overflow |-> w.overflow, ts |-> w.ts, vs |-> w.vs]
  BY LenProperties DEF Compressors
<1>2. CASE Len(code) <= room
  <2>1. w2 = [bits |-> w.bits \o code, overflow |-> w.overflow, ts |-> w.ts, vs |-> w.vs]
    BY <1>1, <1>2 DEF PutBits
  <2>2. ~ full
    BY <1>1, <1>2
  <2> HIDE DEF full
  <2>3. w.overflow = TRUE <=> (w.overflow = TRUE \/ full)
    BY <2>2, Zenon
  <2>4. FitPart(w, code, code, n)
    BY <1>2 DEF FitPart
  <2> HIDE DEF w2, room
  <2>5. w.overflow = TRUE <=> (w.overflow = TRUE \/ Len(w.bits) + Len(code) > 8 * n)
    BY <2>3, Zenon DEF full
  <2>6. IsPut(w, w2, code, n)
    BY <1>1, <2>1, <2>4, <2>5, PutRecord
  <2> QED
    BY <2>6 DEF w2
<1>3. CASE ~ (Len(code) <= room)
  <2>1. w2 = [bits |-> w.bits \o part, overflow |-> TRUE, ts |-> w.ts, vs |-> w.vs]
    BY <1>1, <1>3 DEF PutBits
  <2>2. full
    BY <1>1, <1>3
  <2>3. room \in 0 .. Len(code)
    <3> HIDE DEF room
    <3> QED
      BY <1>1, <1>3
  <2>4. part \in Seq(Bit) /\ Len(part) = room /\ \A i \in 1 .. room : part[i] = code[i]
    <3> HIDE DEF room
    <3> QED
      BY <2>3, FirstOf
  <2> HIDE DEF part, w2
  <2>5. FitPart(w, code, part, n)
    BY <1>3, <2>4 DEF FitPart
  <2> DEFINE o == TRUE
  <2>6. w2 = [bits |-> w.bits \o part, overflow |-> o, ts |-> w.ts, vs |-> w.vs]
    BY <2>1
  <2>7. o \in BOOLEAN /\ (o = TRUE <=> (w.overflow = TRUE \/ Len(w.bits) + Len(code) > 8 * n))
    BY <2>2, Zenon
  <2> HIDE DEF o, room, full
  <2>8. IsPut(w, w2, code, n)
    BY <2>4, <2>5, <2>6, <2>7, PutRecord
  <2> QED
    BY <2>8 DEF w2
<1> QED
  BY <1>2, <1>3

(* Two codes, one behind the other, are written as one. *)
LEMMA PutTwice ==
  ASSUME NEW n \in Nat, NEW w \in Compressors(n), NEW a \in Seq(Bit), NEW b \in Seq(Bit),
         NEW w1, IsPut(w, w1, a, n), NEW w2, IsPut(w1, w2, b, n), NEW code, code = a \o b
  PROVE  IsPut(w, w2, code, n)
<1> DEFINE L == Len(w.bits)
           M == Len(w1.bits)
           N == Len(w2.bits)
           A == Len(a)
           B == Len(b)
<1>1. /\ L \in Nat /\ M \in Nat /\ N \in Nat /\ A \in Nat /\ B \in Nat
      /\ L <= 8 * n /\ M <= 8 * n /\ N <= 8 * n
  BY LenProperties DEF Compressors, IsPut
<1>2. /\ Len(code) = A + B
      /\ \A i \in 1 .. A + B : code[i] = IF i <= A THEN a[i] ELSE b[i - A]
  BY ConcatProperties
<1>3. /\ \A i \in 1 .. L : w1.bits[i] = w.bits[i]
      /\ \A i \in 1 .. M : w2.bits[i] = w1.bits[i]
      /\ M = IF L + A <= 8 * n THEN L + A ELSE 8 * n
      /\ N = IF M + B <= 8 * n THEN M + B ELSE 8 * n
      /\ \A i \in 1 .. A : L + i <= M => w1.bits[L + i] = a[i]
      /\ \A i \in 1 .. B : M + i <= N => w2.bits[M + i] = b[i]
      /\ w1.overflow = TRUE <=> (w.overflow = TRUE \/ L + A > 8 * n)
      /\ w2.overflow = TRUE <=> (w1.overflow = TRUE \/ M + B > 8 * n)
      /\ w2.ts = w.ts /\ w2.vs = w.vs /\ w2 \in Compressors(n)
  BY DEF IsPut, Agrees, At
<1> HIDE DEF L, M, N, A, B
<1>4. \A i \in 1 .. L : w2.bits[i] = w.bits[i]
  BY <1>1, <1>3
<1>5. N = IF L + (A + B) <= 8 * n THEN L + (A + B) ELSE 8 * n
  BY <1>1, <1>3
<1>6. w2.overflow = TRUE <=> (w.overflow = TRUE \/ L + (A + B) > 8 * n)
  <2>1. L + A > 8 * n => L + (A + B) > 8 * n
    BY <1>1
  <2>2. ~ (L + A > 8 * n) => (M + B > 8 * n <=> L + (A + B) > 8 * n)
    BY <1>1, <1>3
  <2> QED
    BY <1>3, <2>1, <2>2
<1>7. ASSUME NEW i \in 1 .. A + B, L + i <= N PROVE w2.bits[L + i] = code[i]
  <2>1. CASE i <= A
    <3>1. L + i <= M /\ i \in 1 .. A /\ L + i \in 1 .. M
      BY <1>1, <1>3, <1>7, <2>1
    <3> QED
      BY <1>2, <1>3, <2>1, <3>1
  <2>2. CASE ~ (i <= A)
    <3>1. M = L + A
      BY <1>1, <1>3, <1>7, <2>2
    <3>2. i - A \in 1 .. B /\ M + (i - A) = L + i
      BY <1>1, <1>7, <2>2, <3>1
    <3>3. w2.bits[M + (i - A)] = b[i - A]
      BY <1>3, <1>7, <3>2
    <3> QED
      BY <1>2, <2>2, <3>2, <3>3
  <2> QED
    BY <2>1, <2>2
<1>8. Agrees(At(w2.bits, L), code)
  BY <1>2, <1>7 DEF Agrees, At, N
<1> QED
  BY <1>2, <1>3, <1>4, <1>5, <1>6, <1>8 DEF IsPut, L, N

-----------------------------------------------------------------------------
(* Codes of points. *)
CodecStates == [ts : TsStates, vs : ValStates]

(* The states both codecs may be in after some of the points. *)
RunStates ==
  {s \in CodecStates :
     /\ s.ts.prev_ts \in Times
     /\ \E a \in Times : s.ts.prev_delta = Wrap(s.ts.prev_ts - a)}

StartAt(t0) == [ts |-> TsStart(t0), vs |-> ValStart]

PointCode(s, p) == TsEncode(s.ts, p.ts).bits \o ValEncode(s.vs, p.val).bits

AfterPoint(s, p) == [ts |-> TsEncode(s.ts, p.ts).s, vs |-> ValEncode(s.vs, p.val).s]

(* What is handed in has the types of the codecs. *)
LEMMA TimesAreTimestamps ==
  /\ Times \subseteq Timestamp
  /\ \A x \in Timestamp : x \in Int
  /\ \A p \in Points : p.ts \in Times /\ p.ts \in Timestamp /\ p.val \in Value
<1>1. \A p \in Points : p.ts \in Timestamp /\ p.val \in Value
  BY StreamAssumption
<1>2. BlockTimestamps \subseteq Timestamp
  BY StreamAssumption
<1>3. Times \subseteq Timestamp /\ \A p \in Points : p.ts \in Times
  BY <1>1, <1>2 DEF Times
<1>4. \A x \in Timestamp : x \in Int
  BY WordSize DEF Timestamp, Signed
<1> QED
  BY <1>1, <1>3, <1>4

(* Zero wraps to zero. *)
LEMMA WrapZero == 0 \in Timestamp /\ Wrap(0) = 0
<1> DEFINE H == Pow2[TsBits - 1]
           M == Pow2[TsBits]
<1>1. H \in Nat \ {0} /\ M \in Nat \ {0}
  BY WordSize
<1>2. 0 \in Timestamp
  <2>1. Timestamp = -H .. H - 1
    BY DEF Timestamp, Signed
  <2> HIDE DEF H
  <2> QED
    BY <1>1, <2>1
<1>3. 0 = 0 + M * 0
  <2> HIDE DEF M
  <2> QED
    BY <1>1
<1> QED
  BY <1>2, <1>3, WrapUnique

(* A new compressor is in such a state. *)
LEMMA StartIsRunState ==
  ASSUME NEW t0 \in BlockTimestamps
  PROVE  StartAt(t0) \in RunStates
<1>1. t0 \in Times /\ t0 \in Timestamp /\ t0 - t0 = 0
  BY TimesAreTimestamps DEF Times
<1>2. TsStart(t0) \in TsStates
  BY <1>1, WrapZero DEF TsStart, TsStates
<1>3. TsStart(t0).prev_ts = t0 /\ TsStart(t0).prev_delta = Wrap(t0 - t0)
  BY <1>1, WrapZero DEF TsStart
<1> QED
  BY <1>1, <1>2, <1>3, StartState DEF StartAt, RunStates, CodecStates

(* What a point does to the states, and how many bits it takes.              *)
PointDone(s, p) ==
  /\ AfterPoint(s, p) \in CodecStates
  /\ AfterPoint(s, p).ts.prev_ts = p.ts
  /\ AfterPoint(s, p).vs.prev_bits = p.val
  /\ AfterPoint(s, p).vs.has_value = TRUE
  /\ TsEncode(s.ts, p.ts).bits \in Seq(Bit)
  /\ ValEncode(s.vs, p.val).bits \in Seq(Bit)
  /\ PointCode(s, p) \in Seq(Bit)
  /\ Len(PointCode(s, p)) = Len(TsEncode(s.ts, p.ts).bits) + Len(ValEncode(s.vs, p.val).bits)
  /\ Len(TsEncode(s.ts, p.ts).bits) \in Nat \ {0}
  /\ Len(ValEncode(s.vs, p.val).bits) \in Nat \ {0}
  /\ Len(PointCode(s, p)) \in 2 .. PointBits

(* Every point does. *)
LEMMA PointFacts ==
  ASSUME NEW s \in CodecStates, NEW p \in Points
  PROVE  PointDone(s, p)
<1> DEFINE t == TsEncode(s.ts, p.ts)
           v == ValEncode(s.vs, p.val)
<1>1. s.ts \in TsStates /\ s.vs \in ValStates
  BY DEF CodecStates
<1>2. p.ts \in Times /\ p.ts \in Timestamp /\ p.val \in Value
  BY TimesAreTimestamps
<1>3. /\ Dod(s.ts, p.ts) \in Int /\ t.bits = TsCode(Dod(s.ts, p.ts))
      /\ t.s = [prev_ts |-> p.ts, prev_delta |-> Delta(s.ts, p.ts)] /\ t.s \in TsStates
  BY <1>1, <1>2, TsEncodeFacts, TimesAreTimestamps
<1>4. t.bits \in Seq(Bit) /\ Len(t.bits) \in 1 .. 4 + LastBits
  BY <1>3, TsCodeType
<1>5. /\ v.s \in ValStates /\ v.s.has_value = TRUE /\ v.s.prev_bits = p.val
      /\ v.bits \in Seq(Bit) /\ Len(v.bits) \in 1 .. 13 + Width
  BY <1>1, <1>2, ValEncodeFacts
<1> HIDE DEF t, v
<1>6. AfterPoint(s, p) = [ts |-> t.s, vs |-> v.s] /\ PointCode(s, p) = t.bits \o v.bits
  BY DEF AfterPoint, PointCode, t, v
<1>7. t.s.prev_ts = p.ts
  BY <1>3
<1>8. AfterPoint(s, p) \in CodecStates
  BY <1>3, <1>5, <1>6 DEF CodecStates
<1>9. /\ PointCode(s, p) \in Seq(Bit) /\ Len(PointCode(s, p)) = Len(t.bits) + Len(v.bits)
      /\ Len(PointCode(s, p)) \in 2 .. PointBits
  <2>1. PointCode(s, p) \in Seq(Bit) /\ Len(PointCode(s, p)) = Len(t.bits) + Len(v.bits)
    BY <1>4, <1>5, <1>6, ConcatProperties
  <2> DEFINE i == Len(t.bits)
             j == Len(v.bits)
  <2>2. i \in 1 .. 4 + LastBits /\ j \in 1 .. 13 + Width
    BY <1>4, <1>5
  <2> HIDE DEF i, j
  <2>3. i + j \in 2 .. PointBits
    BY <2>2, Sizes
  <2> QED
    BY <2>1, <2>3 DEF i, j
<1>10. Len(t.bits) \in Nat \ {0} /\ Len(v.bits) \in Nat \ {0}
  BY <1>4, <1>5, Sizes
<1>11. /\ AfterPoint(s, p).ts.prev_ts = p.ts
       /\ AfterPoint(s, p).vs.prev_bits = p.val
       /\ AfterPoint(s, p).vs.has_value = TRUE
  BY <1>5, <1>6, <1>7
<1> QED
  BY <1>4, <1>5, <1>8, <1>9, <1>10, <1>11 DEF PointDone, t, v

(* And leaves such a state. *)
LEMMA RunGoesOn ==
  ASSUME NEW s \in RunStates, NEW p \in Points
  PROVE  /\ s \in CodecStates
         /\ AfterPoint(s, p) \in RunStates
<1>1. s.ts \in TsStates /\ s.ts.prev_ts \in Times /\ s \in CodecStates
  BY DEF RunStates, CodecStates
<1>2. p.ts \in Times /\ p.ts \in Timestamp
  BY TimesAreTimestamps
<1>3. AfterPoint(s, p).ts = [prev_ts |-> p.ts, prev_delta |-> Wrap(p.ts - s.ts.prev_ts)]
  BY <1>1, <1>2, TsEncodeFacts DEF AfterPoint, Delta
<1>4. AfterPoint(s, p) \in CodecStates
  BY <1>1, PointFacts DEF PointDone
<1>5. /\ AfterPoint(s, p).ts.prev_ts = p.ts
      /\ AfterPoint(s, p).ts.prev_delta = Wrap(p.ts - s.ts.prev_ts)
  BY <1>3
<1> QED
  BY <1>1, <1>2, <1>4, <1>5 DEF RunStates

(* A point that is encoded. *)
LEMMA EncodedPuts ==
  ASSUME NEW n \in Nat, n = cap, NEW w \in Compressors(n), NEW s \in CodecStates, NEW p \in Points,
         w.ts = s.ts, w.vs = s.vs
  PROVE  /\ Encoded(w, p).bits \in Seq(Bit)
         /\ Encoded(w, p) \in Compressors(n)
         /\ Encoded(w, p).ts = AfterPoint(s, p).ts
         /\ Encoded(w, p).vs = AfterPoint(s, p).vs
         /\ \E w2 : /\ IsPut(w, w2, PointCode(s, p), n)
                   /\ Encoded(w, p).bits = w2.bits
                   /\ Encoded(w, p).overflow = w2.overflow
<1> DEFINE a == TsEncode(s.ts, p.ts).bits
           b == ValEncode(s.vs, p.val).bits
           code == PointCode(s, p)
           w1 == PutBits(w, a, n)
           w2 == PutBits(w1, b, n)
           next == AfterPoint(s, p)
<1>1. PointDone(s, p)
  BY PointFacts
<1>2. a \in Seq(Bit) /\ b \in Seq(Bit) /\ code = a \o b
  BY <1>1 DEF PointDone, PointCode
<1>3. next.ts \in TsStates /\ next.vs \in ValStates
  BY <1>1 DEF PointDone, CodecStates
<1>4. Encoded(w, p) = [w2 EXCEPT !.ts = next.ts, !.vs = next.vs]
  BY DEF Encoded, AfterPoint
<1> HIDE DEF a, b, code, next
<1>5. IsPut(w, w1, a, n)
  BY <1>2, PutBitsPuts
<1>6. w1 \in Compressors(n)
  BY <1>5 DEF IsPut
<1> HIDE DEF w1
<1>7. IsPut(w1, w2, b, n)
  BY <1>2, <1>6, PutBitsPuts
<1> HIDE DEF w2
<1>8. IsPut(w, w2, code, n) /\ w2 \in Compressors(n)
  <2>1. IsPut(w, w2, code, n)
    BY <1>2, <1>5, <1>7, PutTwice
  <2> QED
    BY <2>1 DEF IsPut
<1>9. Encoded(w, p) = [bits |-> w2.bits, overflow |-> w2.overflow, ts |-> next.ts, vs |-> next.vs]
  BY <1>4, <1>8 DEF Compressors
<1>10. w2.bits \in Seq(Bit) /\ w2.overflow \in BOOLEAN /\ Len(w2.bits) <= 8 * n
  BY <1>8 DEF Compressors
<1>11. Encoded(w, p) \in Compressors(n)
  BY <1>3, <1>9, <1>10 DEF Compressors
<1> QED
  BY <1>8, <1>9, <1>10, <1>11 DEF code, next

-----------------------------------------------------------------------------
(* The stream. *)
(* Where the i-th point ends; the block timestamp ends where the first one   *)
(* begins.                                                                   *)
EndOf(es, i) == IF i = 0 THEN TsBits ELSE es[i]

(* The points ps, where they end, and the states the encoders were in before *)
(* the first and after each of them.                                         *)
Histories(ps, es, st) ==
  /\ ps \in Seq(Points)
  /\ es \in Seq(Nat)
  /\ Len(es) = Len(ps)
  /\ st \in [0 .. Len(ps) -> RunStates]

BlockStart(bits, s) ==
  \E t0 \in BlockTimestamps : s = StartAt(t0) /\ Whole(At(bits, 0), FieldBits(t0, TsBits))

CodeOf(bits, ps, es, st, i) ==
  /\ st[i] = AfterPoint(st[i - 1], ps[i])
  /\ EndOf(es, i) = EndOf(es, i - 1) + Len(PointCode(st[i - 1], ps[i]))
  /\ Whole(At(bits, EndOf(es, i - 1)), PointCode(st[i - 1], ps[i]))

(* The last point ends at e, where the encoders are in state s. *)
InHand(w, e, s) == w.overflow = FALSE /\ w.ts = s.ts /\ w.vs = s.vs /\ Len(w.bits) = e
RanOut(w, e, s) ==
  /\ w.overflow = TRUE
  /\ Len(w.bits) = 8 * cap
  /\ \E p \in Points : Torn(At(w.bits, e), PointCode(s, p))

Written(w, ps, es, st) ==
  /\ w \in Compressors(cap)
  /\ Histories(ps, es, st)
  /\ BlockStart(w.bits, st[0])
  /\ \A i \in 1 .. Len(ps) : CodeOf(w.bits, ps, es, st, i)
  /\ \A i \in 0 .. Len(ps) : EndOf(es, i) <= TsBits + i * PointBits
  /\ InHand(w, EndOf(es, Len(ps)), st[Len(ps)]) \/ RanOut(w, EndOf(es, Len(ps)), st[Len(ps)])

(* Ends are positions in the stream. *)
LEMMA EndsAreNumbers ==
  ASSUME NEW ps, NEW es, NEW st, Histories(ps, es, st)
  PROVE  Len(ps) \in Nat /\ \A i \in 0 .. Len(ps) : EndOf(es, i) \in Nat
<1>1. Len(ps) \in Nat /\ es \in Seq(Nat) /\ Len(es) = Len(ps)
  BY LenProperties DEF Histories
<1>2. ASSUME NEW i \in 0 .. Len(ps) PROVE EndOf(es, i) \in Nat
  <2>1. CASE i = 0
    BY <2>1, Sizes DEF EndOf
  <2>2. CASE i # 0
    <3>1. i \in 1 .. Len(es)
      BY <1>1, <2>2
    <3> QED
      BY <1>1, <2>2, <3>1, ElementOfSeq DEF EndOf
  <2> QED
    BY <2>1, <2>2
<1> QED
  BY <1>1, <1>2

(* Every point takes at least two bits, all of which are in the stream.      *)
LEMMA EndsGrow ==
  ASSUME NEW w, NEW ps, NEW es, NEW st, Written(w, ps, es, st)
  PROVE  /\ \A j \in 0 .. Len(ps) : \A i \in 0 .. j : EndOf(es, i) + 2 * (j - i) <= EndOf(es, j)
         /\ \A i \in 0 .. Len(ps) : EndOf(es, i) <= Len(w.bits)
<1> DEFINE n == Len(ps)
           e == [i \in 0 .. n |-> EndOf(es, i)]
<1>1. n \in Nat /\ e \in [0 .. n -> Nat] /\ Histories(ps, es, st)
  BY EndsAreNumbers DEF Written
<1>2. ASSUME NEW i \in 1 .. n
      PROVE  /\ e[i - 1] + 2 <= e[i]
             /\ e[i] <= Len(w.bits)
  <2>1. i - 1 \in 0 .. n /\ i \in 0 .. n
    BY <1>1
  <2>2. st[i - 1] \in RunStates /\ ps[i] \in Points
    BY <1>1, <2>1, ElementOfSeq DEF Histories
  <2> DEFINE code == PointCode(st[i - 1], ps[i])
  <2>3. Len(code) \in 2 .. PointBits
    BY <2>2, RunGoesOn, PointFacts DEF PointDone
  <2>4. CodeOf(w.bits, ps, es, st, i)
    BY DEF Written
  <2>5. e[i] = e[i - 1] + Len(code) /\ e[i - 1] + Len(code) <= Len(w.bits)
    BY <2>1, <2>4 DEF CodeOf, Whole, At
  <2>6. e[i - 1] \in Nat /\ e[i] \in Nat
    BY <1>1, <2>1
  <2> HIDE DEF e, code
  <2> QED
    BY <2>3, <2>5, <2>6, Sizes
<1>3. e[0] <= Len(w.bits)
  <2>1. PICK t0 \in BlockTimestamps : Whole(At(w.bits, 0), FieldBits(t0, TsBits))
    BY DEF Written, BlockStart
  <2>2. Len(FieldBits(t0, TsBits)) = TsBits
    <3>1. t0 \in Int
      BY StreamAssumption, TimesAreTimestamps
    <3> QED
      BY <3>1, Sizes, FieldType
  <2>3. 0 + TsBits <= Len(w.bits)
    BY <2>1, <2>2 DEF Whole, At
  <2> QED
    BY <1>1, <2>3, Sizes DEF EndOf
<1> HIDE DEF e, n
<1> DEFINE V == {j \in Nat : j <= n => \A i \in 0 .. j : e[i] + 2 * (j - i) <= e[j]}
<1>4. V = Nat
  <2>1. 0 \in V
    <3>1. e[0] \in Nat /\ \A i \in 0 .. 0 : i = 0
      BY <1>1
    <3> QED
      BY <3>1
  <2>2. ASSUME NEW j \in V PROVE j + 1 \in V
    <3> SUFFICES ASSUME j + 1 <= n, NEW i \in 0 .. j + 1
                 PROVE  e[i] + 2 * ((j + 1) - i) <= e[j + 1]
      OBVIOUS
    <3>1. e[i] \in Nat /\ e[j] \in Nat /\ e[j + 1] \in Nat /\ j <= n
      <4>1. i \in 0 .. n /\ j \in 0 .. n /\ j + 1 \in 0 .. n
        BY <1>1
      <4> HIDE DEF V
      <4> QED
        BY <1>1, <4>1
    <3>2. e[j] + 2 <= e[j + 1]
      <4>1. j + 1 \in 1 .. n /\ (j + 1) - 1 = j
        BY <1>1
      <4> QED
        BY <1>2, <4>1
    <3>3. CASE i = j + 1
      BY <3>1, <3>3
    <3>4. CASE i # j + 1
      <4>1. i \in 0 .. j
        BY <3>4
      <4>2. e[i] + 2 * (j - i) <= e[j]
        BY <3>1, <4>1
      <4> QED
        BY <3>1, <3>2, <4>1, <4>2
    <3> QED
      BY <3>3, <3>4
  <2>3. V \in SUBSET Nat
    OBVIOUS
  <2> HIDE DEF V
  <2> QED
    BY <2>1, <2>2, <2>3, SetInduction
<1>5. \A j \in 0 .. n : \A i \in 0 .. j : e[i] + 2 * (j - i) <= e[j]
  <2> SUFFICES ASSUME NEW j \in 0 .. n
               PROVE  \A i \in 0 .. j : e[i] + 2 * (j - i) <= e[j]
    OBVIOUS
  <2>1. j \in Nat /\ j <= n
    BY <1>1
  <2>2. j \in V
    <3> HIDE DEF V
    <3> QED
      BY <1>4, <2>1
  <2> QED
    BY <2>1, <2>2
<1>6. \A i \in 0 .. n : e[i] <= Len(w.bits)
  <2> SUFFICES ASSUME NEW i \in 0 .. n PROVE e[i] <= Len(w.bits)
    OBVIOUS
  <2>1. i = 0 \/ i \in 1 .. n
    BY <1>1
  <2> QED
    BY <1>2, <1>3, <2>1
<1>7. \A i \in 0 .. n : e[i] = EndOf(es, i)
  BY DEF e
<1>8. \A j \in 0 .. n : \A i \in 0 .. j : i \in 0 .. n
  BY <1>1
<1> HIDE DEF n, V
<1>9. /\ \A j \in 0 .. n : \A i \in 0 .. j : EndOf(es, i) + 2 * (j - i) <= EndOf(es, j)
      /\ \A i \in 0 .. n : EndOf(es, i) <= Len(w.bits)
  BY <1>5, <1>6, <1>7, <1>8
<1> QED
  BY <1>9 DEF n

(* Bits that are in a stream stay in it. *)
LEMMA WholeStays ==
  ASSUME NEW b1 \in Seq(Bit), NEW b2 \in Seq(Bit), Len(b1) <= Len(b2),
         \A i \in 1 .. Len(b1) : b2[i] = b1[i],
         NEW pos \in Nat, NEW code \in Seq(Bit), Whole(At(b1, pos), code)
  PROVE  Whole(At(b2, pos), code)
<1>1. Len(b1) \in Nat /\ Len(b2) \in Nat /\ Len(code) \in Nat
  BY LenProperties
<1>2. /\ pos + Len(code) <= Len(b1)
      /\ \A i \in 1 .. Len(code) : pos + i <= Len(b1) => b1[pos + i] = code[i]
  BY DEF Whole, Agrees, At
<1>3. ASSUME NEW i \in 1 .. Len(code) PROVE b2[pos + i] = code[i]
  <2>1. pos + i <= Len(b1) /\ pos + i \in 1 .. Len(b1)
    BY <1>1, <1>2
  <2> QED
    BY <1>2, <2>1
<1>4. pos + Len(code) <= Len(b2)
  BY <1>1, <1>2
<1> QED
  BY <1>3, <1>4 DEF Whole, Agrees, At

(* What was written stays written when bits are added. *)
LEMMA OldCodesStay ==
  ASSUME NEW w, NEW ps, NEW es, NEW st, Written(w, ps, es, st),
         NEW w2 \in Compressors(cap), Len(w.bits) <= Len(w2.bits),
         \A i \in 1 .. Len(w.bits) : w2.bits[i] = w.bits[i]
  PROVE  /\ BlockStart(w2.bits, st[0])
         /\ \A i \in 1 .. Len(ps) : CodeOf(w2.bits, ps, es, st, i)
<1>1. /\ w.bits \in Seq(Bit) /\ w2.bits \in Seq(Bit) /\ Len(ps) \in Nat
      /\ ps \in Seq(Points) /\ st \in [0 .. Len(ps) -> RunStates]
  BY LenProperties DEF Written, Histories, Compressors
<1>2. BlockStart(w2.bits, st[0])
  <2>1. PICK t0 \in BlockTimestamps :
          st[0] = StartAt(t0) /\ Whole(At(w.bits, 0), FieldBits(t0, TsBits))
    BY DEF Written, BlockStart
  <2>2. FieldBits(t0, TsBits) \in Seq(Bit)
    <3>1. t0 \in Int
      BY StreamAssumption, TimesAreTimestamps
    <3> QED
      BY <3>1, Sizes, FieldType
  <2>3. Whole(At(w2.bits, 0), FieldBits(t0, TsBits))
    BY <1>1, <2>1, <2>2, WholeStays
  <2> QED
    BY <2>1, <2>3 DEF BlockStart
<1>3. ASSUME NEW i \in 1 .. Len(ps) PROVE CodeOf(w2.bits, ps, es, st, i)
  <2> DEFINE f == EndOf(es, i - 1)
             k == PointCode(st[i - 1], ps[i])
  <2>1. i - 1 \in 0 .. Len(ps)
    BY <1>1
  <2>2. f \in Nat
    BY <2>1, EndsAreNumbers DEF Written
  <2>3. k \in Seq(Bit)
    <3>1. st[i - 1] \in CodecStates /\ ps[i] \in Points
      BY <1>1, <2>1, RunGoesOn, ElementOfSeq
    <3> QED
      BY <3>1, PointFacts DEF PointDone
  <2>4. CodeOf(w.bits, ps, es, st, i)
    BY DEF Written
  <2>5. Whole(At(w.bits, f), k)
    BY <2>4 DEF CodeOf
  <2> HIDE DEF f, k
  <2>6. Whole(At(w2.bits, f), k)
    BY <1>1, <2>2, <2>3, <2>5, WholeStays
  <2> QED
    BY <2>4, <2>6 DEF CodeOf, f, k
<1> QED
  BY <1>2, <1>3

(* A point that fits, one that does not, and one after that.                 *)
LEMMA EncodeFits ==
  ASSUME NEW n \in Nat, n = cap, NEW w, NEW ps, NEW es, NEW st, Written(w, ps, es, st),
         w.overflow = FALSE, NEW p \in Points, NEW w2, w2 = Encoded(w, p), w2.overflow = FALSE
  PROVE  \E st2 : Written(w2, Append(ps, p), Append(es, Len(w2.bits)), st2)
<1> DEFINE m == Len(ps)
           s == st[m]
           e == EndOf(es, m)
           code == PointCode(s, p)
           qs == Append(ps, p)
           fs == Append(es, Len(w2.bits))
           st2 == [i \in 0 .. m + 1 |-> IF i <= m THEN st[i] ELSE AfterPoint(s, p)]
<1>1. /\ w \in Compressors(n) /\ m \in Nat /\ w.bits \in Seq(Bit) /\ Len(w.bits) \in Nat
      /\ ps \in Seq(Points) /\ es \in Seq(Nat) /\ Len(es) = m /\ st \in [0 .. m -> RunStates]
  BY LenProperties DEF Written, Histories, Compressors
<1>2. InHand(w, e, s)
  BY DEF Written, RanOut
<1>3. s \in RunStates /\ s \in CodecStates
  BY <1>1, RunGoesOn
<1>4. w.ts = s.ts /\ w.vs = s.vs /\ Len(w.bits) = e
  BY <1>2 DEF InHand
<1> HIDE DEF s
<1>5. /\ w2 \in Compressors(n) /\ w2.bits \in Seq(Bit)
      /\ w2.ts = AfterPoint(s, p).ts /\ w2.vs = AfterPoint(s, p).vs
  BY <1>1, <1>3, <1>4, EncodedPuts
<1>6. PICK w3 : IsPut(w, w3, code, n) /\ w2.bits = w3.bits /\ w2.overflow = w3.overflow
  BY <1>1, <1>3, <1>4, EncodedPuts
<1>7. PointDone(s, p) /\ AfterPoint(s, p) \in RunStates
  BY <1>3, PointFacts, RunGoesOn
<1>8. code \in Seq(Bit) /\ Len(code) \in 2 .. PointBits
  BY <1>7 DEF PointDone
<1> HIDE DEF code, e
<1>9. /\ Len(w2.bits) = Len(w.bits) + Len(code)
      /\ \A i \in 1 .. Len(w.bits) : w2.bits[i] = w.bits[i]
      /\ Agrees(At(w2.bits, Len(w.bits)), code)
  <2>1. ~ (Len(w.bits) + Len(code) > 8 * n)
    BY <1>6 DEF IsPut
  <2>2. Len(w.bits) + Len(code) <= 8 * n
    BY <1>1, <1>8, <2>1
  <2> QED
    BY <1>6, <2>2 DEF IsPut
<1>10. Len(w2.bits) = e + Len(code) /\ Len(w2.bits) \in Nat /\ e \in Nat /\ Len(code) \in Nat
  BY <1>1, <1>4, <1>8, <1>9
<1>11. Whole(At(w2.bits, e), code)
  BY <1>4, <1>9, <1>10 DEF Whole, At
<1>12. /\ qs \in Seq(Points) /\ Len(qs) = m + 1 /\ qs[m + 1] = p
       /\ \A i \in 1 .. m : qs[i] = ps[i]
       /\ fs \in Seq(Nat) /\ Len(fs) = m + 1 /\ fs[m + 1] = Len(w2.bits)
       /\ \A i \in 1 .. m : fs[i] = es[i]
  BY <1>1, <1>10, AppendProperties
<1>13. /\ st2 \in [0 .. m + 1 -> RunStates] /\ st2[m + 1] = AfterPoint(s, p)
       /\ \A i \in 0 .. m : st2[i] = st[i]
  BY <1>1, <1>7
<1> HIDE DEF qs, fs, st2
<1>14. /\ EndOf(fs, m + 1) = e + Len(code)
       /\ \A i \in 0 .. m : EndOf(fs, i) = EndOf(es, i)
  BY <1>1, <1>10, <1>12 DEF EndOf
<1>15. Histories(qs, fs, st2)
  BY <1>12, <1>13 DEF Histories
<1>16. BlockStart(w2.bits, st2[0]) /\ \A i \in 1 .. m : CodeOf(w2.bits, ps, es, st, i)
  <2>1. Len(w.bits) <= Len(w2.bits) /\ w2 \in Compressors(cap)
    BY <1>4, <1>5, <1>10
  <2>2. BlockStart(w2.bits, st[0]) /\ \A i \in 1 .. m : CodeOf(w2.bits, ps, es, st, i)
    BY <1>9, <2>1, OldCodesStay
  <2>3. st2[0] = st[0]
    BY <1>1, <1>13
  <2> QED
    BY <2>2, <2>3
<1>17. ASSUME NEW i \in 1 .. m + 1 PROVE CodeOf(w2.bits, qs, fs, st2, i)
  <2>1. CASE i = m + 1
    <3>1. /\ st2[i - 1] = s /\ EndOf(fs, i - 1) = e /\ qs[i] = p /\ st2[i] = AfterPoint(s, p)
          /\ EndOf(fs, i) = e + Len(code)
      <4>1. i - 1 = m /\ m \in 0 .. m
        BY <1>1, <2>1
      <4> QED
        BY <1>12, <1>13, <1>14, <2>1, <4>1 DEF s, e
    <3> QED
      BY <1>11, <3>1 DEF CodeOf, code
  <2>2. CASE i # m + 1
    <3>1. i \in 1 .. m /\ i \in 0 .. m /\ i - 1 \in 0 .. m
      BY <1>1, <2>2
    <3>2. CodeOf(w2.bits, ps, es, st, i)
      BY <1>16, <3>1
    <3>3. /\ st2[i] = st[i] /\ st2[i - 1] = st[i - 1] /\ qs[i] = ps[i]
          /\ EndOf(fs, i) = EndOf(es, i) /\ EndOf(fs, i - 1) = EndOf(es, i - 1)
      BY <1>12, <1>13, <1>14, <3>1
    <3> QED
      BY <3>2, <3>3 DEF CodeOf
  <2> QED
    BY <2>1, <2>2
<1>18. ASSUME NEW i \in 0 .. m + 1 PROVE EndOf(fs, i) <= TsBits + i * PointBits
  <2>1. CASE i = m + 1
    <3>1. e <= TsBits + m * PointBits
      <4>1. m \in 0 .. m
        BY <1>1
      <4> QED
        BY <4>1 DEF Written, e
    <3> DEFINE B == PointBits
               mB == m * B
    <3>2. B \in Nat /\ (m + 1) * B = mB + B /\ mB \in Nat /\ TsBits \in Nat
      <4>1. B \in Nat /\ TsBits \in Nat
        BY Sizes
      <4> HIDE DEF B
      <4> QED
        BY <1>1, <4>1
    <3>3. Len(code) <= B /\ Len(code) \in Nat
      BY <1>8, <3>2
    <3>4. e <= TsBits + mB
      BY <3>1
    <3> HIDE DEF B, mB
    <3>5. e + Len(code) <= TsBits + (mB + B)
      BY <1>10, <3>2, <3>3, <3>4
    <3> QED
      BY <1>14, <2>1, <3>2, <3>5 DEF B
  <2>2. CASE i # m + 1
    <3>1. i \in 0 .. m
      BY <1>1, <2>2
    <3> QED
      BY <1>14, <3>1 DEF Written
  <2> QED
    BY <2>1, <2>2
<1>19. InHand(w2, EndOf(fs, Len(qs)), st2[Len(qs)])
  BY <1>5, <1>10, <1>12, <1>13, <1>14 DEF InHand
<1>20. Written(w2, qs, fs, st2)
  BY <1>5, <1>12, <1>15, <1>16, <1>17, <1>18, <1>19 DEF Written
<1> QED
  BY <1>20 DEF qs, fs

(* The first point that does not fit leaves a torn code and changes no       *)
(* history.                                                                  *)
LEMMA EncodeRunsOut ==
  ASSUME NEW n \in Nat, n = cap, NEW w, NEW ps, NEW es, NEW st, Written(w, ps, es, st),
         w.overflow = FALSE, NEW p \in Points, NEW w2, w2 = Encoded(w, p), w2.overflow = TRUE
  PROVE  Written(w2, ps, es, st)
<1> DEFINE m == Len(ps)
           s == st[m]
           e == EndOf(es, m)
           code == PointCode(s, p)
<1>1. /\ w \in Compressors(n) /\ m \in Nat /\ w.bits \in Seq(Bit) /\ Len(w.bits) \in Nat
      /\ Len(w.bits) <= 8 * n /\ st \in [0 .. m -> RunStates]
  BY LenProperties DEF Written, Histories, Compressors
<1>2. InHand(w, e, s)
  BY DEF Written, RanOut
<1>3. s \in RunStates /\ s \in CodecStates
  BY <1>1, RunGoesOn
<1>4. w.ts = s.ts /\ w.vs = s.vs /\ Len(w.bits) = e
  BY <1>2 DEF InHand
<1> HIDE DEF s
<1>5. w2 \in Compressors(n)
  BY <1>1, <1>3, <1>4, EncodedPuts
<1>6. PICK w3 : IsPut(w, w3, code, n) /\ w2.bits = w3.bits /\ w2.overflow = w3.overflow
  BY <1>1, <1>3, <1>4, EncodedPuts
<1>7. code \in Seq(Bit) /\ Len(code) \in Nat
  BY <1>3, PointFacts, LenProperties DEF PointDone
<1> HIDE DEF code, e
<1>8. Len(w.bits) + Len(code) > 8 * n
  BY <1>6 DEF IsPut
<1>9. /\ Len(w2.bits) = 8 * n
      /\ \A i \in 1 .. Len(w.bits) : w2.bits[i] = w.bits[i]
      /\ Agrees(At(w2.bits, Len(w.bits)), code)
  <2>1. ~ (Len(w.bits) + Len(code) <= 8 * n)
    BY <1>1, <1>7, <1>8
  <2> QED
    BY <1>6, <2>1 DEF IsPut
<1>10. Torn(At(w2.bits, e), code)
  BY <1>4, <1>8, <1>9 DEF Torn, At
<1>11. RanOut(w2, e, s)
  BY <1>9, <1>10 DEF RanOut, code
<1>12. BlockStart(w2.bits, st[0]) /\ \A i \in 1 .. m : CodeOf(w2.bits, ps, es, st, i)
  <2>1. Len(w.bits) <= Len(w2.bits) /\ w2 \in Compressors(cap)
    BY <1>1, <1>5, <1>9
  <2> QED
    BY <1>9, <2>1, OldCodesStay
<1> QED
  BY <1>5, <1>11, <1>12 DEF Written, e, s

Refused(w, w2, ps, es, st) ==
  w2.overflow = TRUE /\ w2.bits = w.bits /\ Written(w2, ps, es, st)

(* Behind it nothing is written any more. *)
LEMMA EncodeRefused ==
  ASSUME NEW n \in Nat, n = cap, NEW w, NEW ps, NEW es, NEW st, Written(w, ps, es, st),
         w.overflow = TRUE, NEW p \in Points, NEW w2, w2 = Encoded(w, p)
  PROVE  Refused(w, w2, ps, es, st)
<1> DEFINE m == Len(ps)
           s == [ts |-> w.ts, vs |-> w.vs]
           code == PointCode(s, p)
<1>1. /\ w \in Compressors(n) /\ m \in Nat /\ w.bits \in Seq(Bit) /\ Len(w.bits) \in Nat
      /\ w.ts \in TsStates /\ w.vs \in ValStates
  BY LenProperties DEF Written, Histories, Compressors
<1>2. RanOut(w, EndOf(es, m), st[m])
  BY DEF Written, InHand
<1>3. s \in CodecStates /\ w.ts = s.ts /\ w.vs = s.vs
  BY <1>1 DEF CodecStates
<1> HIDE DEF s
<1>4. w2 \in Compressors(n) /\ w2.bits \in Seq(Bit)
  BY <1>1, <1>3, EncodedPuts
<1>5. PICK w3 : IsPut(w, w3, code, n) /\ w2.bits = w3.bits /\ w2.overflow = w3.overflow
  BY <1>1, <1>3, EncodedPuts
<1>6. Len(code) \in 2 .. PointBits
  BY <1>3, PointFacts DEF PointDone
<1> HIDE DEF code
<1>7. w2.overflow = TRUE
  BY <1>5 DEF IsPut
<1>8. Len(w2.bits) = Len(w.bits) /\ \A i \in 1 .. Len(w.bits) : w2.bits[i] = w.bits[i]
  <2>1. Len(w.bits) = 8 * n
    BY <1>2 DEF RanOut
  <2>2. ~ (Len(w.bits) + Len(code) <= 8 * n)
    BY <1>1, <1>6, <2>1, Sizes
  <2> QED
    BY <1>5, <2>1, <2>2 DEF IsPut
<1>9. w2.bits = w.bits
  BY <1>1, <1>4, <1>8, SeqEqual
<1>10. Written(w2, ps, es, st)
  BY <1>2, <1>4, <1>7, <1>9 DEF Written, RanOut
<1> QED
  BY <1>7, <1>9, <1>10 DEF Refused

-----------------------------------------------------------------------------
(* The loop of compress_batch. *)
BatchStates(n) == [c : Compressors(n), broke : BOOLEAN, written : Nat, ends : Seq(Nat)]

(* The body of the loop. *)
LEMMA BatchPointType ==
  ASSUME NEW n \in Nat, n = cap, NEW b \in BatchStates(n), NEW p \in Points
  PROVE  BatchPoint(b, p) \in BatchStates(n)
<1> DEFINE w == Encoded(b.c, p)
           s == [ts |-> b.c.ts, vs |-> b.c.vs]
<1>1. b.c \in Compressors(n) /\ b.written \in Nat /\ b.ends \in Seq(Nat)
  BY DEF BatchStates
<1>2. s \in CodecStates /\ b.c.ts = s.ts /\ b.c.vs = s.vs
  BY <1>1 DEF CodecStates, Compressors
<1> HIDE DEF s
<1>3. w \in Compressors(n) /\ w.bits \in Seq(Bit)
  BY <1>1, <1>2, EncodedPuts
<1>4. Len(w.bits) \in Nat
  BY <1>3, LenProperties
<1>5. BatchPoint(b, p) =
        IF b.broke THEN b
        ELSE IF w.overflow THEN [b EXCEPT !.c = w, !.broke = TRUE]
        ELSE [b EXCEPT !.c = w, !.written = @ + 1, !.ends = Append(@, Len(w.bits))]
  BY DEF BatchPoint
<1> HIDE DEF w
<1>6. Append(b.ends, Len(w.bits)) \in Seq(Nat) /\ b.written + 1 \in Nat
  BY <1>1, <1>4, AppendProperties
<1>7. [b EXCEPT !.c = w, !.broke = TRUE] \in BatchStates(n)
  BY <1>3 DEF BatchStates
<1>8. [b EXCEPT !.c = w, !.written = @ + 1, !.ends = Append(@, Len(w.bits))] \in BatchStates(n)
  BY <1>3, <1>6 DEF BatchStates
<1> QED
  BY <1>5, <1>7, <1>8

(* What the loop has done after i of the points ps. *)
BatchDone(b, ps, i) ==
  /\ b \in BatchStates(cap)
  /\ b.written \in 0 .. i
  /\ b.broke = TRUE => b.c.overflow = TRUE
  /\ b.broke = FALSE => b.written = i
  /\ \E st : Written(b.c, accepted \o SubSeq(ps, 1, b.written), b.ends, st)
  /\ c.overflow = TRUE => /\ b.c.overflow = TRUE /\ b.c.bits = c.bits
                         /\ b.ends = ends /\ b.written = 0

(* The points up to k + 1 are those up to k and one more. *)
LEMMA OneMore ==
  ASSUME NEW S, NEW r \in Seq(S), NEW s \in Seq(S), NEW k \in 0 .. Len(s) - 1
  PROVE  r \o SubSeq(s, 1, k + 1) = Append(r \o SubSeq(s, 1, k), s[k + 1])
<1> DEFINE a == SubSeq(s, 1, k)
           b == SubSeq(s, 1, k + 1)
           x == s[k + 1]
<1>1. /\ Len(s) \in Nat /\ k \in 0 .. Len(s) /\ k + 1 \in 0 .. Len(s) /\ k + 1 \in 1 .. Len(s)
      /\ k \in Nat /\ Len(r) \in Nat
  BY LenProperties
<1>2. /\ a \in Seq(S) /\ Len(a) = k /\ \A i \in 1 .. k : a[i] = s[i]
      /\ b \in Seq(S) /\ Len(b) = k + 1 /\ \A i \in 1 .. k + 1 : b[i] = s[i]
  BY <1>1, FirstOf
<1>3. x \in S
  BY <1>1, ElementOfSeq
<1> HIDE DEF a, b
<1> DEFINE u == r \o a
           v == r \o b
<1>4. /\ u \in Seq(S) /\ Len(u) = Len(r) + k
      /\ \A i \in 1 .. Len(r) + k : u[i] = IF i <= Len(r) THEN r[i] ELSE a[i - Len(r)]
      /\ v \in Seq(S) /\ Len(v) = Len(r) + (k + 1)
      /\ \A i \in 1 .. Len(r) + (k + 1) : v[i] = IF i <= Len(r) THEN r[i] ELSE b[i - Len(r)]
  <2>1. /\ r \o a \in Seq(S) /\ Len(r \o a) = Len(r) + Len(a)
        /\ \A i \in 1 .. Len(r) + Len(a) :
             (r \o a)[i] = IF i <= Len(r) THEN r[i] ELSE a[i - Len(r)]
    BY <1>2, ConcatProperties
  <2>2. /\ r \o b \in Seq(S) /\ Len(r \o b) = Len(r) + Len(b)
        /\ \A i \in 1 .. Len(r) + Len(b) :
             (r \o b)[i] = IF i <= Len(r) THEN r[i] ELSE b[i - Len(r)]
    BY <1>2, ConcatProperties
  <2> QED
    BY <1>2, <2>1, <2>2
<1> HIDE DEF u, v, x
<1>5. /\ Append(u, x) \in Seq(S) /\ Len(Append(u, x)) = Len(u) + 1
      /\ \A i \in 1 .. Len(u) : Append(u, x)[i] = u[i]
      /\ Append(u, x)[Len(u) + 1] = x
  <2>1. u \in Seq(S)
    BY <1>4
  <2> QED
    BY <1>3, <2>1, AppendProperties
<1>6. ASSUME NEW i \in 1 .. Len(v) PROVE v[i] = Append(u, x)[i]
  <2>1. Len(v) = Len(r) + (k + 1) /\ Len(u) = Len(r) + k
    BY <1>4
  <2>2. CASE i <= Len(r)
    BY <1>1, <1>4, <1>5, <2>1, <2>2
  <2>3. CASE ~ (i <= Len(r)) /\ i # Len(r) + (k + 1)
    <3>1. i - Len(r) \in 1 .. k /\ i - Len(r) \in 1 .. k + 1 /\ i \in 1 .. Len(r) + k
      BY <1>1, <2>1, <2>3
    <3>2. v[i] = s[i - Len(r)] /\ u[i] = s[i - Len(r)]
      BY <1>2, <1>4, <2>1, <2>3, <3>1
    <3> QED
      BY <1>5, <2>1, <3>1, <3>2
  <2>4. CASE i = Len(r) + (k + 1)
    <3>1. ~ (i <= Len(r)) /\ i - Len(r) = k + 1 /\ i = Len(u) + 1
      BY <1>1, <2>1, <2>4
    <3>2. v[i] = b[k + 1] /\ b[k + 1] = x
      BY <1>1, <1>2, <1>4, <2>1, <3>1 DEF x
    <3> QED
      BY <1>5, <3>1, <3>2
  <2> QED
    BY <1>1, <2>1, <2>2, <2>3, <2>4
<1>7. v = Append(u, x)
  <2>1. Len(v) = Len(Append(u, x)) /\ v \in Seq(S)
    BY <1>1, <1>4, <1>5
  <2> QED
    BY <1>5, <1>6, <2>1, SeqEqual
<1> QED
  BY <1>7 DEF a, b, u, v, x

(* One round of the loop. *)
LEMMA BatchStep ==
  ASSUME NEW n \in Nat, n = cap, accepted \in Seq(Points), NEW ps \in Seq(Points),
         NEW i \in 1 .. Len(ps), NEW b, BatchDone(b, ps, i - 1)
  PROVE  BatchDone(BatchPoint(b, ps[i]), ps, i)
<1> DEFINE p == ps[i]
           k == b.written
           qs == accepted \o SubSeq(ps, 1, k)
           w == Encoded(b.c, p)
           b2 == BatchPoint(b, p)
<1>1. /\ b \in BatchStates(n) /\ k \in 0 .. i - 1 /\ i - 1 \in Nat /\ Len(ps) \in Nat
      /\ b.broke \in BOOLEAN /\ b.c \in Compressors(n) /\ b.c.overflow \in BOOLEAN
  BY LenProperties DEF BatchDone, BatchStates, Compressors
<1>2. p \in Points
  BY ElementOfSeq
<1>3. PICK st : Written(b.c, qs, b.ends, st)
  BY DEF BatchDone
<1>4. b2 \in BatchStates(cap)
  BY <1>1, <1>2, BatchPointType
<1>0. ASSUME b.c.overflow = TRUE PROVE Refused(b.c, w, qs, b.ends, st)
  <2> HIDE DEF p, qs
  <2> QED
    BY <1>0, <1>2, <1>3, EncodeRefused
<1>5. CASE b.broke = TRUE
  <2>1. b2 = b
    BY <1>5 DEF BatchPoint
  <2>2. k \in 0 .. i
    BY <1>1
  <2> QED
    BY <1>5, <2>1, <2>2 DEF BatchDone
<1>6. CASE b.broke = FALSE /\ w.overflow = TRUE
  <2>1. b2 = [b EXCEPT !.c = w, !.broke = TRUE]
    BY <1>6 DEF BatchPoint
  <2>2. b2.c = w /\ b2.broke = TRUE /\ b2.written = k /\ b2.ends = b.ends
    BY <1>1, <2>1 DEF BatchStates
  <2> HIDE DEF w, b2, qs
  <2>3. Written(w, qs, b.ends, st)
    <3>1. CASE b.c.overflow = FALSE
      BY <1>2, <1>3, <1>6, <3>1, EncodeRunsOut DEF w
    <3>2. CASE b.c.overflow = TRUE
      BY <1>0, <3>2 DEF Refused
    <3> QED
      BY <1>1, <3>1, <3>2
  <2>4. ASSUME c.overflow = TRUE PROVE w.bits = c.bits /\ b.ends = ends /\ k = 0
    <3>1. b.c.overflow = TRUE /\ b.c.bits = c.bits /\ b.ends = ends /\ k = 0
      BY <2>4 DEF BatchDone
    <3>2. w.bits = b.c.bits
      BY <1>0, <3>1 DEF Refused
    <3> QED
      BY <3>1, <3>2
  <2>5. k \in 0 .. i
    BY <1>1
  <2>6. \E st2 : Written(b2.c, accepted \o SubSeq(ps, 1, b2.written), b2.ends, st2)
    BY <2>2, <2>3 DEF qs
  <2>7. BatchDone(b2, ps, i)
    BY <1>4, <1>6, <2>2, <2>4, <2>5, <2>6 DEF BatchDone
  <2> QED
    BY <2>7 DEF b2
<1>7. CASE b.broke = FALSE /\ w.overflow = FALSE
  <2>1. b2 = [b EXCEPT !.c = w, !.written = @ + 1, !.ends = Append(@, Len(w.bits))]
    BY <1>7 DEF BatchPoint
  <2>2. /\ b2.c = w /\ b2.broke = FALSE /\ b2.written = k + 1
        /\ b2.ends = Append(b.ends, Len(w.bits))
    BY <1>1, <1>7, <2>1 DEF BatchStates
  <2> HIDE DEF w, b2
  <2>3. k = i - 1
    BY <1>7 DEF BatchDone
  <2>4. b.c.overflow = FALSE
    <3>1. b.c.overflow # TRUE
      BY <1>0, <1>7 DEF Refused
    <3> QED
      BY <1>1, <3>1
  <2>5. \E st2 : Written(w, Append(qs, p), Append(b.ends, Len(w.bits)), st2)
    <3> HIDE DEF qs, p
    <3> QED
      BY <1>2, <1>3, <1>7, <2>4, EncodeFits DEF w
  <2>6. accepted \o SubSeq(ps, 1, k + 1) = Append(qs, p)
    <3>1. k \in 0 .. Len(ps) - 1 /\ k + 1 = i
      BY <1>1, <2>3
    <3> QED
      BY <3>1, OneMore
  <2>7. c.overflow # TRUE
    BY <2>4 DEF BatchDone
  <2>8. k + 1 \in 0 .. i /\ k + 1 = i
    BY <1>1, <2>3
  <2>9. \E st2 : Written(b2.c, accepted \o SubSeq(ps, 1, b2.written), b2.ends, st2)
    BY <2>2, <2>5, <2>6
  <2>10. BatchDone(b2, ps, i)
    BY <1>4, <2>2, <2>7, <2>8, <2>9 DEF BatchDone
  <2> QED
    BY <2>10 DEF b2
<1>8. w.overflow \in BOOLEAN
  <2> DEFINE s == [ts |-> b.c.ts, vs |-> b.c.vs]
  <2>1. s \in CodecStates /\ b.c.ts = s.ts /\ b.c.vs = s.vs
    BY <1>1 DEF CodecStates, Compressors
  <2> HIDE DEF s, w
  <2>2. w \in Compressors(n)
    BY <1>1, <1>2, <2>1, EncodedPuts DEF w
  <2> QED
    BY <2>2 DEF Compressors
<1> QED
  BY <1>1, <1>5, <1>6, <1>7, <1>8

(* The whole loop. *)
LEMMA BatchRuns ==
  ASSUME NEW n \in Nat, n = cap, accepted \in Seq(Points), NEW ps \in Seq(Points),
         NEW st, Written(c, accepted, ends, st)
  PROVE  BatchDone(Batch(ps), ps, Len(ps))
<1> DEFINE m == Len(ps)
           S == BatchStates(n)
           f0 == [c |-> c, broke |-> FALSE, written |-> 0, ends |-> ends]
           step == [i \in 1 .. m |-> [b \in S |-> BatchPoint(b, ps[i])]]
           after == CHOOSE f : f = [i \in 0 .. m |-> IF i = 0 THEN f0 ELSE BatchPoint(f[i - 1], ps[i])]
<1>1. m \in Nat /\ \A i \in 1 .. m : ps[i] \in Points
  BY LenProperties, ElementOfSeq
<1>2. f0 \in S
  <2>1. c \in Compressors(n) /\ ends \in Seq(Nat)
    BY DEF Written, Histories
  <2> QED
    BY <2>1 DEF BatchStates
<1>3. step \in [1 .. m -> [S -> S]]
  <2>1. \A i \in 1 .. m, b \in S : BatchPoint(b, ps[i]) \in S
    BY <1>1, BatchPointType
  <2> HIDE DEF S, m
  <2> QED
    BY <2>1
<1>4. \A i \in 1 .. m, b \in S : step[i][b] = BatchPoint(b, ps[i])
  OBVIOUS
<1> HIDE DEF S, step, m, f0
<1>5. PICK f : Loops(f, f0, step, m, S)
  BY <1>1, <1>2, <1>3, LoopExists
<1>6. /\ f \in [0 .. m -> S] /\ f[0] = f0
      /\ \A i \in 1 .. m : f[i] = BatchPoint(f[i - 1], ps[i])
  <2>1. f \in [0 .. m -> S] /\ f[0] = f0 /\ \A i \in 1 .. m : f[i] = step[i][f[i - 1]]
    BY <1>5 DEF Loops
  <2>2. \A i \in 1 .. m : i - 1 \in 0 .. m
    BY <1>1
  <2> QED
    BY <1>4, <2>1, <2>2
<1>7. f = [i \in 0 .. m |-> IF i = 0 THEN f0 ELSE BatchPoint(f[i - 1], ps[i])]
  <2>1. ASSUME NEW i \in 0 .. m
        PROVE  f[i] = IF i = 0 THEN f0 ELSE BatchPoint(f[i - 1], ps[i])
    <3>1. i = 0 \/ i \in 1 .. m
      BY <1>1
    <3> QED
      BY <1>6, <3>1
  <2> QED
    BY <1>6, <2>1
<1>8. after = [i \in 0 .. m |-> IF i = 0 THEN f0 ELSE BatchPoint(after[i - 1], ps[i])]
  BY <1>7
<1>9. Batch(ps) = after[m]
  BY DEF Batch, m, f0
<1> HIDE DEF after
<1>10. after[0] = f0 /\ \A i \in 1 .. m : after[i] = BatchPoint(after[i - 1], ps[i])
  <2>1. 0 \in 0 .. m /\ \A i \in 1 .. m : i \in 0 .. m /\ i # 0
    BY <1>1
  <2> QED
    BY <1>8, <2>1
<1> DEFINE V == {i \in Nat : i <= m => BatchDone(after[i], ps, i)}
<1>11. V = Nat
  <2>1. 0 \in V
    <3>1. /\ f0 \in BatchStates(cap) /\ f0.c = c /\ f0.broke = FALSE /\ f0.written = 0
          /\ f0.ends = ends
      BY <1>2 DEF f0, S
    <3>2. accepted \o SubSeq(ps, 1, 0) = accepted
      <4>1. SubSeq(ps, 1, 0) = << >>
        OBVIOUS
      <4> QED
        BY <4>1, ConcatEmptySeq
    <3>3. Written(f0.c, accepted \o SubSeq(ps, 1, f0.written), f0.ends, st)
      BY <3>1, <3>2
    <3>4. BatchDone(f0, ps, 0)
      BY <3>1, <3>3 DEF BatchDone
    <3> QED
      BY <1>10, <3>4
  <2>2. ASSUME NEW i \in V PROVE i + 1 \in V
    <3> SUFFICES ASSUME i + 1 <= m PROVE BatchDone(after[i + 1], ps, i + 1)
      OBVIOUS
    <3>1. i + 1 \in 1 .. m /\ (i + 1) - 1 = i /\ i <= m
      BY <1>1
    <3>2. BatchDone(after[i], ps, i)
      BY <3>1
    <3>3. after[i + 1] = BatchPoint(after[i], ps[i + 1])
      BY <1>10, <3>1
    <3> HIDE DEF V
    <3>4. BatchDone(BatchPoint(after[i], ps[i + 1]), ps, i + 1)
      BY <3>1, <3>2, BatchStep DEF m
    <3> QED
      BY <3>3, <3>4
  <2>3. V \in SUBSET Nat
    OBVIOUS
  <2> HIDE DEF V
  <2> QED
    BY <2>1, <2>2, <2>3, SetInduction
<1>12. BatchDone(after[m], ps, m)
  BY <1>1, <1>11
<1> QED
  BY <1>9, <1>12 DEF m

-----------------------------------------------------------------------------
(* The invariant of the compressor. *)
WInv ==
  /\ cap \in Caps
  /\ fill \in Fills
  /\ c_rc \in Statuses \ {"ERR_EOF"}
  /\ c.overflow = TRUE => c_rc # "OK"
  /\ \E st : Written(c, accepted, ends, st)

(* Types that follow from it. *)
LEMMA WInvFacts ==
  ASSUME WInv
  PROVE  /\ cap \in Nat /\ cap >= HeaderBytes
         /\ c \in Compressors(cap) /\ c.overflow \in BOOLEAN
         /\ accepted \in Seq(Points) /\ ends \in Seq(Nat) /\ Len(ends) = Len(accepted)
<1>1. cap \in Nat /\ cap >= HeaderBytes
  BY StreamAssumption DEF WInv
<1>2. PICK st : Written(c, accepted, ends, st)
  BY DEF WInv
<1>3. c \in Compressors(cap)
  BY <1>2 DEF Written
<1> QED
  BY <1>1, <1>2, <1>3 DEF Written, Histories, Compressors

(* What a call leaves, if it leaves the buffer and counts what it wrote. *)
LEMMA WInvNext ==
  ASSUME WInv, cap' = cap, fill' = fill, c_rc' \in Statuses \ {"ERR_EOF"},
         c'.overflow = TRUE => c_rc' # "OK",
         NEW st, Written(c', accepted', ends', st)
  PROVE  WInv'
<1>1. cap \in Caps /\ fill \in Fills
  BY DEF WInv
<1>2. Written(c, accepted, ends, st)'
  BY DEF Written, InHand, RanOut
<1> QED
  BY <1>1, <1>2 DEF WInv, Statuses

(* gorillats_compressor_create writes the block timestamp. *)
LEMMA CreatedWritten ==
  ASSUME NEW t0 \in BlockTimestamps, cap \in Caps
  PROVE  Written(Created(t0), << >>, << >>, [i \in 0 .. 0 |-> StartAt(t0)])
<1> DEFINE w == Created(t0)
           st == [i \in 0 .. 0 |-> StartAt(t0)]
           h == FieldBits(t0, TsBits)
<1>1. StartAt(t0) \in RunStates /\ t0 \in Int /\ cap \in Nat /\ cap >= HeaderBytes
  BY StartIsRunState, TimesAreTimestamps, StreamAssumption
<1>2. h \in Seq(Bit) /\ Len(h) = TsBits
  BY <1>1, Sizes, FieldType
<1>3. StartAt(t0).ts \in TsStates /\ StartAt(t0).vs \in ValStates
  BY <1>1 DEF RunStates, CodecStates
<1>4. w = [bits |-> h, overflow |-> FALSE, ts |-> StartAt(t0).ts, vs |-> StartAt(t0).vs]
  BY DEF Created, StartAt
<1> HIDE DEF h, w
<1>5. Len(h) <= 8 * cap
  BY <1>1, <1>2, Sizes
<1>6. w \in Compressors(cap)
  BY <1>2, <1>3, <1>4, <1>5 DEF Compressors
<1>7. Len(<< >>) = 0 /\ << >> \in Seq(Points) /\ << >> \in Seq(Nat)
  BY EmptySeq
<1>8. st \in [0 .. 0 -> RunStates] /\ st[0] = StartAt(t0)
  BY <1>1
<1> HIDE DEF st
<1>9. Histories(<< >>, << >>, st)
  BY <1>7, <1>8 DEF Histories
<1>10. BlockStart(w.bits, st[0])
  <2>1. Whole(At(w.bits, 0), h)
    <3>1. \A i \in 1 .. Len(h) : h[0 + i] = h[i]
      BY <1>2, Sizes
    <3>2. 0 + Len(h) <= Len(h)
      BY <1>2, Sizes
    <3> QED
      BY <1>4, <3>1, <3>2 DEF Whole, Agrees, At
  <2> QED
    BY <1>8, <2>1 DEF BlockStart, h
<1>11. \A i \in 0 .. 0 : EndOf(<< >>, i) <= TsBits + i * PointBits
  <2>1. \A i \in 0 .. 0 : i = 0
    OBVIOUS
  <2>2. 0 * PointBits = 0
    BY Sizes
  <2> QED
    BY <2>1, <2>2, Sizes DEF EndOf
<1>12. InHand(w, EndOf(<< >>, 0), st[0])
  BY <1>2, <1>4, <1>8 DEF InHand, EndOf
<1>13. Written(w, << >>, << >>, st)
  BY <1>6, <1>7, <1>9, <1>10, <1>11, <1>12 DEF Written
<1> QED
  BY <1>13 DEF w, st

(* The invariant holds of a new compressor. *)
LEMMA WInvInit ==
  ASSUME Init
  PROVE  WInv
<1>1. PICK t0 \in BlockTimestamps : c = Created(t0)
  BY DEF Init
<1>2. Written(c, accepted, ends, [i \in 0 .. 0 |-> StartAt(t0)])
  BY <1>1, CreatedWritten DEF Init
<1>3. c.overflow = FALSE
  BY <1>1 DEF Created
<1> QED
  BY <1>2, <1>3 DEF Init, WInv, Statuses

(* What OverflowIsFinal says of a step. *)
FinalStep ==
  c.overflow = TRUE => /\ c'.overflow = TRUE /\ c'.bits = c.bits
                       /\ ends' = ends
                       /\ c_rc' # "OK"

(* gorillats_compress keeps it. *)
LEMMA CompressKeeps ==
  ASSUME WInv, NEW p \in Points, Compress(p)
  PROVE  WInv' /\ FinalStep
<1> DEFINE w == Encoded(c, p)
<1>1. /\ c' = w /\ c_rc' = Status(c') /\ cap' = cap /\ fill' = fill
      /\ \/ /\ c_rc' = "OK"
            /\ accepted' = Append(accepted, p)
            /\ ends' = Append(ends, Len(c'.bits))
         \/ c_rc' # "OK" /\ accepted' = accepted /\ ends' = ends
  BY DEF Compress
<1>2. PICK st : Written(c, accepted, ends, st)
  BY DEF WInv
<1>3. cap \in Nat /\ c.overflow \in BOOLEAN /\ c \in Compressors(cap)
  BY WInvFacts
<1>4. w.overflow \in BOOLEAN
  <2> DEFINE s == [ts |-> c.ts, vs |-> c.vs]
  <2>1. s \in CodecStates /\ c.ts = s.ts /\ c.vs = s.vs
    BY <1>3 DEF CodecStates, Compressors
  <2> HIDE DEF s, w
  <2>2. w \in Compressors(cap)
    BY <1>3, <2>1, EncodedPuts DEF w
  <2> QED
    BY <2>2 DEF Compressors
<1>5. CASE c.overflow = TRUE
  <2>1. Refused(c, w, accepted, ends, st)
    BY <1>2, <1>3, <1>5, EncodeRefused
  <2> HIDE DEF w
  <2>2. c_rc' = "ERR_OVERFLOW" /\ accepted' = accepted /\ ends' = ends
    BY <1>1, <2>1 DEF Refused, Status
  <2>3. Written(c', accepted', ends', st)
    BY <1>1, <2>1, <2>2 DEF Refused
  <2>4. FinalStep
    BY <1>1, <2>1, <2>2 DEF Refused, FinalStep
  <2> QED
    BY <1>1, <2>2, <2>3, <2>4, WInvNext DEF Statuses
<1>6. CASE c.overflow = FALSE /\ w.overflow = TRUE
  <2>1. Written(w, accepted, ends, st)
    BY <1>2, <1>3, <1>6, EncodeRunsOut
  <2> HIDE DEF w
  <2>2. c_rc' = "ERR_OVERFLOW" /\ accepted' = accepted /\ ends' = ends
    BY <1>1, <1>6 DEF Status
  <2>3. Written(c', accepted', ends', st)
    BY <1>1, <2>1, <2>2
  <2> QED
    BY <1>1, <1>6, <2>2, <2>3, WInvNext DEF Statuses, FinalStep
<1>7. CASE c.overflow = FALSE /\ w.overflow = FALSE
  <2>1. PICK st2 : Written(w, Append(accepted, p), Append(ends, Len(w.bits)), st2)
    BY <1>2, <1>3, <1>7, EncodeFits
  <2> HIDE DEF w
  <2>2. c_rc' = "OK" /\ accepted' = Append(accepted, p) /\ ends' = Append(ends, Len(w.bits))
    BY <1>1, <1>7 DEF Status
  <2>3. Written(c', accepted', ends', st2)
    BY <1>1, <2>1, <2>2
  <2>4. c'.overflow = TRUE => c_rc' # "OK"
    BY <1>1, <1>7
  <2> QED
    BY <1>1, <1>7, <2>2, <2>3, <2>4, WInvNext DEF Statuses, FinalStep
<1> QED
  BY <1>3, <1>4, <1>5, <1>6, <1>7

(* gorillats_compress_batch keeps it. *)
LEMMA BatchKeeps ==
  ASSUME WInv, NEW ps \in Seq(Points), CompressBatch(ps)
  PROVE  WInv' /\ FinalStep
<1> DEFINE b == Batch(ps)
<1>1. /\ c' = b.c /\ c_rc' = Status(c') /\ cap' = cap /\ fill' = fill
      /\ accepted' = accepted \o SubSeq(ps, 1, b.written) /\ ends' = b.ends
  BY DEF CompressBatch
<1>2. PICK st : Written(c, accepted, ends, st)
  BY DEF WInv
<1>3. cap \in Nat /\ accepted \in Seq(Points) /\ c.overflow \in BOOLEAN
  BY WInvFacts
<1>4. BatchDone(b, ps, Len(ps))
  BY <1>2, <1>3, BatchRuns
<1> HIDE DEF b
<1>5. PICK st2 : Written(c', accepted', ends', st2)
  BY <1>1, <1>4 DEF BatchDone
<1>6. c'.overflow \in BOOLEAN
  BY <1>1, <1>4 DEF BatchDone, BatchStates, Compressors
<1>7. c_rc' = IF c'.overflow THEN "ERR_OVERFLOW" ELSE "OK"
  BY <1>1 DEF Status
<1>8. c_rc' \in Statuses \ {"ERR_EOF"} /\ (c'.overflow = TRUE => c_rc' # "OK")
  BY <1>6, <1>7 DEF Statuses
<1>9. FinalStep
  <2> SUFFICES ASSUME c.overflow = TRUE
               PROVE  c'.overflow = TRUE /\ c'.bits = c.bits /\ ends' = ends
    BY <1>8 DEF FinalStep
  <2>1. b.c.overflow = TRUE /\ b.c.bits = c.bits /\ b.ends = ends
    BY <1>4 DEF BatchDone
  <2> QED
    BY <1>1, <2>1
<1> QED
  BY <1>1, <1>5, <1>8, <1>9, WInvNext

(* So does a call that leaves the compressor alone, or is refused. *)
LEMMA SameWriterKeeps ==
  ASSUME WInv, UNCHANGED <<c, cap, fill, accepted, ends>>,
         c_rc' = c_rc \/ c_rc' = "ERR_ARG"
  PROVE  WInv' /\ FinalStep
<1>1. PICK st : Written(c, accepted, ends, st)
  BY DEF WInv
<1>2. c_rc' \in Statuses \ {"ERR_EOF"} /\ (c'.overflow = TRUE => c_rc' # "OK")
  BY DEF WInv, Statuses
<1>3. Written(c', accepted', ends', st)
  BY <1>1
<1>4. WInv'
  BY <1>2, <1>3, WInvNext
<1> QED
  BY <1>2, <1>4 DEF FinalStep

(* Every step keeps it. *)
LEMMA WInvKept ==
  ASSUME WInv, [Next]_vars
  PROVE  WInv' /\ FinalStep
<1>1. ASSUME NEW p \in Points, Compress(p) PROVE WInv' /\ FinalStep
  BY <1>1, CompressKeeps
<1>2. ASSUME NEW n \in 0 .. MaxBatch, NEW ps \in [1 .. n -> Points], CompressBatch(ps)
      PROVE  WInv' /\ FinalStep
  <2>1. n \in Nat
    BY StreamAssumption
  <2>2. ps \in Seq(Points)
    BY <2>1
  <2> QED
    BY <1>2, <2>2, BatchKeeps
<1>3. ASSUME UNCHANGED writer PROVE WInv' /\ FinalStep
  BY <1>3, SameWriterKeeps DEF writer
<1>4. CASE CompressRefused
  BY <1>4, SameWriterKeeps DEF CompressRefused
<1>5. CASE UNCHANGED vars
  BY <1>3, <1>5 DEF vars
<1>6. ASSUME NEW len \in 0 .. cap, Open(len) PROVE UNCHANGED writer
  BY <1>6 DEF Open
<1>7. ASSUME DecompressNext \/ (\E n \in 0 .. MaxBatch : DecompressBatch(n))
              \/ DecompressRefused \/ Close
      PROVE UNCHANGED writer
  BY <1>7 DEF DecompressNext, DecompressBatch, Take, DecompressRefused, Close
<1> QED
  BY <1>1, <1>2, <1>3, <1>4, <1>5, <1>6, <1>7 DEF Next

(* The inductive invariant of the compressor: whatever calls came before,    *)
(* its bits are the codes of the points it has counted, each of which ends   *)
(* where ends says, and they end there too or in the middle of the next one. *)
THEOREM WriterInvariance == Spec => []WInv
<1>1. Init => WInv
  BY WInvInit
<1>2. WInv /\ [Next]_vars => WInv'
  BY WInvKept
<1> QED
  BY <1>1, <1>2, PTL DEF Spec

(* Once gt_put_bit has met the end of the buffer no call writes, counts or   *)
(* succeeds, not even an empty batch, for buffers and points of any size.    *)
THEOREM FullStaysFull == Spec => OverflowIsFinal
<1>1. WInv /\ [Next]_vars
        => [c.overflow => /\ c'.overflow /\ c'.bits = c.bits
                          /\ ends' = ends
                          /\ c_rc' # "OK"]_vars
  <2> SUFFICES ASSUME WInv, [Next]_vars, c.overflow
               PROVE  c'.overflow /\ c'.bits = c.bits /\ ends' = ends /\ c_rc' # "OK"
    OBVIOUS
  <2>1. FinalStep
    BY WInvKept
  <2>2. c.overflow = TRUE
    BY WInvFacts
  <2> QED
    BY <2>1, <2>2 DEF FinalStep
<1> QED
  BY <1>1, WriterInvariance, PTL DEF Spec, OverflowIsFinal

(* A caller that reserves PointBits for every point, as compress_arrays of   *)
(* the Python binding does, never meets an overflow.                         *)
THEOREM ReservedIsEnough == Spec => []EnoughRoom
<1>1. ASSUME WInv PROVE EnoughRoom
  <2> SUFFICES ASSUME c.overflow
               PROVE  TsBits + (Len(accepted) + 1) * PointBits > 8 * cap
    BY DEF EnoughRoom
  <2>1. PICK st : Written(c, accepted, ends, st)
    BY <1>1 DEF WInv
  <2> DEFINE m == Len(accepted)
             e == EndOf(ends, m)
             rooms == m * PointBits
             more == (m + 1) * PointBits
  <2>2. c.overflow = TRUE /\ cap \in Nat
    BY <1>1, WInvFacts
  <2>3. RanOut(c, e, st[m])
    BY <2>1, <2>2 DEF Written, InHand
  <2>4. PICK p \in Points : Torn(At(c.bits, e), PointCode(st[m], p))
    BY <2>3 DEF RanOut
  <2>5. m \in Nat /\ e \in Nat /\ st[m] \in RunStates
    BY <2>1, EndsAreNumbers DEF Written, Histories
  <2>6. Len(PointCode(st[m], p)) \in 2 .. PointBits
    BY <2>5, RunGoesOn, PointFacts DEF PointDone
  <2>7. e + Len(PointCode(st[m], p)) > 8 * cap
    BY <2>3, <2>4 DEF RanOut, Torn, At
  <2>8. e <= TsBits + m * PointBits
    BY <2>1, <2>5 DEF Written
  <2>9. rooms \in Int /\ more = rooms + PointBits
    <3> HIDE DEF m
    <3> QED
      BY <2>5, Sizes
  <2> DEFINE k == Len(PointCode(st[m], p))
  <2>10. k \in Nat /\ k <= PointBits /\ e + k > 8 * cap /\ e <= TsBits + rooms
    BY <2>6, <2>7, <2>8, Sizes
  <2> HIDE DEF k, e, rooms, more
  <2>11. TsBits + more > 8 * cap
    BY <2>2, <2>5, <2>9, <2>10, Sizes
  <2> QED
    BY <2>11 DEF more, m
<1> QED
  BY <1>1, WriterInvariance, PTL

-----------------------------------------------------------------------------
(* Reading. *)
Pairs    == [ts : Timestamp, val : Words]
Decoders == [r : Readers, ts : TsStates, vs : LooseStates]
Results  == [rc : {"OK", "ERR_EOF"}, d : Decoders, out : Seq(Pairs)]

(* What decompress_next does, whatever it meets: a point, or the end. *)
FetchedOne(s, f) ==
  /\ f.rc = "OK"
  /\ s.d.r.eof = FALSE /\ f.d.r.eof = FALSE
  /\ f.d.r.pos >= s.d.r.pos + 2
  /\ f.out = Append(s.out, [ts |-> f.d.ts.prev_ts, val |-> f.d.vs.prev_bits])
  /\ f.d.ts.prev_ts = Wrap(s.d.ts.prev_ts + f.d.ts.prev_delta)

FetchedNone(s, f) ==
  /\ f.rc = "ERR_EOF"
  /\ f.d.r.eof = TRUE
  /\ f.out = s.out

FetchDone(s, f) ==
  /\ f \in Results
  /\ f.d.r.buf = s.d.r.buf
  /\ f.d.r.pos >= s.d.r.pos
  /\ FetchedOne(s, f) \/ FetchedNone(s, f)

(* gorillats_decompress_next on any bits: a point or the end, always further *)
(* on in the buffer.                                                         *)
LEMMA FetchAny ==
  ASSUME NEW s \in Results, s.rc = "OK"
  PROVE  FetchDone(s, Fetched(s))
<1> DEFINE t == TsDecode(s.d.r, s.d.ts)
           v == ValDecode(t.r, s.d.vs)
           f == Fetched(s)
           more == Append(s.out, [ts |-> t.out, val |-> v.out])
<1>1. /\ s.d.r \in Readers /\ s.d.ts \in TsStates /\ s.d.vs \in LooseStates
      /\ s.d \in Decoders /\ s.out \in Seq(Pairs)
  BY DEF Results, Decoders
<1>2. f = IF t.rc # "OK" THEN [s EXCEPT !.rc = t.rc, !.d.r = t.r, !.d.ts = t.s]
          ELSE IF v.rc # "OK" THEN [s EXCEPT !.rc = v.rc, !.d = [r |-> v.r, ts |-> t.s, vs |-> v.s]]
          ELSE [rc |-> "OK", d |-> [r |-> v.r, ts |-> t.s, vs |-> v.s], out |-> more]
  BY DEF Fetched
<1>3. TsResult(t, s.d.r, s.d.ts)
  BY <1>1, TsDecodeAny
<1> HIDE DEF t
<1>4. Moved(s.d.r, t.r, 1) /\ t.r \in Readers /\ t.s \in TsStates
  BY <1>3 DEF TsResult, Moved
<1>5. ValResult(v, t.r)
  BY <1>1, <1>4, ValDecodeAny
<1> HIDE DEF v
<1>6. Moved(t.r, v.r, 1) /\ v.r \in Readers /\ v.s \in LooseStates
  BY <1>5 DEF ValResult, Moved
<1>7. /\ s.d.r.pos \in Nat /\ t.r.pos \in Nat /\ v.r.pos \in Nat
      /\ s.d.r.eof \in BOOLEAN /\ t.r.eof \in BOOLEAN
  BY <1>1, <1>4, <1>6 DEF Readers
<1> HIDE DEF f
<1>8. CASE t.rc = "ERR_EOF"
  <2>1. f = [s EXCEPT !.rc = t.rc, !.d.r = t.r, !.d.ts = t.s]
    BY <1>2, <1>8
  <2>2. f = [rc |-> "ERR_EOF", d |-> [r |-> t.r, ts |-> t.s, vs |-> s.d.vs], out |-> s.out]
    BY <1>8, <2>1 DEF Results, Decoders
  <2>3. f.rc = "ERR_EOF" /\ f.d.r = t.r /\ f.out = s.out /\ f \in Results
    BY <1>1, <1>4, <2>2 DEF Results, Decoders
  <2>4. t.r.eof = TRUE
    BY <1>3, <1>8 DEF TsResult
  <2>5. t.r.buf = s.d.r.buf /\ t.r.pos >= s.d.r.pos
    BY <1>4 DEF Moved
  <2>6. FetchDone(s, f)
    BY <2>3, <2>4, <2>5 DEF FetchDone, FetchedNone
  <2> QED
    BY <2>6 DEF f
<1>9. CASE t.rc = "OK" /\ v.rc = "ERR_EOF"
  <2>1. f = [s EXCEPT !.rc = v.rc, !.d = [r |-> v.r, ts |-> t.s, vs |-> v.s]]
    BY <1>2, <1>9
  <2>2. f = [rc |-> "ERR_EOF", d |-> [r |-> v.r, ts |-> t.s, vs |-> v.s], out |-> s.out]
    BY <1>9, <2>1 DEF Results
  <2>3. f.rc = "ERR_EOF" /\ f.d.r = v.r /\ f.out = s.out /\ f \in Results
    BY <1>1, <1>4, <1>6, <2>2 DEF Results, Decoders
  <2>4. v.r.eof = TRUE
    BY <1>5, <1>9 DEF ValResult
  <2>5. v.r.buf = s.d.r.buf
    BY <1>4, <1>6 DEF Moved
  <2>6. v.r.pos >= s.d.r.pos
    <3>1. v.r.pos >= t.r.pos /\ t.r.pos >= s.d.r.pos
      BY <1>4, <1>6 DEF Moved
    <3> QED
      BY <1>7, <3>1
  <2>7. FetchDone(s, f)
    BY <2>3, <2>4, <2>5, <2>6 DEF FetchDone, FetchedNone
  <2> QED
    BY <2>7 DEF f
<1>10. CASE t.rc = "OK" /\ v.rc = "OK"
  <2>1. f = [rc |-> "OK", d |-> [r |-> v.r, ts |-> t.s, vs |-> v.s], out |-> more]
    BY <1>2, <1>10
  <2>2. t.r.eof = FALSE /\ v.r.eof = FALSE /\ s.d.r.eof = FALSE
    <3>1. t.r.eof = FALSE /\ v.r.eof = FALSE
      BY <1>3, <1>5, <1>10 DEF TsResult, ValResult
    <3> QED
      BY <1>4, <1>7, <3>1 DEF Moved
  <2>3. t.out = t.s.prev_ts /\ v.out = v.s.prev_bits
    BY <1>3, <1>5, <1>10 DEF TsResult, ValResult
  <2>4. t.s.prev_ts = Wrap(s.d.ts.prev_ts + t.s.prev_delta)
    BY <1>3, <1>10 DEF TsResult
  <2>5. more \in Seq(Pairs)
    <3>1. t.s.prev_ts \in Timestamp /\ v.s.prev_bits \in Words
      BY <1>4, <1>6 DEF TsStates, LooseStates
    <3>2. [ts |-> t.out, val |-> v.out] \in Pairs
      BY <2>3, <3>1 DEF Pairs
    <3> QED
      BY <1>1, <3>2, AppendProperties
  <2>6. /\ f.rc = "OK" /\ f.d.r = v.r /\ f.d.ts = t.s /\ f.d.vs = v.s /\ f.out = more
        /\ f \in Results
    BY <1>4, <1>6, <2>1, <2>5 DEF Results, Decoders
  <2>7. v.r.buf = s.d.r.buf
    BY <1>4, <1>6 DEF Moved
  <2>8. v.r.pos >= s.d.r.pos + 2 /\ v.r.pos >= s.d.r.pos
    <3>1. v.r.pos >= t.r.pos + 1 /\ t.r.pos >= s.d.r.pos + 1
      BY <1>4, <1>6, <2>2 DEF Moved
    <3> QED
      BY <1>7, <3>1
  <2>9. FetchedOne(s, f)
    BY <2>2, <2>3, <2>4, <2>6, <2>8 DEF FetchedOne
  <2>10. FetchDone(s, f)
    BY <2>6, <2>7, <2>8, <2>9 DEF FetchDone
  <2> QED
    BY <2>10 DEF f
<1>11. t.rc \in {"OK", "ERR_EOF"} /\ v.rc \in {"OK", "ERR_EOF"}
  BY <1>3, <1>5 DEF TsResult, ValResult
<1> QED
  BY <1>8, <1>9, <1>10, <1>11

(* The code of a timestamp and of a value: what was encoded is decoded. *)
FetchedCode(s, f, v, x) ==
  /\ f.rc = "OK"
  /\ f.d.r = Behind(s.d.r, Len(TsCode(v) \o ValEncode(s.d.vs, x).bits))
  /\ f.d.ts = AfterField(s.d.ts, FieldValue(v))
  /\ f.d.vs = ValEncode(s.d.vs, x).s

(* On the code of a point: the point. *)
LEMMA FetchWhole ==
  ASSUME NEW s \in Results, s.d.r.eof = FALSE, s.d.vs \in ValStates,
         NEW v \in Int, NEW x \in Value,
         Whole(s.d.r, TsCode(v) \o ValEncode(s.d.vs, x).bits)
  PROVE  FetchedCode(s, Fetched(s), v, x)
<1> DEFINE a == TsCode(v)
           b == ValEncode(s.d.vs, x).bits
           code == a \o b
           t == TsDecode(s.d.r, s.d.ts)
           q == Behind(s.d.r, Len(a))
           y == ValDecode(t.r, s.d.vs)
           f == Fetched(s)
<1>1. s.d.r \in Readers /\ s.d.ts \in TsStates
  BY DEF Results, Decoders
<1>2. a \in Seq(Bit) /\ b \in Seq(Bit)
  BY TsCodeType, ValEncodeFacts
<1>3. Parts(s.d.r, a, b)
  <2> HIDE DEF a, b
  <2> QED
    BY <1>1, <1>2, WholeParts DEF a, b
<1>4. Whole(s.d.r, a) /\ q \in Readers /\ Whole(q, b) /\ q.eof = FALSE
  <2> HIDE DEF a, b
  <2>1. Whole(s.d.r, a) /\ q \in Readers /\ Whole(q, b)
    BY <1>3 DEF Parts
  <2>2. q.eof = FALSE
    BY DEF Behind
  <2> QED
    BY <2>1, <2>2
<1>5. t = Decoded(q, AfterField(s.d.ts, FieldValue(v)), AfterField(s.d.ts, FieldValue(v)).prev_ts)
  <2>1. t = Decoded([buf |-> s.d.r.buf, pos |-> s.d.r.pos + Len(a), eof |-> FALSE],
                    AfterField(s.d.ts, FieldValue(v)), AfterField(s.d.ts, FieldValue(v)).prev_ts)
    BY <1>1, <1>4, TsDecodeWhole
  <2>2. q = [buf |-> s.d.r.buf, pos |-> s.d.r.pos + Len(a), eof |-> FALSE]
    BY DEF Behind
  <2> HIDE DEF t, q, a
  <2> QED
    BY <2>1, <2>2
<1> HIDE DEF t
<1>6. t.rc = "OK" /\ t.r = q /\ t.s = AfterField(s.d.ts, FieldValue(v))
  BY <1>5 DEF Decoded
<1> HIDE DEF q
<1>7. y = Decoded(Behind(q, Len(b)), ValEncode(s.d.vs, x).s, x)
  BY <1>4, <1>6, ValDecodeWhole
<1>8. y.rc = "OK" /\ y.r = Behind(q, Len(b)) /\ y.s = ValEncode(s.d.vs, x).s
  BY <1>7 DEF Decoded
<1>9. f = [rc |-> "OK", d |-> [r |-> y.r, ts |-> t.s, vs |-> y.s],
           out |-> Append(s.out, [ts |-> t.out, val |-> y.out])]
  <2>1. t.rc = "OK" /\ y.rc = "OK"
    BY <1>6, <1>8
  <2> QED
    BY <2>1 DEF Fetched, t
<1> HIDE DEF f, y
<1>10. f.rc = "OK" /\ f.d.r = y.r /\ f.d.ts = t.s /\ f.d.vs = y.s
  BY <1>9
<1>11. Behind(q, Len(b)) = Behind(s.d.r, Len(code))
  <2>1. Len(code) = Len(a) + Len(b) /\ Len(a) \in Nat /\ Len(b) \in Nat
    BY <1>2, ConcatProperties, LenProperties
  <2>2. s.d.r.pos \in Nat
    BY <1>1 DEF Readers
  <2> DEFINE i == Len(a)
             j == Len(b)
             k == Len(code)
             p == s.d.r.pos
  <2> HIDE DEF i, j, k, p
  <2>3. (p + i) + j = p + k
    BY <2>1, <2>2 DEF i, j, k, p
  <2> QED
    BY <2>3 DEF Behind, q, i, j, k, p
<1> HIDE DEF code
<1>12. f.d.r = Behind(s.d.r, Len(code))
  BY <1>8, <1>10, <1>11
<1>13. FetchedCode(s, f, v, x)
  BY <1>6, <1>8, <1>10, <1>12 DEF FetchedCode, code
<1> QED
  BY <1>13 DEF f

(* On a torn one: the end, and a window that an encoder may write.           *)
LEMMA FetchTorn ==
  ASSUME NEW s \in Results, s.rc = "OK", s.d.vs \in ValStates,
         NEW v \in Int, NEW x \in Value,
         Torn(s.d.r, TsCode(v) \o ValEncode(s.d.vs, x).bits)
  PROVE  Fetched(s).rc = "ERR_EOF" /\ Fetched(s).d.vs \in ValStates
<1> DEFINE a == TsCode(v)
           b == ValEncode(s.d.vs, x).bits
           t == TsDecode(s.d.r, s.d.ts)
           y == ValDecode(t.r, s.d.vs)
           q == Behind(s.d.r, Len(a))
<1>1. s.d.r \in Readers /\ s.d.ts \in TsStates /\ s.d.r.eof \in BOOLEAN
  BY DEF Results, Decoders, Readers
<1>2. a \in Seq(Bit) /\ b \in Seq(Bit)
  BY TsCodeType, ValEncodeFacts
<1>3. TornIn(s.d.r, a, b)
  <2> HIDE DEF a, b
  <2> QED
    BY <1>1, <1>2, TornParts DEF a, b
<1>4. t.rc = "ERR_EOF" \/ (t.rc = "OK" /\ y.rc = "ERR_EOF" /\ y.s \in ValStates)
  <2>1. CASE s.d.r.eof \/ Torn(s.d.r, a)
    BY <1>1, <2>1, TsDecodeTorn
  <2>2. CASE s.d.r.eof = FALSE /\ Whole(s.d.r, a) /\ q \in Readers /\ Torn(q, b)
    <3>1. t = Decoded(q, AfterField(s.d.ts, FieldValue(v)), AfterField(s.d.ts, FieldValue(v)).prev_ts)
      <4>1. t = Decoded([buf |-> s.d.r.buf, pos |-> s.d.r.pos + Len(a), eof |-> FALSE],
                        AfterField(s.d.ts, FieldValue(v)), AfterField(s.d.ts, FieldValue(v)).prev_ts)
        BY <1>1, <2>2, TsDecodeWhole
      <4>2. q = [buf |-> s.d.r.buf, pos |-> s.d.r.pos + Len(a), eof |-> FALSE]
        BY <2>2 DEF Behind
      <4> HIDE DEF t, q, a
      <4> QED
        BY <4>1, <4>2
    <3>2. t.rc = "OK" /\ t.r = q
      BY <3>1 DEF Decoded
    <3> HIDE DEF q
    <3>3. y.rc = "ERR_EOF" /\ y.s \in ValStates
      BY <2>2, <3>2, ValDecodeTorn DEF TornResult
    <3> QED
      BY <3>2, <3>3
  <2> HIDE DEF a, b
  <2>3. Torn(s.d.r, a) \/ (Whole(s.d.r, a) /\ q \in Readers /\ Torn(q, b))
    BY <1>3 DEF TornIn
  <2> QED
    BY <1>1, <2>1, <2>2, <2>3
<1> HIDE DEF t, y
<1>5. Fetched(s) = IF t.rc # "OK" THEN [s EXCEPT !.rc = t.rc, !.d.r = t.r, !.d.ts = t.s]
          ELSE IF y.rc # "OK" THEN [s EXCEPT !.rc = y.rc, !.d = [r |-> y.r, ts |-> t.s, vs |-> y.s]]
          ELSE [rc |-> "OK", d |-> [r |-> y.r, ts |-> t.s, vs |-> y.s],
                out |-> Append(s.out, [ts |-> t.out, val |-> y.out])]
  BY DEF Fetched, t, y
<1>6. CASE t.rc = "ERR_EOF"
  <2>1. Fetched(s) = [s EXCEPT !.rc = t.rc, !.d.r = t.r, !.d.ts = t.s]
    BY <1>5, <1>6
  <2>2. Fetched(s) = [rc |-> t.rc, d |-> [r |-> t.r, ts |-> t.s, vs |-> s.d.vs], out |-> s.out]
    BY <2>1 DEF Results, Decoders
  <2> QED
    BY <1>6, <2>2
<1>7. CASE t.rc = "OK" /\ y.rc = "ERR_EOF" /\ y.s \in ValStates
  <2>1. Fetched(s) = [s EXCEPT !.rc = y.rc, !.d = [r |-> y.r, ts |-> t.s, vs |-> y.s]]
    BY <1>5, <1>7
  <2> QED
    BY <1>7, <2>1 DEF Results
<1> QED
  BY <1>4, <1>6, <1>7

(* Behind the end: the end again, and the values are not looked at.          *)
LEMMA FetchAtEnd ==
  ASSUME NEW s \in Results, s.d.r.eof = TRUE
  PROVE  Fetched(s).d.vs = s.d.vs
<1> DEFINE t == TsDecode(s.d.r, s.d.ts)
           y == ValDecode(t.r, s.d.vs)
<1>1. s.d.r \in Readers /\ s.d.ts \in TsStates
  BY DEF Results, Decoders
<1>2. TsResult(t, s.d.r, s.d.ts)
  BY <1>1, TsDecodeAny
<1> HIDE DEF t, y
<1>3. t.r.eof = TRUE
  BY <1>2 DEF TsResult, Moved
<1>4. t.rc = "ERR_EOF"
  BY <1>2, <1>3 DEF TsResult
<1>5. Fetched(s) = IF t.rc # "OK" THEN [s EXCEPT !.rc = t.rc, !.d.r = t.r, !.d.ts = t.s]
          ELSE IF y.rc # "OK" THEN [s EXCEPT !.rc = y.rc, !.d = [r |-> y.r, ts |-> t.s, vs |-> y.s]]
          ELSE [rc |-> "OK", d |-> [r |-> y.r, ts |-> t.s, vs |-> y.s],
                out |-> Append(s.out, [ts |-> t.out, val |-> y.out])]
  BY DEF Fetched, t, y
<1>6. Fetched(s) = [s EXCEPT !.rc = t.rc, !.d.r = t.r, !.d.ts = t.s]
  BY <1>4, <1>5
<1>7. Fetched(s) = [rc |-> t.rc, d |-> [r |-> t.r, ts |-> t.s, vs |-> s.d.vs], out |-> s.out]
  BY <1>6 DEF Results, Decoders
<1> QED
  BY <1>7

-----------------------------------------------------------------------------
(* What a decompressor is opened on. *)
IsCut ==
  \/ source.given < source.finish
  \/ source.torn = TRUE /\ source.given = source.finish
IsWhole == source.torn = FALSE /\ source.given = source.finish
IsLong  == source.torn = FALSE /\ source.given > source.finish

(* The bits it was given: those of the stream, and behind them zeros to the  *)
(* end of the last byte.                                                     *)
GivenBits(buf) ==
  /\ buf \in Seq(Bit) /\ Len(buf) = 8 * source.given
  /\ \A i \in 1 .. Len(buf) : i <= Len(c.bits) => buf[i] = c.bits[i]
  /\ source.given < source.finish => Len(buf) < Len(c.bits)
  /\ source.given >= source.finish => Len(buf) >= Len(c.bits)
  /\ source.given = source.finish =>
       /\ Len(buf) <= Len(c.bits) + 7
       /\ \A i \in 1 .. Len(buf) : i > Len(c.bits) => buf[i] = 0

OpenedWith(buf) ==
  /\ source.given \in Nat /\ source.given >= HeaderBytes
  /\ source.finish \in Nat
  /\ source.torn \in BOOLEAN /\ source.torn = c.overflow
  /\ source.torn = TRUE => source.given <= source.finish /\ 8 * source.given <= Len(c.bits)
  /\ source.points \in 0 .. Len(accepted)
  /\ \A i \in 0 .. Len(accepted) : i <= source.points <=> EndOf(ends, i) <= 8 * source.given
  /\ GivenBits(buf)

(* A stream is cut, whole or longer, and only one of them. *)
LEMMA OpenedFacts ==
  ASSUME NEW buf, OpenedWith(buf)
  PROVE  /\ IsCut \/ IsWhole \/ IsLong
         /\ IsWhole => ~ IsCut
         /\ IsLong => ~ IsCut /\ ~ IsWhole
BY DEF OpenedWith, IsCut, IsWhole, IsLong

(* A code of the stream that lies in the given bytes can be read there. *)
LEMMA BufferWhole ==
  ASSUME NEW st, Written(c, accepted, ends, st), NEW buf, OpenedWith(buf), NEW pos \in Nat,
         NEW code \in Seq(Bit), Whole(At(c.bits, pos), code), pos + Len(code) <= Len(buf)
  PROVE  Whole(At(buf, pos), code)
<1>1. /\ buf \in Seq(Bit) /\ Len(buf) \in Nat /\ Len(code) \in Nat /\ Len(c.bits) \in Nat
      /\ \A i \in 1 .. Len(buf) : i <= Len(c.bits) => buf[i] = c.bits[i]
  BY LenProperties DEF OpenedWith, GivenBits, Written, Compressors
<1>2. /\ pos + Len(code) <= Len(c.bits)
      /\ \A i \in 1 .. Len(code) : pos + i <= Len(c.bits) => c.bits[pos + i] = code[i]
  BY DEF Whole, Agrees, At
<1>3. ASSUME NEW i \in 1 .. Len(code) PROVE buf[pos + i] = code[i]
  <2>1. pos + i \in 1 .. Len(buf) /\ pos + i <= Len(c.bits)
    BY <1>1, <1>2
  <2> QED
    BY <1>1, <1>2, <2>1
<1> QED
  BY <1>3 DEF Whole, Agrees, At

(* One that does not is torn there. *)
LEMMA BufferTorn ==
  ASSUME NEW st, Written(c, accepted, ends, st), NEW buf, OpenedWith(buf), NEW pos \in Nat,
         NEW code \in Seq(Bit), Agrees(At(c.bits, pos), code), pos + Len(code) > Len(buf),
         Len(buf) <= Len(c.bits)
  PROVE  Torn(At(buf, pos), code)
<1>1. /\ buf \in Seq(Bit) /\ Len(buf) \in Nat /\ Len(code) \in Nat /\ Len(c.bits) \in Nat
      /\ \A i \in 1 .. Len(buf) : i <= Len(c.bits) => buf[i] = c.bits[i]
  BY LenProperties DEF OpenedWith, GivenBits, Written, Compressors
<1>2. \A i \in 1 .. Len(code) : pos + i <= Len(c.bits) => c.bits[pos + i] = code[i]
  BY DEF Agrees, At
<1>3. ASSUME NEW i \in 1 .. Len(code), pos + i <= Len(buf) PROVE buf[pos + i] = code[i]
  <2>1. pos + i \in 1 .. Len(buf) /\ pos + i <= Len(c.bits)
    BY <1>1, <1>3
  <2> QED
    BY <1>1, <1>2, <2>1
<1> QED
  BY <1>3 DEF Torn, Agrees, At

(* The states and the codes of the stream. *)
LEMMA StreamFacts ==
  ASSUME NEW st, Written(c, accepted, ends, st)
  PROVE  /\ Len(accepted) \in Nat /\ Len(c.bits) \in Nat
         /\ \A i \in 0 .. Len(accepted) : EndOf(ends, i) \in Nat /\ EndOf(ends, i) <= Len(c.bits)
         /\ \A i \in 0 .. Len(accepted) : st[i] \in RunStates /\ st[i] \in CodecStates
         /\ \A i \in 1 .. Len(accepted) : accepted[i] \in Points
<1>1. Histories(accepted, ends, st) /\ c \in Compressors(cap)
  BY DEF Written
<1>2. Len(c.bits) \in Nat
  BY <1>1, LenProperties DEF Compressors
<1>3. \A i \in 0 .. Len(accepted) : st[i] \in RunStates /\ st[i] \in CodecStates
  BY <1>1 DEF Histories, RunStates
<1>4. \A i \in 1 .. Len(accepted) : accepted[i] \in Points
  BY <1>1, ElementOfSeq DEF Histories
<1>5. \A i \in 0 .. Len(accepted) : EndOf(ends, i) <= Len(c.bits)
  BY EndsGrow
<1> QED
  BY <1>1, <1>2, <1>3, <1>4, <1>5, EndsAreNumbers

(* Of the points that are given, the codes can be read. *)
LEMMA GivenIsWhole ==
  ASSUME NEW st, Written(c, accepted, ends, st), NEW buf, OpenedWith(buf),
         NEW i \in 1 .. source.points
  PROVE  /\ st[i] = AfterPoint(st[i - 1], accepted[i])
         /\ EndOf(ends, i) = EndOf(ends, i - 1) + Len(PointCode(st[i - 1], accepted[i]))
         /\ Whole(At(buf, EndOf(ends, i - 1)), PointCode(st[i - 1], accepted[i]))
<1> DEFINE e == EndOf(ends, i - 1)
           code == PointCode(st[i - 1], accepted[i])
<1>1. i \in 1 .. Len(accepted) /\ i \in 0 .. Len(accepted) /\ i - 1 \in 0 .. Len(accepted)
  BY StreamFacts DEF OpenedWith
<1>2. CodeOf(c.bits, accepted, ends, st, i)
  BY <1>1 DEF Written
<1>3. e \in Nat /\ code \in Seq(Bit)
  BY <1>1, StreamFacts, PointFacts DEF PointDone
<1>4. /\ st[i] = AfterPoint(st[i - 1], accepted[i])
      /\ EndOf(ends, i) = e + Len(code)
      /\ Whole(At(c.bits, e), code)
  BY <1>2 DEF CodeOf
<1>5. e + Len(code) <= Len(buf)
  <2>1. EndOf(ends, i) <= 8 * source.given /\ Len(buf) = 8 * source.given
    BY <1>1 DEF OpenedWith, GivenBits
  <2> QED
    BY <1>4, <2>1
<1> HIDE DEF e, code
<1>6. Whole(At(buf, e), code)
  BY <1>3, <1>4, <1>5, BufferWhole
<1> QED
  BY <1>4, <1>6 DEF e, code

(* Behind them, what was cut short is a point that is not all there. *)
LEMMA CutIsTorn ==
  ASSUME NEW st, Written(c, accepted, ends, st), NEW buf, OpenedWith(buf), IsCut
  PROVE  \E p \in Points : Torn(At(buf, EndOf(ends, source.points)), PointCode(st[source.points], p))
<1> DEFINE k == source.points
           n == Len(accepted)
           e == EndOf(ends, k)
<1>1. k \in 0 .. n /\ n \in Nat /\ e \in Nat /\ e <= Len(c.bits) /\ Len(c.bits) \in Nat
  BY StreamFacts DEF OpenedWith
<1>2. /\ Len(buf) = 8 * source.given /\ Len(buf) \in Nat /\ source.given \in Nat
      /\ source.finish \in Nat /\ source.torn = c.overflow /\ source.torn \in BOOLEAN
      /\ source.given < source.finish => Len(buf) < Len(c.bits)
  BY LenProperties DEF OpenedWith, GivenBits
<1>3. ASSUME k < n
      PROVE  Torn(At(buf, e), PointCode(st[k], accepted[k + 1]))
  <2> DEFINE code == PointCode(st[k], accepted[k + 1])
  <2>1. k + 1 \in 1 .. n /\ k + 1 \in 0 .. n /\ (k + 1) - 1 = k
    BY <1>1, <1>3
  <2>2. CodeOf(c.bits, accepted, ends, st, k + 1)
    BY <2>1 DEF Written
  <2>3. EndOf(ends, k + 1) = e + Len(code) /\ Whole(At(c.bits, e), code)
    BY <2>1, <2>2 DEF CodeOf
  <2>4. e + Len(code) > Len(buf)
    <3>1. ~ (k + 1 <= k)
      BY <1>1
    <3>2. ~ (EndOf(ends, k + 1) <= 8 * source.given)
      BY <2>1, <3>1 DEF OpenedWith
    <3>3. EndOf(ends, k + 1) \in Nat
      BY <2>1, StreamFacts
    <3> QED
      BY <1>2, <2>3, <3>2, <3>3
  <2>5. code \in Seq(Bit)
    BY <1>1, <2>1, StreamFacts, PointFacts DEF PointDone
  <2>6. Agrees(At(c.bits, e), code) /\ e + Len(code) <= Len(c.bits) /\ Len(code) \in Nat
    BY <2>3, <2>5, LenProperties DEF Whole, At
  <2> HIDE DEF code, e
  <2>7. Len(buf) <= Len(c.bits)
    BY <1>1, <1>2, <2>4, <2>6
  <2>8. Torn(At(buf, e), code)
    BY <1>1, <2>4, <2>5, <2>6, <2>7, BufferTorn
  <2> QED
    BY <2>8 DEF code
<1>4. ASSUME k = n
      PROVE  \E p \in Points : Torn(At(buf, e), PointCode(st[k], p))
  <2>1. e <= Len(buf)
    <3>1. k <= k /\ k \in 0 .. n
      BY <1>1
    <3> QED
      BY <1>2, <3>1 DEF OpenedWith
  <2>2. c.overflow = TRUE
    <3> SUFFICES ASSUME c.overflow = FALSE PROVE FALSE
      BY <1>2
    <3>1. InHand(c, e, st[k])
      BY <1>4 DEF Written, RanOut
    <3>2. Len(c.bits) = e
      BY <3>1 DEF InHand
    <3>3. source.given < source.finish
      BY <1>2 DEF IsCut
    <3> QED
      BY <1>1, <1>2, <2>1, <3>2, <3>3
  <2>3. RanOut(c, e, st[k])
    BY <1>4, <2>2 DEF Written, InHand
  <2>4. PICK p \in Points : Torn(At(c.bits, e), PointCode(st[k], p))
    BY <2>3 DEF RanOut
  <2> DEFINE code == PointCode(st[k], p)
  <2>5. code \in Seq(Bit)
    BY <1>1, StreamFacts, PointFacts DEF PointDone
  <2>6. Len(buf) <= Len(c.bits)
    BY <1>2, <2>2 DEF OpenedWith
  <2>7. Agrees(At(c.bits, e), code) /\ e + Len(code) > Len(buf)
    BY <1>1, <1>2, <2>4, <2>5, <2>6, LenProperties DEF Torn, At
  <2> HIDE DEF code, e
  <2>8. Torn(At(buf, e), code)
    BY <1>1, <2>5, <2>6, <2>7, BufferTorn
  <2> QED
    BY <2>8 DEF code
<1>5. k < n => accepted[k + 1] \in Points
  <2>1. k < n => k + 1 \in 1 .. n
    BY <1>1
  <2> QED
    BY <2>1, StreamFacts
<1>6. k < n \/ k = n
  BY <1>1
<1> HIDE DEF e, k, n
<1>7. \E p \in Points : Torn(At(buf, e), PointCode(st[k], p))
  BY <1>3, <1>4, <1>5, <1>6
<1> QED
  BY <1>7 DEF e, k

(* A stream that is not cut short has all the points. *)
LEMMA WholeHasAll ==
  ASSUME NEW st, Written(c, accepted, ends, st), NEW buf, OpenedWith(buf),
         source.given >= source.finish
  PROVE  source.points = Len(accepted)
<1> DEFINE n == Len(accepted)
<1>1. n \in Nat /\ n \in 0 .. n /\ EndOf(ends, n) \in Nat /\ EndOf(ends, n) <= Len(c.bits)
      /\ Len(c.bits) \in Nat
  BY StreamFacts
<1>2. Len(c.bits) <= Len(buf) /\ Len(buf) = 8 * source.given /\ source.given \in Nat
  BY DEF OpenedWith, GivenBits
<1>3. EndOf(ends, n) <= 8 * source.given
  BY <1>1, <1>2
<1>4. n <= source.points /\ source.points \in 0 .. n
  BY <1>1, <1>3 DEF OpenedWith
<1> QED
  BY <1>1, <1>4

(* Two zeros are the code of the same delta and the same value once more. *)
ZeroPair(code) == code \in Seq(Bit) /\ Len(code) = 2 /\ \A i \in 1 .. 2 : code[i] = 0

(* The shortest code of a timestamp is a zero: the delta stays. *)
LEMMA ZeroTime ==
  /\ TsCode(0) \in Seq(Bit) /\ Len(TsCode(0)) = 1 /\ TsCode(0)[1] = 0
  /\ FieldValue(0) = 0
<1> DEFINE k == BucketOf(0)
           S == {j \in Buckets : Fits(0, j)}
<1>1. k = 1
  <2>1. 1 \in S /\ S \in SUBSET Buckets
    BY DEF Fits, Buckets
  <2>2. k = Min(S)
    BY DEF BucketOf
  <2> HIDE DEF S, k
  <2>3. k \in Buckets /\ k <= 1
    BY <2>1, <2>2, LeastBucket
  <2> QED
    BY <2>3 DEF Buckets
<1>2. 1 \in Buckets
  BY DEF Buckets
<1>3. FieldWidths[1] = 0
  BY <1>2, FieldWidth
<1> HIDE DEF k
<1> DEFINE a == Prefix(1)
           b == FieldBits(0, 0)
<1>4. a \in Seq(Bit) /\ Len(a) = 1 /\ \A i \in 1 .. Len(a) : a[i] = IF i < 1 THEN 1 ELSE 0
  <2>1. /\ a \in Seq(Bit) /\ Len(a) = IF 1 < 5 THEN 1 ELSE 4
        /\ \A i \in 1 .. Len(a) : a[i] = IF i < 1 THEN 1 ELSE 0
    BY <1>2, PrefixType
  <2> HIDE DEF a
  <2> QED
    BY <2>1
<1>5. b \in Seq(Bit) /\ Len(b) = 0
  BY FieldType
<1> HIDE DEF a, b
<1>6. b = << >>
  BY <1>5, EmptySeq
<1>7. TsCode(0) = a
  <2>1. TsCode(0) = a \o b
    BY <1>1, <1>3 DEF TsCode, k, a, b
  <2> QED
    BY <1>4, <1>6, <2>1, ConcatEmptySeq
<1>8. a[1] = 0
  <2>1. 1 \in 1 .. Len(a) /\ ~ (1 < 1)
    BY <1>4
  <2> QED
    BY <1>4, <2>1
<1>9. FieldValue(0) = 0
  <2>1. FieldValue(0) = SignExtend(b)
    BY <1>1, <1>3 DEF FieldValue, k, b
  <2> QED
    BY <1>6, <2>1 DEF SignExtend
<1> QED
  BY <1>4, <1>7, <1>8, <1>9

(* The shortest code of a value is a zero: the value stays. *)
LEMMA SameValue ==
  ASSUME NEW s \in ValStates, s.has_value = TRUE
  PROVE  ValEncode(s, s.prev_bits).bits = <<0>>
<1> DEFINE v == s.prev_bits
           x == Xor(v, v)
           seen == [s EXCEPT !.prev_bits = v, !.has_value = TRUE]
<1>1. v \in Value
  BY StateFacts
<1>2. x = Zeros(Width)
  <2>1. \A i \in 1 .. Width : v[i] \in Bit
    BY <1>1 DEF Value
  <2>2. \A y \in Bit : (y + y) % 2 = 0
    BY DEF Bit
  <2>3. \A i \in 1 .. Width : (v[i] + v[i]) % 2 = 0
    BY <2>1, <2>2
  <2> QED
    BY <2>3 DEF Xor, Zeros
<1>3. ValEncode(s, v) = [bits |-> <<0>>, s |-> seen]
  <2> HIDE DEF seen
  <2> QED
    BY <1>2 DEF ValEncode, seen
<1> QED
  BY <1>3

(* Together they are two zeros, as padding may be. *)
LEMMA ZeroCode ==
  ASSUME NEW s \in ValStates, s.has_value = TRUE
  PROVE  ZeroPair(TsCode(0) \o ValEncode(s, s.prev_bits).bits)
<1> DEFINE a == TsCode(0)
           b == ValEncode(s, s.prev_bits).bits
           code == a \o b
<1>1. a \in Seq(Bit) /\ Len(a) = 1 /\ a[1] = 0
  BY ZeroTime
<1>2. b \in Seq(Bit) /\ Len(b) = 1 /\ b[1] = 0
  BY SameValue, OneBit
<1> HIDE DEF a, b
<1>3. code \in Seq(Bit) /\ Len(code) = 2
  BY <1>1, <1>2, ConcatProperties
<1>4. \A i \in 1 .. 2 : code[i] = IF i <= 1 THEN a[i] ELSE b[i - 1]
  <2>1. \A i \in 1 .. Len(a) + Len(b) : code[i] = IF i <= Len(a) THEN a[i] ELSE b[i - Len(a)]
    BY <1>1, <1>2, ConcatProperties
  <2> HIDE DEF code
  <2> QED
    BY <1>1, <1>2, <2>1
<1> HIDE DEF code
<1>5. \A i \in 1 .. 2 : code[i] = 0
  <2>1. \A i \in 1 .. 2 : i = 1 \/ (i = 2 /\ ~ (i <= 1) /\ i - 1 = 1)
    OBVIOUS
  <2>2. 1 <= 1
    OBVIOUS
  <2> QED
    BY <1>1, <1>2, <1>4, <2>1, <2>2
<1>6. ZeroPair(code)
  BY <1>3, <1>5 DEF ZeroPair
<1> QED
  BY <1>6 DEF code, a, b

(* The deltas of a series are decoded as they were encoded if they fit. *)
LEMMA PointTime ==
  ASSUME NEW s \in RunStates, NEW p \in Points
  PROVE  /\ Dod(s.ts, p.ts) \in Int
         /\ TsEncode(s.ts, p.ts).bits = TsCode(Dod(s.ts, p.ts))
         /\ SpanFits => AfterField(s.ts, FieldValue(Dod(s.ts, p.ts))) = AfterPoint(s, p).ts
<1> DEFINE v == Dod(s.ts, p.ts)
<1>1. s.ts \in TsStates /\ p.ts \in Timestamp /\ p.ts \in Times
  BY RunGoesOn, TimesAreTimestamps DEF CodecStates
<1>2. /\ v \in Int
      /\ TsEncode(s.ts, p.ts).bits = TsCode(v)
  BY <1>1, TsEncodeFacts, TimesAreTimestamps
<1>3. ASSUME SpanFits PROVE v \in Signed(LastBits)
  <2>1. PICK a \in Times : s.ts.prev_delta = Wrap(s.ts.prev_ts - a)
    BY DEF RunStates
  <2>2. s.ts.prev_ts \in Times
    BY DEF RunStates
  <2>3. Wrap(Wrap(p.ts - s.ts.prev_ts) - Wrap(s.ts.prev_ts - a)) \in Signed(LastBits)
    BY <1>1, <1>3, <2>2 DEF SpanFits
  <2> QED
    BY <2>1, <2>3 DEF Dod, Delta
<1>4. AfterField(s.ts, v) = AfterPoint(s, p).ts
  BY <1>1, AddedUp DEF AfterPoint
<1> HIDE DEF v
<1>5. SpanFits => AfterField(s.ts, FieldValue(v)) = AfterPoint(s, p).ts
  BY <1>2, <1>3, <1>4, FieldValueFacts
<1> QED
  BY <1>2, <1>5 DEF v

(* A delta that was added is the delta. *)
LEMMA WrapStep ==
  ASSUME NEW x \in Timestamp, NEW delta \in Timestamp
  PROVE  Wrap(Wrap(x + delta) - x) = delta
<1>1. x \in Int /\ delta \in Int /\ x + delta \in Int
  BY TimesAreTimestamps
<1>2. PICK k \in Int : x + delta = Wrap(x + delta) + Pow2[TsBits] * k
  BY <1>1, WrapCongruent
<1>3. Wrap(x + delta) \in Int /\ Pow2[TsBits] \in Nat /\ -k \in Int
  <2>1. Wrap(x + delta) \in Timestamp
    BY <1>1, WrapCongruent
  <2>2. Wrap(x + delta) \in Int
    BY <2>1, TimesAreTimestamps
  <2>3. Pow2[TsBits] \in Nat
    BY WordSize
  <2> QED
    BY <2>2, <2>3
<1> DEFINE M == Pow2[TsBits]
           y == Wrap(x + delta)
<1>4. M * k \in Int /\ M * (-k) = -(M * k) /\ y \in Int /\ x + delta = y + M * k
  <2>1. M \in Int
    BY <1>3
  <2> HIDE DEF M
  <2> QED
    BY <1>2, <1>3, <2>1 DEF M
<1> HIDE DEF M, y
<1>5. y - x = delta + M * (-k)
  <2> DEFINE z == M * k
             u == M * (-k)
  <2>1. z \in Int /\ u = -z /\ x + delta = y + z
    BY <1>4
  <2> HIDE DEF z, u
  <2>2. y - x = delta + u
    BY <1>1, <1>4, <2>1
  <2> QED
    BY <2>2 DEF u
<1>6. y - x \in Int
  BY <1>1, <1>4
<1>7. Wrap(y - x) = delta
  BY <1>3, <1>5, <1>6, WrapUnique DEF M
<1> QED
  BY <1>7 DEF y

(* A zero keeps the delta. *)
LEMMA SameDelta ==
  ASSUME NEW s \in TsStates
  PROVE  AfterField(s, FieldValue(0)).prev_delta = s.prev_delta
<1>1. s.prev_delta \in Timestamp /\ s.prev_delta \in Int
  BY TimesAreTimestamps DEF TsStates
<1> DEFINE M == Pow2[TsBits]
<1>2. M * 0 = 0
  <2>1. M \in Nat
    BY WordSize
  <2> HIDE DEF M
  <2> QED
    BY <2>1
<1> HIDE DEF M
<1>3. 0 + s.prev_delta = s.prev_delta + M * 0 /\ 0 + s.prev_delta \in Int
  BY <1>1, <1>2
<1>4. Wrap(0 + s.prev_delta) = s.prev_delta
  BY <1>1, <1>3, WrapUnique DEF M
<1> QED
  BY <1>4, ZeroTime DEF AfterField

-----------------------------------------------------------------------------
(* The invariant of the decompressor. *)
(* The points of the stream come first, as they were handed in. *)
Kept(o) ==
  \A i \in 1 .. Len(o) : i <= source.points =>
     o[i].val = accepted[i].val /\ (SpanFits => o[i] = accepted[i])

(* What PaddingOnlyRepeats says of a point. *)
Repeat(o, i) ==
  /\ o[i].val = o[i - 1].val
  /\ i > 2 => Wrap(o[i].ts - o[i - 1].ts) = Wrap(o[i - 1].ts - o[i - 2].ts)

Repeats(o) == IsWhole => \A i \in source.points + 1 .. Len(o) : Repeat(o, i)

Bounded(m) ==
  /\ IsCut => m <= source.points
  /\ IsWhole => m <= source.points + 3 /\ (accepted = << >> => m = 0)

(* The states of the codecs are those behind the last point. *)
Latest(dd, o) ==
  /\ Len(o) >= 1 => /\ o[Len(o)].ts = dd.ts.prev_ts
                    /\ o[Len(o)].val = dd.vs.prev_bits
  /\ Len(o) >= 2 => dd.ts.prev_delta = Wrap(o[Len(o)].ts - o[Len(o) - 1].ts)

(* Before the end the reader is at the end of a point of the stream, in the  *)
(* padding, or anywhere in bytes of other origin.                            *)
InStream(st, dd, m) ==
  /\ m <= source.points
  /\ dd.r.pos = EndOf(ends, m)
  /\ dd.vs = st[m].vs
  /\ SpanFits => dd.ts = st[m].ts
InPadding(dd, m) ==
  /\ IsWhole
  /\ m > source.points /\ source.points >= 1
  /\ dd.r.pos = Len(c.bits) + 2 * (m - source.points)
  /\ dd.vs \in ValStates /\ dd.vs.has_value = TRUE
Beyond(m) == IsLong /\ m >= source.points

Place(st, dd, m) == InStream(st, dd, m) \/ InPadding(dd, m) \/ Beyond(m)

(* The window is one that an encoder may write, also at the end, unless it   *)
(* may have been read from bytes behind the stream.                          *)
Sane(dd) == ~ IsLong => dd.vs \in ValStates

Followed(st, dd, o) ==
  /\ dd \in Decoders
  /\ o \in Seq(Pairs)
  /\ OpenedWith(dd.r.buf)
  /\ dd.r.pos >= TsBits + 2 * Len(o)
  /\ Kept(o)
  /\ Repeats(o)
  /\ Bounded(Len(o))
  /\ Sane(dd)
  /\ \/ dd.r.eof = TRUE /\ Len(o) >= source.points
     \/ dd.r.eof = FALSE /\ Latest(dd, o) /\ Place(st, dd, Len(o))

(* Types that follow from it. *)
LEMMA FollowedFacts ==
  ASSUME NEW st, Written(c, accepted, ends, st), NEW dd, NEW o, Followed(st, dd, o)
  PROVE  /\ Len(o) \in Nat /\ source.points \in Nat /\ source.points <= Len(accepted)
         /\ Len(accepted) \in Nat /\ Len(c.bits) \in Nat
         /\ dd.r.pos \in Nat /\ Len(dd.r.buf) \in Nat /\ dd.r.pos <= Len(dd.r.buf)
         /\ dd.r.eof \in BOOLEAN /\ dd.r \in Readers /\ dd.ts \in TsStates
         /\ OpenedWith(dd.r.buf) /\ o \in Seq(Pairs)
<1>1. Len(accepted) \in Nat /\ Len(c.bits) \in Nat
  BY StreamFacts
<1>2. dd.r \in Readers /\ dd.ts \in TsStates /\ OpenedWith(dd.r.buf) /\ o \in Seq(Pairs)
  BY DEF Followed, Decoders
<1>3. source.points \in 0 .. Len(accepted)
  BY <1>2 DEF OpenedWith
<1> QED
  BY <1>1, <1>2, <1>3, LenProperties DEF Readers

(* At the end. *)
LEMMA FollowedEnd ==
  ASSUME NEW st, Written(c, accepted, ends, st), NEW s \in Results, Followed(st, s.d, s.out),
         NEW f, FetchDone(s, f), FetchedNone(s, f), Len(s.out) >= source.points, Sane(f.d)
  PROVE  Followed(st, f.d, f.out)
<1>1. f.out = s.out /\ f.d.r.eof = TRUE
  BY DEF FetchedNone
<1>2. f.d \in Decoders /\ f.d.r.buf = s.d.r.buf /\ f.d.r.pos >= s.d.r.pos /\ f.d.r.pos \in Nat
  BY DEF FetchDone, Results, Decoders, Readers
<1>3. s.d.r.pos \in Nat /\ Len(s.out) \in Nat
  BY FollowedFacts
<1>4. s.d.r.pos >= TsBits + 2 * Len(s.out)
  BY DEF Followed
<1> DEFINE m == Len(s.out)
<1> HIDE DEF m
<1>5. f.d.r.pos >= TsBits + 2 * m
  BY <1>2, <1>3, <1>4, Sizes DEF m
<1> QED
  BY <1>1, <1>2, <1>5 DEF Followed, m

(* What makes the next point the right one, where the states are d1 before   *)
(* it and d2 behind it.                                                      *)
RightPoint(st, d1, d2, m) ==
  /\ m + 1 <= source.points => /\ d2.vs.prev_bits = accepted[m + 1].val
                               /\ SpanFits => d2.ts.prev_ts = accepted[m + 1].ts
  /\ IsWhole /\ m + 1 > source.points => /\ m >= 1
                                         /\ d2.vs.prev_bits = d1.vs.prev_bits
                                         /\ d2.ts.prev_delta = d1.ts.prev_delta
  /\ Bounded(m + 1)
  /\ Sane(d2)
  /\ Place(st, d2, m + 1)

(* One point further. *)
LEMMA FollowedOne ==
  ASSUME NEW st, Written(c, accepted, ends, st), NEW s \in Results, Followed(st, s.d, s.out),
         NEW f, FetchDone(s, f), FetchedOne(s, f), RightPoint(st, s.d, f.d, Len(s.out))
  PROVE  Followed(st, f.d, f.out)
<1> DEFINE m == Len(s.out)
           x == [ts |-> f.d.ts.prev_ts, val |-> f.d.vs.prev_bits]
           o == s.out
           o2 == f.out
           k == source.points
<1>1. /\ m \in Nat /\ k \in Nat /\ k <= Len(accepted) /\ Len(accepted) \in Nat
      /\ s.d.r.pos \in Nat /\ o \in Seq(Pairs)
  BY FollowedFacts
<1>2. /\ f.d \in Decoders /\ f.d.r.buf = s.d.r.buf /\ f.d.r.pos \in Nat
      /\ f.d.ts \in TsStates /\ f.d.vs \in LooseStates /\ o2 \in Seq(Pairs)
  BY DEF FetchDone, Results, Decoders, Readers
<1>3. /\ o2 = Append(o, x) /\ f.d.r.eof = FALSE /\ s.d.r.eof = FALSE
      /\ f.d.r.pos >= s.d.r.pos + 2
      /\ f.d.ts.prev_ts = Wrap(s.d.ts.prev_ts + f.d.ts.prev_delta)
  BY DEF FetchedOne
<1>4. Latest(s.d, o) /\ s.d.r.pos >= TsBits + 2 * m /\ Kept(o) /\ Repeats(o)
  BY <1>3 DEF Followed
<1>5. x \in Pairs /\ x.ts = f.d.ts.prev_ts /\ x.val = f.d.vs.prev_bits
  BY <1>2 DEF Pairs, TsStates, LooseStates
<1> HIDE DEF x
<1>6. /\ Len(o2) = m + 1
      /\ \A i \in 1 .. m : o2[i] = o[i]
      /\ o2[m + 1] = x
  BY <1>1, <1>3, <1>5, AppendProperties
<1>7. f.d.r.pos >= TsBits + 2 * Len(o2)
  <2> HIDE DEF m, o2
  <2> QED
    BY <1>1, <1>2, <1>3, <1>4, <1>6, Sizes
<1>8. Kept(o2)
  <2> SUFFICES ASSUME NEW i \in 1 .. Len(o2), i <= k
               PROVE  o2[i].val = accepted[i].val /\ (SpanFits => o2[i] = accepted[i])
    BY DEF Kept
  <2>1. CASE i \in 1 .. m
    BY <1>4, <1>6, <2>1 DEF Kept
  <2>2. CASE i = m + 1
    <3>1. x.val = accepted[i].val /\ (SpanFits => x.ts = accepted[i].ts)
      BY <1>5, <2>2 DEF RightPoint
    <3>2. accepted[i] \in Pairs
      <4>1. i \in 1 .. Len(accepted)
        BY <1>1
      <4>2. accepted[i] \in Points
        BY <4>1, StreamFacts
      <4> QED
        BY <4>2, StreamAssumption DEF Pairs, Words
    <3>3. SpanFits => x = accepted[i]
      BY <1>5, <3>1, <3>2 DEF Pairs
    <3> QED
      BY <1>6, <2>2, <3>1, <3>3
  <2>3. i \in 1 .. m \/ i = m + 1
    BY <1>1, <1>6
  <2> QED
    BY <2>1, <2>2, <2>3
<1>9. m >= 1 => f.d.ts.prev_delta = Wrap(x.ts - o[m].ts)
  <2>1. s.d.ts.prev_ts \in Timestamp /\ f.d.ts.prev_delta \in Timestamp
    BY <1>2 DEF Results, Decoders, TsStates
  <2>2. f.d.ts.prev_delta = Wrap(x.ts - s.d.ts.prev_ts)
    BY <1>3, <1>5, <2>1, WrapStep
  <2> QED
    BY <1>4, <2>2 DEF Latest
<1>10. Latest(f.d, o2)
  <2>1. o2[Len(o2)].ts = f.d.ts.prev_ts /\ o2[Len(o2)].val = f.d.vs.prev_bits
    BY <1>5, <1>6
  <2>2. ASSUME Len(o2) >= 2 PROVE f.d.ts.prev_delta = Wrap(o2[Len(o2)].ts - o2[Len(o2) - 1].ts)
    <3>1. m >= 1 /\ m \in 1 .. m /\ Len(o2) - 1 = m
      BY <1>1, <1>6, <2>2
    <3> HIDE DEF o2, m
    <3> QED
      BY <1>6, <1>9, <3>1
  <2> QED
    BY <2>1, <2>2 DEF Latest
<1>11. Repeats(o2)
  <2> SUFFICES ASSUME IsWhole, NEW i \in k + 1 .. Len(o2)
               PROVE  Repeat(o2, i)
    BY DEF Repeats
  <2>1. CASE i \in 1 .. m
    <3>1. i \in k + 1 .. m
      BY <1>1, <2>1
    <3>2. Repeat(o, i)
      BY <1>4, <3>1 DEF Repeats
    <3>3. CASE i = 1
      <4>1. k = 0 /\ m >= 1
        BY <1>1, <2>1, <3>1, <3>3
      <4>2. Len(accepted) = 0 => m = 0
        <5>1. Bounded(m)
          BY DEF Followed
        <5>2. Len(accepted) = 0 => accepted = << >>
          BY EmptySeq DEF Written, Histories
        <5> QED
          BY <5>1, <5>2 DEF Bounded
      <4>3. k = Len(accepted)
        <5>1. OpenedWith(s.d.r.buf)
          BY DEF Followed
        <5>2. source.given >= source.finish
          BY <5>1 DEF IsWhole, OpenedWith
        <5> QED
          BY <5>1, <5>2, WholeHasAll
      <4> QED
        BY <4>1, <4>2, <4>3
    <3>4. CASE i > 1
      <4>1. o2[i] = o[i] /\ o2[i - 1] = o[i - 1] /\ (i > 2 => o2[i - 2] = o[i - 2])
        <5>1. i - 1 \in 1 .. m /\ (i > 2 => i - 2 \in 1 .. m)
          BY <1>1, <2>1, <3>4
        <5> QED
          BY <1>6, <2>1, <5>1
      <4> QED
        BY <3>2, <4>1 DEF Repeat
    <3> QED
      BY <2>1, <3>3, <3>4
  <2>2. CASE i = m + 1
    <3>1. /\ m >= 1 /\ f.d.vs.prev_bits = s.d.vs.prev_bits
          /\ f.d.ts.prev_delta = s.d.ts.prev_delta
      <4>1. m + 1 > k
        BY <1>1, <2>2
      <4> QED
        BY <4>1 DEF RightPoint
    <3>2. i - 1 = m /\ i - 2 = m - 1 /\ m \in 1 .. m /\ (i > 2 => m >= 2 /\ m - 1 \in 1 .. m)
      BY <1>1, <2>2, <3>1
    <3>3. o2[i] = x /\ o2[i - 1] = o[m] /\ (i > 2 => o2[i - 2] = o[m - 1])
      <4> HIDE DEF m
      <4> QED
        BY <1>6, <2>2, <3>2
    <3>4. o[m].val = s.d.vs.prev_bits
      BY <1>4, <3>1 DEF Latest
    <3>5. i > 2 => s.d.ts.prev_delta = Wrap(o[m].ts - o[m - 1].ts)
      BY <1>4, <3>2 DEF Latest
    <3> HIDE DEF m, o, o2
    <3> QED
      BY <1>5, <1>9, <3>1, <3>3, <3>4, <3>5 DEF Repeat
  <2>3. i \in 1 .. m \/ i = m + 1
    BY <1>1, <1>6
  <2> QED
    BY <2>1, <2>2, <2>3
<1>12. Bounded(Len(o2)) /\ Sane(f.d) /\ Place(st, f.d, Len(o2))
  BY <1>6 DEF RightPoint
<1>13. OpenedWith(f.d.r.buf)
  BY <1>2 DEF Followed
<1> QED
  BY <1>2, <1>3, <1>7, <1>8, <1>10, <1>11, <1>12, <1>13 DEF Followed

(* In the stream: the point whose turn it is. *)
LEMMA NextInStream ==
  ASSUME NEW st, Written(c, accepted, ends, st), NEW s \in Results, s.rc = "OK",
         Followed(st, s.d, s.out), s.d.r.eof = FALSE, InStream(st, s.d, Len(s.out)),
         Len(s.out) < source.points
  PROVE  Fetched(s).rc = "OK" /\ RightPoint(st, s.d, Fetched(s).d, Len(s.out))
<1> DEFINE m == Len(s.out)
           p == accepted[m + 1]
           u == st[m]
           v == Dod(u.ts, p.ts)
           code == PointCode(u, p)
           f == Fetched(s)
           k == source.points
<1>1. /\ m \in Nat /\ k \in Nat /\ k <= Len(accepted) /\ Len(accepted) \in Nat
      /\ OpenedWith(s.d.r.buf) /\ s.d.r \in Readers /\ s.d.ts \in TsStates
  BY FollowedFacts
<1>2. m \in 0 .. Len(accepted) /\ m + 1 \in 1 .. k /\ m + 1 \in 1 .. Len(accepted) /\ (m + 1) - 1 = m
  BY <1>1
<1>3. u \in RunStates /\ u \in CodecStates /\ p \in Points
  BY <1>2, StreamFacts
<1>4. s.d.vs = u.vs /\ s.d.r.pos = EndOf(ends, m) /\ (SpanFits => s.d.ts = u.ts)
  BY DEF InStream
<1>5. /\ st[m + 1] = AfterPoint(u, p)
      /\ EndOf(ends, m + 1) = EndOf(ends, m) + Len(code)
      /\ Whole(At(s.d.r.buf, EndOf(ends, m)), code)
  BY <1>1, <1>2, GivenIsWhole
<1>6. s.d.r = At(s.d.r.buf, EndOf(ends, m))
  BY <1>1, <1>4 DEF At, Readers
<1>7. /\ v \in Int /\ TsEncode(u.ts, p.ts).bits = TsCode(v)
      /\ SpanFits => AfterField(u.ts, FieldValue(v)) = AfterPoint(u, p).ts
  BY <1>3, PointTime
<1>8. p.val \in Value /\ u.vs \in ValStates
  BY <1>3, TimesAreTimestamps DEF CodecStates
<1>9. code = TsCode(v) \o ValEncode(s.d.vs, p.val).bits
  BY <1>4, <1>7 DEF PointCode
<1>10. PointDone(u, p)
  BY <1>3, PointFacts
<1>11. ValEncode(s.d.vs, p.val).s = AfterPoint(u, p).vs
  BY <1>4 DEF AfterPoint
<1> HIDE DEF v, code
<1>12. Whole(s.d.r, code)
  BY <1>5, <1>6
<1>13. FetchedCode(s, f, v, p.val)
  BY <1>4, <1>7, <1>8, <1>9, <1>12, FetchWhole
<1> HIDE DEF f, p, u
<1>14. /\ f.rc = "OK" /\ f.d.r = Behind(s.d.r, Len(code))
       /\ f.d.vs = AfterPoint(u, p).vs
       /\ SpanFits => f.d.ts = AfterPoint(u, p).ts
  BY <1>4, <1>7, <1>9, <1>11, <1>13 DEF FetchedCode
<1>15. f.d.r.pos = EndOf(ends, m + 1)
  BY <1>4, <1>5, <1>14 DEF Behind
<1>16. InStream(st, f.d, m + 1)
  BY <1>1, <1>2, <1>5, <1>14, <1>15 DEF InStream
<1>17. Bounded(m + 1)
  <2>1. m + 1 <= k /\ m + 1 <= k + 3
    BY <1>1, <1>2
  <2>2. accepted # << >>
    BY <1>1, <1>2, EmptySeq DEF Written, Histories
  <2> QED
    BY <2>1, <2>2 DEF Bounded
<1>18. /\ f.d.vs.prev_bits = p.val
       /\ SpanFits => f.d.ts.prev_ts = p.ts
       /\ ~ (m + 1 > k)
  BY <1>1, <1>2, <1>10, <1>14 DEF PointDone
<1>19. Sane(f.d)
  BY <1>10, <1>14 DEF PointDone, CodecStates, Sane
<1>20. RightPoint(st, s.d, f.d, m)
  BY <1>16, <1>17, <1>18, <1>19 DEF RightPoint, Place, p
<1> QED
  BY <1>14, <1>20 DEF f

(* Behind a stream that is cut short: the end. *)
LEMMA NextIfCut ==
  ASSUME NEW st, Written(c, accepted, ends, st), NEW s \in Results, s.rc = "OK",
         Followed(st, s.d, s.out), InStream(st, s.d, Len(s.out)),
         Len(s.out) = source.points, IsCut
  PROVE  Fetched(s).rc = "ERR_EOF" /\ Fetched(s).d.vs \in ValStates
<1> DEFINE m == Len(s.out)
           u == st[m]
<1>1. /\ m \in Nat /\ source.points <= Len(accepted) /\ Len(accepted) \in Nat
      /\ OpenedWith(s.d.r.buf) /\ s.d.r \in Readers
  BY FollowedFacts
<1>2. m \in 0 .. Len(accepted)
  BY <1>1
<1>3. u \in RunStates /\ u \in CodecStates
  BY <1>2, StreamFacts
<1>4. s.d.vs = u.vs /\ s.d.r.pos = EndOf(ends, m)
  BY DEF InStream
<1>5. PICK p \in Points : Torn(At(s.d.r.buf, EndOf(ends, m)), PointCode(u, p))
  BY <1>1, CutIsTorn
<1> DEFINE v == Dod(u.ts, p.ts)
           code == PointCode(u, p)
<1>6. v \in Int /\ TsEncode(u.ts, p.ts).bits = TsCode(v)
  BY <1>3, PointTime
<1>7. p.val \in Value /\ u.vs \in ValStates
  BY <1>3, TimesAreTimestamps DEF CodecStates
<1>8. code = TsCode(v) \o ValEncode(s.d.vs, p.val).bits
  BY <1>4, <1>6 DEF PointCode
<1> HIDE DEF v, u
<1>9. Torn(s.d.r, code)
  BY <1>4, <1>5 DEF Torn, Agrees, At
<1> HIDE DEF code
<1> QED
  BY <1>4, <1>6, <1>7, <1>8, <1>9, FetchTorn

(* The bits behind a whole stream are those of the code of the last point,   *)
(* once more: two zeros.                                                     *)
LEMMA PaddingAgrees ==
  ASSUME NEW st, Written(c, accepted, ends, st), NEW s \in Results,
         Followed(st, s.d, s.out), IsWhole, Len(s.out) >= source.points,
         s.d.r.pos = Len(c.bits) + 2 * (Len(s.out) - source.points),
         NEW code, ZeroPair(code)
  PROVE  Agrees(s.d.r, code)
<1> DEFINE m == Len(s.out)
           k == source.points
           L == Len(c.bits)
           buf == s.d.r.buf
<1>1. /\ m \in Nat /\ k \in Nat /\ L \in Nat /\ Len(buf) \in Nat
      /\ OpenedWith(buf)
  BY FollowedFacts
<1>2. \A i \in 1 .. Len(buf) : i > L => buf[i] = 0
  BY <1>1 DEF IsWhole, OpenedWith, GivenBits
<1>3. s.d.r.pos = L + 2 * (m - k) /\ m >= k
  OBVIOUS
<1>4. Len(code) = 2 /\ \A i \in 1 .. 2 : code[i] = 0
  BY DEF ZeroPair
<1> HIDE DEF m, k, L, buf
<1>5. ASSUME NEW i \in 1 .. 2, s.d.r.pos + i <= Len(buf) PROVE buf[s.d.r.pos + i] = 0
  <2>1. s.d.r.pos + i \in 1 .. Len(buf) /\ s.d.r.pos + i > L
    BY <1>1, <1>3, <1>5
  <2> QED
    BY <1>2, <2>1
<1> QED
  BY <1>4, <1>5 DEF Agrees, buf

(* Where they are not all there, the end.                                    *)
LEMMA PaddingEnds ==
  ASSUME NEW st, Written(c, accepted, ends, st), NEW s \in Results, s.rc = "OK",
         Followed(st, s.d, s.out), s.d.r.eof = FALSE, IsWhole,
         Len(s.out) >= source.points,
         s.d.r.pos = Len(c.bits) + 2 * (Len(s.out) - source.points),
         s.d.vs \in ValStates, s.d.vs.has_value = TRUE
  PROVE  Fetched(s).d.vs \in ValStates
<1> DEFINE x == s.d.vs.prev_bits
           code == TsCode(0) \o ValEncode(s.d.vs, x).bits
<1>1. ZeroPair(code) /\ x \in Value /\ 0 \in Int
  <2>1. ZeroPair(code) /\ x \in Value
    BY ZeroCode, StateFacts
  <2>2. 0 \in Int
    OBVIOUS
  <2> QED
    BY <2>1, <2>2
<1>2. Agrees(s.d.r, code)
  <2> HIDE DEF code
  <2> QED
    BY <1>1, PaddingAgrees
<1>3. CASE Torn(s.d.r, code)
  BY <1>1, <1>3, FetchTorn
<1>4. CASE Whole(s.d.r, code)
  <2>1. FetchedCode(s, Fetched(s), 0, x)
    BY <1>1, <1>4, FetchWhole
  <2>2. Fetched(s).d.vs = ValEncode(s.d.vs, x).s
    BY <2>1 DEF FetchedCode
  <2> QED
    BY <1>1, <2>2, ValEncodeFacts
<1>5. Torn(s.d.r, code) \/ Whole(s.d.r, code)
  <2>1. s.d.r.pos + 2 \in Int /\ Len(s.d.r.buf) \in Int /\ Len(code) = 2
    BY <1>1, FollowedFacts DEF ZeroPair
  <2> HIDE DEF code
  <2> QED
    BY <1>2, <2>1 DEF Torn, Whole
<1> QED
  BY <1>3, <1>4, <1>5

(* Behind a whole stream: two zeros more that repeat the last point.         *)
LEMMA NextInPadding ==
  ASSUME NEW st, Written(c, accepted, ends, st), NEW s \in Results, s.rc = "OK",
         Followed(st, s.d, s.out), s.d.r.eof = FALSE, IsWhole,
         source.points >= 1, Len(s.out) >= source.points,
         s.d.r.pos = Len(c.bits) + 2 * (Len(s.out) - source.points),
         s.d.vs \in ValStates, s.d.vs.has_value = TRUE,
         Fetched(s).rc = "OK"
  PROVE  RightPoint(st, s.d, Fetched(s).d, Len(s.out))
<1> DEFINE m == Len(s.out)
           k == source.points
           L == Len(c.bits)
           f == Fetched(s)
           x == s.d.vs.prev_bits
           code == TsCode(0) \o ValEncode(s.d.vs, x).bits
           buf == s.d.r.buf
<1>1. /\ m \in Nat /\ k \in Nat /\ L \in Nat /\ Len(buf) \in Nat
      /\ OpenedWith(buf) /\ s.d.r \in Readers /\ s.d.ts \in TsStates
      /\ k <= Len(accepted) /\ Len(accepted) \in Nat
  BY FollowedFacts
<1>2. ZeroPair(code) /\ x \in Value
  BY ZeroCode, StateFacts
<1>3. Len(buf) <= L + 7
  BY <1>1 DEF IsWhole, OpenedWith, GivenBits
<1>4. Torn(s.d.r, code) => f.rc = "ERR_EOF"
  <2>1. 0 \in Int
    OBVIOUS
  <2> QED
    BY <1>2, <2>1, FetchTorn
<1>5. FetchedCode(s, f, 0, x) \/ ~ Whole(s.d.r, code)
  <2>1. 0 \in Int
    OBVIOUS
  <2> QED
    BY <1>2, <2>1, FetchWhole
<1> HIDE DEF f, m, L, k, buf
<1>6. /\ f.d.ts = AfterField(s.d.ts, FieldValue(0)) /\ f.d.vs = ValEncode(s.d.vs, x).s
      /\ f.d.r = Behind(s.d.r, 2) /\ s.d.r.pos + 2 <= Len(buf)
  <2> HIDE DEF code
  <2>1. Len(code) = 2 /\ \A i \in 1 .. 2 : code[i] = 0
    BY <1>2 DEF ZeroPair
  <2>2. s.d.r.pos = L + 2 * (m - k) /\ m >= k
    BY DEF L, m, k
  <2>3. Agrees(s.d.r, code)
    BY <1>2, PaddingAgrees
  <2>4. ~ (s.d.r.pos + 2 > Len(buf))
    <3>1. s.d.r.pos + 2 > Len(buf) => Torn(s.d.r, code)
      BY <2>1, <2>3 DEF Torn, buf
    <3>2. f.rc = "OK"
      BY DEF f
    <3> QED
      BY <1>4, <3>1, <3>2
  <2>5. s.d.r.pos + 2 <= Len(buf)
    <3>1. s.d.r.pos \in Nat
      BY <1>1 DEF Readers
    <3> QED
      BY <1>1, <2>4, <3>1
  <2>6. Whole(s.d.r, code)
    BY <2>1, <2>3, <2>5 DEF Whole, buf
  <2>7. FetchedCode(s, f, 0, x)
    BY <1>5, <2>6
  <2> QED
    BY <2>1, <2>5, <2>7 DEF FetchedCode, code
<1>7. f.d.r.pos = L + 2 * ((m + 1) - k) /\ m + 1 <= k + 3 /\ m + 1 > k
  <2>1. f.d.r.pos = s.d.r.pos + 2
    BY <1>6 DEF Behind
  <2>2. s.d.r.pos = L + 2 * (m - k) /\ m >= k
    BY DEF L, m, k
  <2> QED
    BY <1>1, <1>3, <1>6, <2>1, <2>2
<1>8. f.d.vs \in ValStates /\ f.d.vs.has_value = TRUE /\ f.d.vs.prev_bits = x
  BY <1>2, <1>6, ValEncodeFacts
<1>9. f.d.ts.prev_delta = s.d.ts.prev_delta
  BY <1>1, <1>6, SameDelta
<1>10. k >= 1 /\ m >= 1
  <2>1. k >= 1 /\ m >= k
    BY DEF k, m
  <2> QED
    BY <1>1, <2>1
<1>11. InPadding(f.d, m + 1)
  BY <1>7, <1>8, <1>10 DEF InPadding, k, L
<1>12. Bounded(m + 1)
  <2>1. ~ IsCut
    BY <1>1, OpenedFacts
  <2>2. accepted # << >>
    BY <1>1, <1>10, EmptySeq DEF Written, Histories
  <2> QED
    BY <1>7, <2>1, <2>2 DEF Bounded, k
<1>13. ~ (m + 1 <= k) /\ Sane(f.d)
  BY <1>1, <1>7, <1>8 DEF Sane
<1>14. RightPoint(st, s.d, f.d, m)
  BY <1>8, <1>9, <1>10, <1>11, <1>12, <1>13 DEF RightPoint, Place, k
<1> QED
  BY <1>14 DEF f, m

(* A stream without points ends with a byte: there is no padding.            *)
LEMMA NextIfEmpty ==
  ASSUME NEW st, Written(c, accepted, ends, st), NEW s \in Results, s.rc = "OK",
         Followed(st, s.d, s.out), IsWhole, InStream(st, s.d, Len(s.out)),
         Len(accepted) = 0
  PROVE  Fetched(s).rc = "ERR_EOF" /\ Fetched(s).d.vs \in ValStates
<1> DEFINE x == s.d.vs.prev_bits
           a == TsCode(0)
           b == ValEncode(s.d.vs, x).bits
           code == a \o b
           buf == s.d.r.buf
<1>1. /\ Len(s.out) \in Nat /\ source.points \in Nat /\ source.points <= 0
      /\ OpenedWith(buf) /\ Len(buf) \in Nat /\ Len(c.bits) \in Nat
  BY FollowedFacts
<1>2. s.d.vs = st[0].vs /\ s.d.r.pos = EndOf(ends, 0)
  <2>1. Len(s.out) = 0
    BY <1>1 DEF InStream
  <2> QED
    BY <2>1 DEF InStream
<1>3. s.d.vs \in ValStates
  <2>1. 0 \in 0 .. Len(accepted)
    OBVIOUS
  <2>2. st[0] \in CodecStates
    BY <2>1, StreamFacts
  <2> QED
    BY <1>2, <2>2 DEF CodecStates
<1>4. Len(c.bits) = TsBits
  <2>1. c.overflow = FALSE
    BY <1>1 DEF IsWhole, OpenedWith
  <2>2. InHand(c, EndOf(ends, 0), st[0])
    BY <2>1 DEF Written, RanOut
  <2> QED
    BY <2>2 DEF InHand, EndOf
<1>5. /\ Len(buf) <= Len(c.bits) + 7 /\ Len(buf) = 8 * source.given
      /\ source.given \in Nat
  BY <1>1 DEF IsWhole, OpenedWith, GivenBits
<1>6. s.d.r.pos = TsBits
  BY <1>2 DEF EndOf
<1> HIDE DEF buf
<1>7. Len(buf) <= TsBits
  <2> DEFINE h == HeaderBytes
             g == source.given
  <2>1. h \in Nat /\ 8 * h = TsBits /\ g \in Nat /\ 8 * g <= TsBits + 7
    BY <1>4, <1>5, Sizes
  <2> HIDE DEF h, g
  <2>2. 8 * g <= TsBits
    BY <2>1
  <2> QED
    BY <1>5, <2>2 DEF g
<1>8. x \in Value /\ 0 \in Int
  BY <1>3, StateFacts
<1>9. a \in Seq(Bit) /\ Len(a) = 1
  BY ZeroTime
<1>10. b \in Seq(Bit) /\ Len(b) \in Nat
  BY <1>3, <1>8, ValEncodeFacts, LenProperties
<1> HIDE DEF a, b
<1>11. code \in Seq(Bit) /\ Len(code) \in Nat /\ Len(code) > 0
  <2>1. code \in Seq(Bit) /\ Len(code) = Len(a) + Len(b)
    BY <1>9, <1>10, ConcatProperties
  <2> HIDE DEF code
  <2> QED
    BY <1>9, <1>10, <2>1
<1> HIDE DEF code
<1>12. Torn(s.d.r, code)
  <2>1. \A i \in 1 .. Len(code) : ~ (TsBits + i <= Len(buf))
    BY <1>1, <1>7, <1>11, Sizes DEF buf
  <2>2. TsBits + Len(code) > Len(buf)
    BY <1>1, <1>7, <1>11, Sizes DEF buf
  <2> QED
    BY <1>6, <2>1, <2>2 DEF Torn, Agrees, buf
<1> QED
  BY <1>3, <1>8, <1>12, FetchTorn DEF code, a, b

(* A call of decompress_next keeps the invariant. *)
LEMMA FollowedNext ==
  ASSUME NEW st, Written(c, accepted, ends, st), NEW s \in Results, s.rc = "OK",
         Followed(st, s.d, s.out)
  PROVE  Followed(st, Fetched(s).d, Fetched(s).out)
<1> DEFINE f == Fetched(s)
           m == Len(s.out)
           k == source.points
<1>1. FetchDone(s, f)
  BY FetchAny
<1>2. /\ m \in Nat /\ k \in Nat /\ k <= Len(accepted) /\ Len(accepted) \in Nat
      /\ s.d.r.eof \in BOOLEAN /\ OpenedWith(s.d.r.buf) /\ Len(c.bits) \in Nat
  BY FollowedFacts
<1>3. ASSUME m >= k, f.rc = "ERR_EOF", Sane(f.d) PROVE Followed(st, f.d, f.out)
  <2>1. FetchedNone(s, f)
    BY <1>1, <1>3 DEF FetchDone, FetchedOne
  <2> HIDE DEF f
  <2> QED
    BY <1>1, <1>3, <2>1, FollowedEnd
<1>4. ASSUME f.rc = "OK", RightPoint(st, s.d, f.d, m) PROVE Followed(st, f.d, f.out)
  <2>1. FetchedOne(s, f)
    BY <1>1, <1>4 DEF FetchDone, FetchedNone
  <2> HIDE DEF f
  <2> QED
    BY <1>1, <1>4, <2>1, FollowedOne
<1>5. f.rc \in {"OK", "ERR_EOF"}
  BY <1>1 DEF FetchDone, Results
<1>6. CASE s.d.r.eof = TRUE
  <2>1. m >= k
    BY <1>6 DEF Followed
  <2>2. f.rc = "ERR_EOF"
    BY <1>1, <1>6 DEF FetchDone, FetchedOne, FetchedNone
  <2>3. Sane(f.d)
    <3>1. f.d.vs = s.d.vs
      BY <1>6, FetchAtEnd
    <3>2. Sane(s.d)
      BY DEF Followed
    <3> HIDE DEF f
    <3> QED
      BY <3>1, <3>2 DEF Sane
  <2> QED
    BY <1>3, <2>1, <2>2, <2>3
<1>7. CASE s.d.r.eof = FALSE /\ InStream(st, s.d, m) /\ m < k
  BY <1>4, <1>7, NextInStream
<1>8. CASE s.d.r.eof = FALSE /\ InStream(st, s.d, m) /\ m = k
  <2>1. m >= k
    BY <1>2, <1>8
  <2>2. CASE IsCut
    <3>1. f.rc = "ERR_EOF" /\ f.d.vs \in ValStates
      BY <1>8, <2>2, NextIfCut
    <3> QED
      BY <1>3, <2>1, <3>1 DEF Sane
  <2>3. CASE IsWhole /\ Len(accepted) = 0
    <3>1. f.rc = "ERR_EOF" /\ f.d.vs \in ValStates
      BY <1>8, <2>3, NextIfEmpty
    <3> QED
      BY <1>3, <2>1, <3>1 DEF Sane
  <2>4. CASE IsWhole /\ Len(accepted) # 0
    <3>1. k = Len(accepted) /\ k >= 1
      <4>1. source.given >= source.finish
        BY <1>2, <2>4 DEF IsWhole, OpenedWith
      <4>2. k = Len(accepted)
        BY <1>2, <4>1, WholeHasAll
      <4> QED
        BY <1>2, <2>4, <4>2
    <3>2. c.overflow = FALSE
      BY <1>2, <2>4 DEF IsWhole, OpenedWith
    <3>3. Len(c.bits) = EndOf(ends, k)
      BY <3>1, <3>2 DEF Written, InHand, RanOut
    <3>4. s.d.vs = st[k].vs /\ s.d.r.pos = Len(c.bits) + 2 * (m - k)
      <4>1. 2 * (m - k) = 0
        BY <1>2, <1>8
      <4> QED
        BY <1>2, <1>8, <3>3, <4>1 DEF InStream
    <3>5. st[k].vs \in ValStates /\ st[k].vs.has_value = TRUE
      <4>1. k \in 1 .. k /\ k \in 1 .. Len(accepted) /\ k - 1 \in 0 .. Len(accepted)
        BY <1>2, <3>1
      <4>2. st[k] = AfterPoint(st[k - 1], accepted[k])
        BY <1>2, <4>1, GivenIsWhole
      <4>3. st[k - 1] \in CodecStates /\ accepted[k] \in Points
        BY <4>1, StreamFacts
      <4> QED
        BY <4>2, <4>3, PointFacts DEF PointDone, CodecStates
    <3>6. f.rc = "OK" => RightPoint(st, s.d, f.d, m)
      BY <1>8, <2>1, <2>4, <3>1, <3>4, <3>5, NextInPadding
    <3>7. Sane(f.d)
      <4>1. f.d.vs \in ValStates
        BY <1>8, <2>1, <2>4, <3>4, <3>5, PaddingEnds
      <4> QED
        BY <4>1 DEF Sane
    <3> QED
      BY <1>3, <1>4, <1>5, <2>1, <3>6, <3>7
  <2>5. CASE IsLong
    <3>1. ASSUME f.rc = "OK" PROVE RightPoint(st, s.d, f.d, m)
      <4>1. ~ IsCut /\ ~ IsWhole /\ Sane(f.d)
        BY <1>2, <2>5, OpenedFacts DEF Sane
      <4>2. m + 1 >= k /\ ~ (m + 1 <= k)
        BY <1>2, <2>1
      <4> QED
        BY <2>5, <4>1, <4>2 DEF RightPoint, Place, Beyond, Bounded
    <3>2. Sane(f.d)
      BY <2>5 DEF Sane
    <3> QED
      BY <1>3, <1>4, <1>5, <2>1, <3>1, <3>2
  <2> QED
    BY <1>2, <2>2, <2>3, <2>4, <2>5, OpenedFacts
<1>9. CASE s.d.r.eof = FALSE /\ InPadding(s.d, m)
  <2>1. m >= k
    BY <1>2, <1>9 DEF InPadding
  <2>2. f.rc = "OK" => RightPoint(st, s.d, f.d, m)
    BY <1>9, <2>1, NextInPadding DEF InPadding
  <2>3. Sane(f.d)
    <3>1. f.d.vs \in ValStates
      BY <1>9, <2>1, PaddingEnds DEF InPadding
    <3> QED
      BY <3>1 DEF Sane
  <2> QED
    BY <1>3, <1>4, <1>5, <2>1, <2>2, <2>3
<1>10. CASE s.d.r.eof = FALSE /\ Beyond(m)
  <2>1. m >= k /\ IsLong
    BY <1>10 DEF Beyond
  <2>2. ASSUME f.rc = "OK" PROVE RightPoint(st, s.d, f.d, m)
    <3>1. ~ IsCut /\ ~ IsWhole /\ Sane(f.d)
      BY <1>2, <2>1, OpenedFacts DEF Sane
    <3>2. m + 1 >= k /\ ~ (m + 1 <= k)
      BY <1>2, <2>1
    <3> QED
      BY <2>1, <3>1, <3>2 DEF RightPoint, Place, Beyond, Bounded
  <2>3. Sane(f.d)
    BY <2>1 DEF Sane
  <2> QED
    BY <1>3, <1>4, <1>5, <2>1, <2>2, <2>3
<1>11. s.d.r.eof = FALSE => Place(st, s.d, m)
  BY DEF Followed
<1>12. InStream(st, s.d, m) => m < k \/ m = k
  BY <1>2 DEF InStream
<1> QED
  BY <1>2, <1>6, <1>7, <1>8, <1>9, <1>10, <1>11, <1>12 DEF Place

-----------------------------------------------------------------------------
(* Opening a decompressor. *)
(* GivenBits, of len bytes of the buffer. *)
FirstBytes(buf, len, finish) ==
  /\ buf \in Seq(Bit) /\ Len(buf) = 8 * len
  /\ \A i \in 1 .. Len(buf) : i <= Len(c.bits) => buf[i] = c.bits[i]
  /\ len < finish => Len(buf) < Len(c.bits)
  /\ len >= finish => Len(buf) >= Len(c.bits)
  /\ len = finish =>
       /\ Len(buf) <= Len(c.bits) + 7
       /\ \A i \in 1 .. Len(buf) : i > Len(c.bits) => buf[i] = 0

(* gorillats_compressor_finish rounds up to bytes. *)
LEMMA FinishRoundsUp ==
  ASSUME WInv
  PROVE  /\ FinishLen \in Nat
         /\ Len(c.bits) <= 8 * FinishLen /\ 8 * FinishLen <= Len(c.bits) + 7
<1> DEFINE L == Len(c.bits)
           F == FinishLen
<1>1. L \in Nat
  BY WInvFacts, LenProperties DEF Compressors
<1>2. F = (L + 7) \div 8
  BY DEF FinishLen
<1> HIDE DEF L, F
<1>3. L + 7 \in Int /\ 8 \in Nat \ {0}
  BY <1>1
<1>4. /\ (L + 7) \div 8 \in Int /\ (L + 7) % 8 \in 0 .. 8 - 1
      /\ L + 7 = 8 * ((L + 7) \div 8) + ((L + 7) % 8)
  BY <1>3, DivMod
<1> DEFINE r == (L + 7) % 8
<1>5. F \in Int /\ r \in 0 .. 7 /\ L + 7 = 8 * F + r
  BY <1>2, <1>4
<1> HIDE DEF r
<1>6. F \in Nat /\ L <= 8 * F /\ 8 * F <= L + 7
  BY <1>1, <1>5
<1> QED
  BY <1>6 DEF F, L

(* The byte the last bit of the stream is in. *)
LEMMA SameByte ==
  ASSUME NEW l \in Nat, NEW finish \in Nat, 8 * finish <= l + 7,
         NEW i \in Nat, i > l, i <= 8 * finish
  PROVE  (i - 1) \div 8 = l \div 8
<1> DEFINE q == l \div 8
           r == l % 8
<1>1. q \in Int /\ r \in 0 .. 7 /\ l = 8 * q + r
  <2>1. l \in Int /\ 8 \in Nat \ {0}
    OBVIOUS
  <2>2. q \in Int /\ r \in 0 .. 8 - 1 /\ l = 8 * q + r
    BY <2>1, DivMod
  <2> HIDE DEF q, r
  <2> QED
    BY <2>2
<1> HIDE DEF q, r
<1>2. finish <= q + 1
  BY <1>1
<1>3. (i - 1) - 8 * q \in 0 .. 7
  BY <1>1, <1>2
<1> DEFINE x == (i - 1) - 8 * q
<1>4. i - 1 = 8 * q + x /\ i - 1 \in Int /\ 8 \in Nat \ {0} /\ x \in 0 .. 8 - 1
  BY <1>1, <1>3
<1> HIDE DEF x
<1>5. (i - 1) \div 8 = q
  BY <1>1, <1>4, DivModUnique
<1> QED
  BY <1>5 DEF q

(* The first bytes of the buffer: the stream, and zeros to the end of its    *)
(* last byte.                                                                *)
LEMMA MemoryFacts ==
  ASSUME WInv, NEW len \in 0 .. cap
  PROVE  FirstBytes(SubSeq(Memory, 1, 8 * len), len, FinishLen)
<1> DEFINE L == Len(c.bits)
           F == FinishLen
           buf == SubSeq(Memory, 1, 8 * len)
<1>1. /\ L \in Nat /\ cap \in Nat /\ c.bits \in Seq(Bit) /\ fill \in Fills /\ len \in Nat
      /\ L <= 8 * cap
  <2>1. cap \in Nat /\ c \in Compressors(cap) /\ fill \in Fills
    BY WInvFacts DEF WInv
  <2>2. c.bits \in Seq(Bit) /\ L <= 8 * cap
    BY <2>1 DEF Compressors
  <2>3. L \in Nat
    BY <2>2, LenProperties
  <2>4. len \in Nat
    BY <2>1
  <2> QED
    BY <2>1, <2>2, <2>3, <2>4
<1>2. F \in Nat /\ L <= 8 * F /\ 8 * F <= L + 7
  BY FinishRoundsUp
<1>3. /\ Memory \in Seq(Bit) /\ Len(Memory) = 8 * cap
      /\ \A i \in 1 .. 8 * cap :
           /\ i <= L => Memory[i] = c.bits[i]
           /\ i > L /\ (i - 1) \div 8 = L \div 8 => Memory[i] = 0
  <2>1. \A i \in 1 .. 8 * cap :
          Memory[i] = IF i <= L THEN c.bits[i]
                      ELSE IF (i - 1) \div 8 = L \div 8 THEN 0 ELSE fill[((i - 1) % 8) + 1]
    BY DEF Memory
  <2>2. \A i \in 1 .. 8 * cap : i <= L => c.bits[i] \in Bit
    BY <1>1, ElementOfSeq
  <2> HIDE DEF L
  <2>3. \A i \in 1 .. 8 * cap : Memory[i] \in Bit
    <3>1. fill \in [1 .. 8 -> Bit]
      BY <1>1, StreamAssumption
    <3>2. \A i \in 1 .. 8 * cap : ((i - 1) % 8) + 1 \in 1 .. 8
      BY <1>1
    <3>3. \A i \in 1 .. 8 * cap : fill[((i - 1) % 8) + 1] \in Bit
      BY <3>1, <3>2
    <3>4. 0 \in Bit
      BY DEF Bit
    <3> QED
      BY <2>1, <2>2, <3>3, <3>4
  <2>4. Memory \in [1 .. 8 * cap -> Bit]
    BY <2>3 DEF Memory
  <2>5. 8 * cap \in Nat
    BY <1>1
  <2>6. Memory \in Seq(Bit) /\ Len(Memory) = 8 * cap
    BY <2>4, <2>5, BitsLength
  <2>7. \A i \in 1 .. 8 * cap : i > L => ~ (i <= L)
    BY <1>1
  <2> QED
    BY <2>1, <2>6, <2>7
<1>4. 8 * len \in 0 .. Len(Memory)
  BY <1>1, <1>3
<1>5. buf \in Seq(Bit) /\ Len(buf) = 8 * len /\ \A i \in 1 .. 8 * len : buf[i] = Memory[i]
  <2> DEFINE k == 8 * len
  <2>1. k \in 0 .. Len(Memory)
    BY <1>4
  <2> HIDE DEF k
  <2>2. /\ SubSeq(Memory, 1, k) \in Seq(Bit) /\ Len(SubSeq(Memory, 1, k)) = k
        /\ \A i \in 1 .. k : SubSeq(Memory, 1, k)[i] = Memory[i]
    BY <1>3, <2>1, FirstOf
  <2> QED
    BY <2>2 DEF k
<1> HIDE DEF buf, F, L
<1>6. \A i \in 1 .. Len(buf) : i \in 1 .. 8 * cap /\ buf[i] = Memory[i]
  BY <1>1, <1>5
<1>7. \A i \in 1 .. Len(buf) : i <= L => buf[i] = c.bits[i]
  BY <1>3, <1>6
<1>8. ASSUME len = F, NEW i \in 1 .. Len(buf), i > L PROVE buf[i] = 0
  <2>1. i \in Nat /\ i <= 8 * F
    BY <1>1, <1>5, <1>8
  <2>2. (i - 1) \div 8 = L \div 8
    BY <1>1, <1>2, <1>8, <2>1, SameByte
  <2> QED
    BY <1>3, <1>6, <1>8, <2>2
<1>9. /\ len < F => Len(buf) < L
      /\ len >= F => Len(buf) >= L
      /\ len = F => Len(buf) <= L + 7
  BY <1>1, <1>2, <1>5
<1>10. FirstBytes(buf, len, F)
  BY <1>5, <1>7, <1>8, <1>9 DEF FirstBytes, L
<1> QED
  BY <1>10 DEF buf, F

(* How many points end in the first len bytes. *)
LEMMA PointsCounted ==
  ASSUME NEW st, Written(c, accepted, ends, st), NEW len \in Nat, len >= HeaderBytes
  PROVE  \E k \in 0 .. Len(accepted) :
           /\ Cardinality({i \in 1 .. Len(ends) : ends[i] <= 8 * len}) = k
           /\ \A i \in 0 .. Len(accepted) : i <= k <=> EndOf(ends, i) <= 8 * len
<1> DEFINE n == Len(accepted)
           S == {i \in 0 .. n : EndOf(ends, i) <= 8 * len}
<1>1. n \in Nat /\ Len(ends) = n /\ \A i \in 0 .. n : EndOf(ends, i) \in Nat
  BY StreamFacts DEF Written, Histories
<1>2. 0 \in S
  <2>1. TsBits <= 8 * len
    BY Sizes
  <2>2. 0 \in 0 .. n
    BY <1>1
  <2> QED
    BY <2>1, <2>2 DEF EndOf
<1>3. PICK k \in S : \A i \in S : k >= i
  <2>1. S \in SUBSET (0 .. n) /\ S # {}
    BY <1>2
  <2> HIDE DEF S
  <2> QED
    BY <1>1, <2>1, GreatestExists
<1>4. k \in 0 .. n /\ EndOf(ends, k) <= 8 * len
  OBVIOUS
<1>5. ASSUME NEW i \in 0 .. n PROVE i <= k <=> EndOf(ends, i) <= 8 * len
  <2>1. ASSUME i <= k PROVE EndOf(ends, i) <= 8 * len
    <3>1. i \in 0 .. k
      BY <1>1, <1>4, <2>1
    <3>2. EndOf(ends, i) + 2 * (k - i) <= EndOf(ends, k)
      BY <1>4, <3>1, EndsGrow
    <3>3. EndOf(ends, i) \in Nat /\ EndOf(ends, k) \in Nat
      BY <1>1, <1>4
    <3> HIDE DEF n, S
    <3> QED
      BY <1>1, <1>4, <3>1, <3>2, <3>3
  <2>2. ASSUME EndOf(ends, i) <= 8 * len PROVE i <= k
    <3>1. i \in S
      BY <2>2
    <3>2. k >= i
      BY <1>3, <3>1
    <3> QED
      BY <1>1, <1>4, <3>2
  <2> QED
    BY <2>1, <2>2
<1> HIDE DEF S
<1>6. {i \in 1 .. Len(ends) : ends[i] <= 8 * len} = 1 .. k
  <2>1. ASSUME NEW i \in 1 .. n PROVE ends[i] <= 8 * len <=> i <= k
    <3>1. i \in 0 .. n /\ i # 0
      BY <1>1
    <3> QED
      BY <1>5, <3>1 DEF EndOf
  <2>2. \A i \in 1 .. k : i \in 1 .. n /\ i <= k
    BY <1>1, <1>4
  <2>3. \A i \in 1 .. n : i <= k => i \in 1 .. k
    BY <1>1, <1>4
  <2> QED
    BY <1>1, <2>1, <2>2, <2>3
<1>7. Cardinality(1 .. k) = k
  <2>1. 1 \in Int /\ k \in Int /\ k \in Nat
    BY <1>4
  <2>2. Cardinality(1 .. k) = IF 1 > k THEN 0 ELSE k - 1 + 1
    BY <2>1, FS_Interval
  <2> QED
    BY <2>1, <2>2
<1> QED
  BY <1>4, <1>5, <1>6, <1>7

(* The reader behind the block timestamp, which is what it started with. *)
LEMMA HeaderRead ==
  ASSUME NEW st, Written(c, accepted, ends, st), NEW len \in Nat, len >= HeaderBytes,
         NEW buf, FirstBytes(buf, len, FinishLen)
  PROVE  /\ Get(ReaderOn(buf), TsBits).r = At(buf, TsBits)
         /\ At(buf, TsBits) \in Readers
         /\ TsStart(SignExtend(Get(ReaderOn(buf), TsBits).bits)) = st[0].ts
         /\ ValStart = st[0].vs
<1>1. PICK t0 \in BlockTimestamps :
        st[0] = StartAt(t0) /\ Whole(At(c.bits, 0), FieldBits(t0, TsBits))
  BY DEF Written, BlockStart
<1> DEFINE h == FieldBits(t0, TsBits)
<1>2. t0 \in Timestamp /\ t0 \in Int
  BY StreamAssumption, TimesAreTimestamps
<1>3. h \in Seq(Bit) /\ Len(h) = TsBits
  BY <1>2, Sizes, FieldType
<1>4. SignExtend(h) = t0
  BY <1>2, Sizes, SignExtendField DEF Timestamp
<1> HIDE DEF h
<1>5. /\ buf \in Seq(Bit) /\ Len(buf) = 8 * len /\ Len(buf) \in Nat
      /\ \A i \in 1 .. Len(buf) : i <= Len(c.bits) => buf[i] = c.bits[i]
  BY LenProperties DEF FirstBytes
<1>6. TsBits <= Len(buf)
  BY <1>5, Sizes
<1>7. /\ \A i \in 1 .. Len(h) : 0 + i <= Len(c.bits) => c.bits[0 + i] = h[i]
      /\ 0 + Len(h) <= Len(c.bits)
  BY <1>1 DEF Whole, Agrees, At, h
<1>8. /\ ReaderOn(buf) = At(buf, 0) /\ ReaderOn(buf) \in Readers
      /\ ReaderOn(buf).pos = 0 /\ ReaderOn(buf).eof = FALSE /\ ReaderOn(buf).buf = buf
  BY <1>5 DEF ReaderOn, At, Readers
<1>9. Whole(ReaderOn(buf), h)
  <2>1. ASSUME NEW i \in 1 .. Len(h) PROVE buf[0 + i] = h[i]
    <3>1. 0 + i = i /\ i \in 1 .. Len(buf) /\ i <= Len(c.bits) /\ 0 + i <= Len(c.bits)
      <4>1. Len(c.bits) \in Nat
        BY StreamFacts
      <4> QED
        BY <1>3, <1>5, <1>6, <1>7, <4>1, Sizes
    <3> QED
      BY <1>5, <1>7, <3>1
  <2>2. 0 + Len(h) <= Len(buf)
    BY <1>3, <1>5, <1>6, Sizes
  <2> QED
    BY <1>8, <2>1, <2>2 DEF Whole, Agrees
<1>10. /\ Get(ReaderOn(buf), Len(h)).bits = h
       /\ Get(ReaderOn(buf), Len(h)).r = Behind(ReaderOn(buf), Len(h))
       /\ Get(ReaderOn(buf), Len(h)).r \in Readers
  BY <1>3, <1>8, <1>9, WholeRead
<1>11. Behind(ReaderOn(buf), TsBits) = At(buf, TsBits)
  <2>1. 0 + TsBits = TsBits
    BY Sizes
  <2> QED
    BY <1>8, <2>1 DEF Behind, At
<1> QED
  BY <1>1, <1>3, <1>4, <1>10, <1>11 DEF StartAt

(* A new decompressor is behind the block timestamp, in the state the        *)
(* compressor started in.                                                    *)
LEMMA OpenFollows ==
  ASSUME WInv, NEW st, Written(c, accepted, ends, st), NEW len \in 0 .. cap, Open(len)
  PROVE  Followed(st, d, out)' /\ d'.r.eof = FALSE
<1> DEFINE buf == SubSeq(Memory, 1, 8 * len)
           header == Get(ReaderOn(buf), TsBits)
           K == Cardinality({i \in 1 .. Len(ends) : ends[i] <= 8 * len})
<1>1. /\ len >= HeaderBytes /\ len \in Nat /\ len <= cap
      /\ d' = [r |-> header.r, ts |-> TsStart(SignExtend(header.bits)), vs |-> ValStart]
      /\ out' = << >>
      /\ source' = [given |-> len, finish |-> FinishLen, torn |-> c.overflow, points |-> K]
      /\ c' = c /\ accepted' = accepted /\ ends' = ends
  BY WInvFacts DEF Open, writer
<1>2. FirstBytes(buf, len, FinishLen)
  BY MemoryFacts
<1>3. K \in 0 .. Len(accepted) /\ \A i \in 0 .. Len(accepted) : i <= K <=> EndOf(ends, i) <= 8 * len
  <2>1. PICK k \in 0 .. Len(accepted) :
          /\ K = k
          /\ \A i \in 0 .. Len(accepted) : i <= k <=> EndOf(ends, i) <= 8 * len
    BY <1>1, PointsCounted
  <2> HIDE DEF K
  <2> QED
    BY <2>1
<1> HIDE DEF K, buf
<1>4. /\ header.r = At(buf, TsBits) /\ At(buf, TsBits) \in Readers
      /\ TsStart(SignExtend(header.bits)) = st[0].ts
      /\ ValStart = st[0].vs
  BY <1>1, <1>2, HeaderRead
<1> HIDE DEF header
<1>5. d'.r = At(buf, TsBits) /\ d'.ts = st[0].ts /\ d'.vs = st[0].vs
      /\ d' = [r |-> At(buf, TsBits), ts |-> st[0].ts, vs |-> st[0].vs]
  BY <1>1, <1>4
<1>6. d'.r.buf = buf /\ d'.r.pos = TsBits /\ d'.r.eof = FALSE
  BY <1>5 DEF At
<1>7. /\ source'.given = len /\ source'.finish = FinishLen
      /\ source'.torn = c.overflow /\ source'.points = K
  BY <1>1
<1>8. d' \in Decoders /\ d'.vs \in ValStates
  <2>1. st[0] \in CodecStates
    <3>1. 0 \in 0 .. Len(accepted)
      BY StreamFacts
    <3> QED
      BY <3>1, StreamFacts
  <2>2. d'.vs \in ValStates
    BY <1>5, <2>1 DEF CodecStates
  <2> QED
    BY <1>4, <1>5, <2>1, <2>2, ProperIsLoose DEF CodecStates, Decoders
<1>9. c.overflow \in BOOLEAN /\ FinishLen \in Nat /\ cap \in Nat
  BY WInvFacts, FinishRoundsUp
<1>10. c.overflow = TRUE => len <= FinishLen /\ 8 * len <= Len(c.bits)
  <2> SUFFICES ASSUME c.overflow = TRUE PROVE len <= FinishLen /\ 8 * len <= Len(c.bits)
    OBVIOUS
  <2>1. RanOut(c, EndOf(ends, Len(accepted)), st[Len(accepted)])
    BY DEF Written, InHand
  <2>2. Len(c.bits) = 8 * cap
    BY <2>1 DEF RanOut
  <2>3. Len(c.bits) <= 8 * FinishLen
    BY FinishRoundsUp
  <2> HIDE DEF FinishLen
  <2> QED
    BY <1>1, <1>9, <2>2, <2>3
<1> HIDE DEF FinishLen
<1>11. OpenedWith(d.r.buf)'
  <2>1. GivenBits(d.r.buf)'
    BY <1>1, <1>2, <1>6, <1>7 DEF GivenBits, FirstBytes
  <2> QED
    BY <1>1, <1>3, <1>7, <1>9, <1>10, <2>1 DEF OpenedWith
<1>12. Len(out') = 0 /\ out' \in Seq(Pairs)
  BY <1>1, EmptySeq
<1>13. Kept(out)' /\ Repeats(out)'
  <2>1. \A i : i \notin 1 .. 0
    OBVIOUS
  <2>2. \A i : i \notin K + 1 .. 0
    BY <1>3
  <2> QED
    BY <1>7, <1>12, <2>1, <2>2 DEF Kept, Repeats
<1>14. Bounded(Len(out))'
  <2>1. 0 <= K /\ 0 <= K + 3
    BY <1>3
  <2> QED
    BY <1>7, <1>12, <2>1 DEF Bounded
<1>15. Latest(d, out)'
  BY <1>12 DEF Latest
<1>16. Place(st, d, Len(out))'
  <2>1. 0 <= K
    BY <1>3
  <2> QED
    BY <1>1, <1>5, <1>6, <1>7, <1>12, <2>1 DEF Place, InStream, EndOf
<1>17. d'.r.pos >= TsBits + 2 * Len(out')
  BY <1>6, <1>12, Sizes
<1>18. Sane(d)'
  BY <1>8 DEF Sane
<1> QED
  BY <1>6, <1>8, <1>11, <1>12, <1>13, <1>14, <1>15, <1>16, <1>17, <1>18 DEF Followed

-----------------------------------------------------------------------------
(* A decompressor that is called. *)
(* What a call of it, or some of the loop of decompress_batch, has led to.   *)
ReadOn(st, s) ==
  /\ s \in Results
  /\ Followed(st, s.d, s.out)
  /\ Len(s.out) >= Len(out)
  /\ \A i \in 1 .. Len(out) : s.out[i] = out[i]
  /\ d.r.eof = TRUE => s.d.r.eof = TRUE /\ s.out = out

(* Before the call. *)
LEMMA NowIsRead ==
  ASSUME NEW st, Written(c, accepted, ends, st), Followed(st, d, out)
  PROVE  ReadOn(st, Now)
<1>1. d \in Decoders /\ out \in Seq(Pairs)
  BY DEF Followed
<1>2. Now = [rc |-> "OK", d |-> d, out |-> out]
  BY DEF Now
<1>3. Now \in Results /\ Now.d = d /\ Now.out = out
  BY <1>1, <1>2 DEF Results
<1>4. Len(out) \in Nat
  BY <1>1, LenProperties
<1>5. Len(Now.out) >= Len(out)
  BY <1>3, <1>4
<1> QED
  BY <1>3, <1>5 DEF ReadOn

(* One point of it. *)
LEMMA FetchReads ==
  ASSUME NEW st, Written(c, accepted, ends, st), NEW s, ReadOn(st, s), s.rc = "OK"
  PROVE  ReadOn(st, Fetched(s))
<1> DEFINE f == Fetched(s)
<1>1. s \in Results /\ Followed(st, s.d, s.out)
  BY DEF ReadOn
<1>2. FetchDone(s, f)
  BY <1>1, FetchAny
<1>3. Followed(st, f.d, f.out)
  BY <1>1, FollowedNext
<1> HIDE DEF f
<1>4. f \in Results /\ s.out \in Seq(Pairs) /\ Len(s.out) \in Nat
  BY <1>1, <1>2, LenProperties DEF FetchDone, Results
<1>5. Len(s.out) >= Len(out) /\ \A i \in 1 .. Len(out) : s.out[i] = out[i]
  BY DEF ReadOn
<1>6. CASE FetchedNone(s, f)
  <2>1. f.out = s.out /\ f.d.r.eof = TRUE
    BY <1>6 DEF FetchedNone
  <2>2. ReadOn(st, f)
    BY <1>3, <1>4, <1>5, <2>1 DEF ReadOn
  <2> QED
    BY <2>2 DEF f
<1>7. CASE FetchedOne(s, f)
  <2> DEFINE x == [ts |-> f.d.ts.prev_ts, val |-> f.d.vs.prev_bits]
  <2>1. f.out = Append(s.out, x) /\ s.d.r.eof = FALSE
    BY <1>7 DEF FetchedOne
  <2>2. x \in Pairs
    BY <1>4 DEF Results, Decoders, TsStates, LooseStates, Pairs
  <2> HIDE DEF x
  <2>3. /\ Len(f.out) = Len(s.out) + 1
        /\ \A i \in 1 .. Len(s.out) : f.out[i] = s.out[i]
    BY <1>4, <2>1, <2>2, AppendProperties
  <2>4. Len(f.out) >= Len(out) /\ \A i \in 1 .. Len(out) : f.out[i] = out[i]
    <3> DEFINE l == Len(out)
               m == Len(s.out)
    <3>1. \A i \in 1 .. l : i \in 1 .. m
      BY <1>4, <1>5
    <3> HIDE DEF l, m
    <3>2. \A i \in 1 .. l : f.out[i] = out[i]
      BY <1>5, <2>3, <3>1 DEF l, m
    <3> QED
      BY <1>4, <1>5, <2>3, <3>2 DEF l, m
  <2>5. d.r.eof # TRUE
    BY <2>1 DEF ReadOn
  <2>6. ReadOn(st, f)
    BY <1>3, <1>4, <2>4, <2>5 DEF ReadOn
  <2> QED
    BY <2>6 DEF f
<1> QED
  BY <1>2, <1>6, <1>7 DEF FetchDone

(* What Delivered says of a call that has come to s, with i points asked for. *)
Stepped(s, i) ==
  /\ s.d.r.pos >= d.r.pos + 2 * (Len(s.out) - Len(out))
  /\ \/ s.rc = "OK" /\ Len(s.out) = Len(out) + i
     \/ s.rc = "ERR_EOF" /\ s.d.r.eof = TRUE /\ Len(s.out) < Len(out) + i

LEMMA NowIsStepped ==
  ASSUME NEW st, Written(c, accepted, ends, st), Followed(st, d, out)
  PROVE  Stepped(Now, 0)
<1>1. d.r.pos \in Nat /\ Len(out) \in Nat
  BY FollowedFacts
<1>2. Now.d = d /\ Now.out = out /\ Now.rc = "OK"
  BY DEF Now
<1> DEFINE m == Len(out)
<1> HIDE DEF m
<1>3. d.r.pos >= d.r.pos + 2 * (m - m) /\ m = m + 0
  BY <1>1 DEF m
<1> QED
  BY <1>2, <1>3 DEF Stepped, m

(* One round of the loop. *)
LEMMA StepMoves ==
  ASSUME NEW st, Written(c, accepted, ends, st), Followed(st, d, out),
         NEW s, ReadOn(st, s), NEW i \in Nat, Stepped(s, i)
  PROVE  Stepped(ReadStep(s), i + 1)
<1> DEFINE f == Fetched(s)
           l == Len(out)
           m == Len(s.out)
           k == Len(f.out)
<1>1. d.r.pos \in Nat /\ l \in Nat
  BY FollowedFacts
<1>2. s \in Results /\ Followed(st, s.d, s.out)
  BY DEF ReadOn
<1>3. s.d.r.pos \in Nat /\ m \in Nat /\ s.out \in Seq(Pairs)
  BY <1>2, FollowedFacts
<1>4. CASE s.rc # "OK"
  <2>1. ReadStep(s) = s
    BY <1>4 DEF ReadStep
  <2>2. m < l + i => m < l + (i + 1)
    BY <1>1, <1>3
  <2> QED
    BY <1>4, <2>1, <2>2 DEF Stepped
<1>5. CASE s.rc = "OK"
  <2>1. FetchDone(s, f)
    BY <1>2, <1>5, FetchAny
  <2>2. ReadStep(s) = f
    BY <1>5 DEF ReadStep
  <2> HIDE DEF f
  <2>3. f \in Results /\ f.d.r.pos \in Nat /\ f.d.r.pos >= s.d.r.pos
    BY <2>1 DEF FetchDone, Results, Decoders, Readers
  <2>4. m = l + i /\ s.d.r.pos >= d.r.pos + 2 * (m - l)
    BY <1>5 DEF Stepped
  <2>5. CASE FetchedNone(s, f)
    <3>1. f.rc = "ERR_EOF" /\ f.d.r.eof = TRUE /\ k = m
      BY <2>5 DEF FetchedNone
    <3>2. f.d.r.pos >= d.r.pos + 2 * (k - l) /\ k < l + (i + 1)
      <4> HIDE DEF k, l, m
      <4> QED
        BY <1>1, <1>3, <2>3, <2>4, <3>1
    <3> QED
      BY <2>2, <3>1, <3>2 DEF Stepped
  <2>6. CASE FetchedOne(s, f)
    <3> DEFINE x == [ts |-> f.d.ts.prev_ts, val |-> f.d.vs.prev_bits]
    <3>1. f.rc = "OK" /\ f.out = Append(s.out, x) /\ f.d.r.pos >= s.d.r.pos + 2
      BY <2>6 DEF FetchedOne
    <3>2. x \in Pairs
      BY <2>3 DEF Results, Decoders, TsStates, LooseStates, Pairs
    <3> HIDE DEF x
    <3>3. k = m + 1
      BY <1>3, <3>1, <3>2, AppendProperties
    <3>4. f.d.r.pos >= d.r.pos + 2 * (k - l) /\ k = l + (i + 1)
      <4> DEFINE u == s.d.r.pos
                 v == f.d.r.pos
                 w == d.r.pos
      <4>1. /\ u \in Nat /\ v \in Nat /\ w \in Nat /\ l \in Nat /\ m \in Nat
            /\ m = l + i /\ u >= w + 2 * (m - l) /\ v >= u + 2 /\ k = m + 1
        BY <1>1, <1>3, <2>3, <2>4, <3>1, <3>3
      <4> HIDE DEF k, l, m, u, v, w
      <4>2. k = l + (i + 1)
        BY <4>1
      <4>3. v >= w + 2 * (k - l)
        BY <4>1, <4>2
      <4> QED
        BY <4>2, <4>3 DEF u, v, w
    <3> QED
      BY <2>2, <3>1, <3>4 DEF Stepped
  <2> QED
    BY <2>1, <2>5, <2>6 DEF FetchDone
<1> QED
  BY <1>4, <1>5

(* All of gorillats_decompress_batch. *)
LEMMA LoopReads ==
  ASSUME NEW st, Written(c, accepted, ends, st), Followed(st, d, out),
         NEW n \in Nat, DecompressBatch(n)
  PROVE  \E s : ReadOn(st, s) /\ Stepped(s, n) /\ Take(s)
<1> DEFINE S == Results
           step == [i \in 1 .. n |-> [s \in S |-> ReadStep(s)]]
           after == CHOOSE f : f = [i \in 0 .. n |-> IF i = 0 THEN Now ELSE ReadStep(f[i - 1])]
<1>1. ReadOn(st, Now) /\ Now \in S
  BY NowIsRead DEF ReadOn
<1>2. \A s \in S : ReadStep(s) \in S
  <2> SUFFICES ASSUME NEW s \in S PROVE ReadStep(s) \in S
    OBVIOUS
  <2>1. CASE s.rc = "OK"
    BY <2>1, FetchAny DEF FetchDone, ReadStep
  <2>2. CASE s.rc # "OK"
    BY <2>2 DEF ReadStep
  <2> QED
    BY <2>1, <2>2
<1>3. step \in [1 .. n -> [S -> S]]
  <2> HIDE DEF S
  <2> QED
    BY <1>2
<1>4. \A i \in 1 .. n, s \in S : step[i][s] = ReadStep(s)
  OBVIOUS
<1> HIDE DEF S, step
<1>5. PICK f : Loops(f, Now, step, n, S)
  BY <1>1, <1>3, LoopExists
<1>6. f \in [0 .. n -> S] /\ f[0] = Now /\ \A i \in 1 .. n : f[i] = ReadStep(f[i - 1])
  <2>1. f \in [0 .. n -> S] /\ f[0] = Now /\ \A i \in 1 .. n : f[i] = step[i][f[i - 1]]
    BY <1>5 DEF Loops
  <2>2. \A i \in 1 .. n : i - 1 \in 0 .. n
    OBVIOUS
  <2> QED
    BY <1>4, <2>1, <2>2
<1>7. f = [i \in 0 .. n |-> IF i = 0 THEN Now ELSE ReadStep(f[i - 1])]
  <2>1. ASSUME NEW i \in 0 .. n PROVE f[i] = IF i = 0 THEN Now ELSE ReadStep(f[i - 1])
    <3>1. i = 0 \/ i \in 1 .. n
      OBVIOUS
    <3> QED
      BY <1>6, <3>1
  <2> QED
    BY <1>6, <2>1
<1>8. after = [i \in 0 .. n |-> IF i = 0 THEN Now ELSE ReadStep(after[i - 1])]
  BY <1>7
<1>9. Take(after[n])
  BY DEF DecompressBatch
<1> HIDE DEF after
<1>10. after[0] = Now /\ \A i \in 1 .. n : after[i] = ReadStep(after[i - 1])
  <2>1. 0 \in 0 .. n /\ \A i \in 1 .. n : i \in 0 .. n /\ i # 0
    OBVIOUS
  <2> QED
    BY <1>8, <2>1
<1> DEFINE V == {i \in Nat : i <= n => ReadOn(st, after[i]) /\ Stepped(after[i], i)}
<1>11. V = Nat
  <2>1. 0 \in V
    BY <1>1, <1>10, NowIsStepped
  <2>2. ASSUME NEW i \in V PROVE i + 1 \in V
    <3> SUFFICES ASSUME i + 1 <= n
                 PROVE  ReadOn(st, after[i + 1]) /\ Stepped(after[i + 1], i + 1)
      OBVIOUS
    <3>1. i + 1 \in 1 .. n /\ (i + 1) - 1 = i /\ i <= n
      OBVIOUS
    <3>2. ReadOn(st, after[i]) /\ Stepped(after[i], i) /\ i \in Nat
      BY <3>1
    <3>3. after[i + 1] = ReadStep(after[i])
      BY <1>10, <3>1
    <3>4. ASSUME after[i].rc = "OK" PROVE ReadOn(st, after[i + 1])
      BY <3>2, <3>3, <3>4, FetchReads DEF ReadStep
    <3>5. ASSUME after[i].rc # "OK" PROVE ReadOn(st, after[i + 1])
      BY <3>2, <3>3, <3>5 DEF ReadStep
    <3>6. Stepped(ReadStep(after[i]), i + 1)
      BY <3>2, StepMoves
    <3> QED
      BY <3>3, <3>4, <3>5, <3>6
  <2>3. V \in SUBSET Nat
    OBVIOUS
  <2> HIDE DEF V
  <2> QED
    BY <2>1, <2>2, <2>3, SetInduction
<1>12. ReadOn(st, after[n]) /\ Stepped(after[n], n)
  BY <1>11
<1> QED
  BY <1>9, <1>12

-----------------------------------------------------------------------------
(* The invariant. *)
IInv ==
  /\ WInv
  /\ reading \in BOOLEAN
  /\ d_rc \in Statuses \ {"ERR_OVERFLOW"}
  /\ reading => \E st : Written(c, accepted, ends, st) /\ Followed(st, d, out)

(* The invariant depends on these variables only. *)
LEMMA FollowedSame ==
  ASSUME NEW st, NEW dd, NEW o, Followed(st, dd, o), d' = dd, out' = o,
         UNCHANGED <<c, accepted, ends, source>>
  PROVE  Followed(st, d, out)'
<1>1. /\ c' = c /\ accepted' = accepted /\ ends' = ends /\ source' = source
      /\ d' = dd /\ out' = o
  OBVIOUS
<1>2. OpenedWith(d.r.buf)'
  <2>1. OpenedWith(dd.r.buf)
    BY DEF Followed
  <2> QED
    BY <1>1, <2>1 DEF OpenedWith, GivenBits
<1>3. Kept(out)' /\ Repeats(out)' /\ Bounded(Len(out))' /\ Latest(d, out)' = Latest(dd, o)
  <2>1. Kept(o) /\ Repeats(o) /\ Bounded(Len(o))
    BY DEF Followed
  <2>2. Kept(out)'
    BY <1>1, <2>1 DEF Kept
  <2>3. Repeats(out)'
    BY <1>1, <2>1 DEF Repeats, IsWhole
  <2>4. Bounded(Len(out))'
    BY <1>1, <2>1 DEF Bounded, IsCut, IsWhole
  <2> QED
    BY <1>1, <2>2, <2>3, <2>4
<1>4. Place(st, dd, Len(o)) => Place(st, d, Len(out))'
  BY <1>1 DEF Place, InStream, InPadding, Beyond, IsWhole, IsLong
<1>5. /\ d' \in Decoders /\ out' \in Seq(Pairs) /\ d'.r.pos >= TsBits + 2 * Len(out')
      /\ source'.points = source.points
      /\ Sane(d)'
  BY <1>1 DEF Followed, Sane, IsLong
<1> QED
  BY <1>1, <1>2, <1>3, <1>4, <1>5 DEF Followed

(* What a call has led to keeps the invariant. *)
LEMMA TakeKeeps ==
  ASSUME IInv, reading, NEW st, Written(c, accepted, ends, st), NEW s, ReadOn(st, s), Take(s)
  PROVE  IInv'
<1>1. /\ d' = s.d /\ d_rc' = s.rc /\ out' = s.out /\ reading' = reading
      /\ UNCHANGED <<c, cap, fill, c_rc, accepted, ends, source>>
  BY DEF Take, writer
<1>2. WInv'
  BY <1>1, SameWriterKeeps DEF IInv
<1>3. Followed(st, d, out)'
  BY <1>1, FollowedSame DEF ReadOn
<1>4. Written(c, accepted, ends, st)'
  BY <1>1 DEF Written, InHand, RanOut
<1>5. d_rc' \in Statuses \ {"ERR_OVERFLOW"}
  BY <1>1 DEF ReadOn, Results, Statuses
<1>6. reading' \in BOOLEAN
  BY <1>1 DEF IInv
<1> QED
  BY <1>2, <1>3, <1>4, <1>5, <1>6 DEF IInv

(* Every call of the decompressor leads to such a place. *)
LEMMA DecompressorReads ==
  ASSUME IInv, reading, DecompressNext \/ \E n \in 0 .. MaxBatch : DecompressBatch(n)
  PROVE  \E st, s : Written(c, accepted, ends, st) /\ ReadOn(st, s) /\ Take(s)
<1>1. PICK st : Written(c, accepted, ends, st) /\ Followed(st, d, out)
  BY DEF IInv
<1>2. CASE DecompressNext
  <2>1. ReadOn(st, Now) /\ Now.rc = "OK"
    BY <1>1, NowIsRead DEF Now
  <2>2. ReadOn(st, Fetched(Now))
    BY <1>1, <2>1, FetchReads
  <2>3. Take(Fetched(Now))
    BY <1>2 DEF DecompressNext
  <2> QED
    BY <1>1, <2>2, <2>3
<1>3. ASSUME NEW n \in 0 .. MaxBatch, DecompressBatch(n)
      PROVE  \E s : ReadOn(st, s) /\ Take(s)
  <2>1. n \in Nat
    BY StreamAssumption
  <2> QED
    BY <1>1, <1>3, <2>1, LoopReads
<1> QED
  BY <1>1, <1>2, <1>3

(* Every step keeps the invariant. *)
LEMMA IInvKept ==
  ASSUME IInv, [Next]_vars
  PROVE  IInv'
<1>1. WInv'
  BY WInvKept DEF IInv
<1>2. ASSUME reading = FALSE, UNCHANGED reader PROVE IInv'
  BY <1>1, <1>2 DEF IInv, reader
<1>3. ASSUME NEW len \in 0 .. cap, Open(len) PROVE IInv'
  <2>1. PICK st : Written(c, accepted, ends, st)
    BY DEF IInv, WInv
  <2>2. Followed(st, d, out)'
    BY <1>3, <2>1, OpenFollows DEF IInv
  <2>3. Written(c, accepted, ends, st)'
    BY <1>3, <2>1 DEF Open, writer, Written, InHand, RanOut
  <2>4. reading' = TRUE /\ d_rc' = "OK"
    BY <1>3 DEF Open
  <2> QED
    BY <1>1, <2>2, <2>3, <2>4 DEF IInv, Statuses
<1>4. CASE DecompressNext \/ \E n \in 0 .. MaxBatch : DecompressBatch(n)
  <2>1. reading
    BY <1>4 DEF DecompressNext, DecompressBatch
  <2> QED
    BY <1>4, <2>1, DecompressorReads, TakeKeeps
<1>5. ASSUME UNCHANGED <<c, cap, accepted, ends, reading, d, out, source>>,
             d_rc' = d_rc \/ d_rc' = "ERR_ARG"
      PROVE  IInv'
  <2>1. ASSUME reading
        PROVE  \E st : Written(c, accepted, ends, st)' /\ Followed(st, d, out)'
    <3>1. PICK st : Written(c, accepted, ends, st) /\ Followed(st, d, out)
      BY <2>1 DEF IInv
    <3>2. Followed(st, d, out)'
      BY <1>5, <3>1, FollowedSame
    <3>3. Written(c, accepted, ends, st)'
      BY <1>5, <3>1 DEF Written, InHand, RanOut
    <3> QED
      BY <3>2, <3>3
  <2> QED
    BY <1>1, <1>5, <2>1 DEF IInv, Statuses
<1>6. CASE DecompressRefused
  BY <1>5, <1>6 DEF DecompressRefused, writer
<1>7. CASE UNCHANGED vars
  BY <1>5, <1>7 DEF vars, writer, reader
<1>8. CASE Close
  BY <1>1, <1>8 DEF Close, IInv, Statuses
<1>9. ASSUME NEW p \in Points, ~ reading, Compress(p) PROVE IInv'
  BY <1>2, <1>9 DEF Compress, IInv
<1>10. ASSUME NEW n \in 0 .. MaxBatch, NEW ps \in [1 .. n -> Points], ~ reading, CompressBatch(ps)
       PROVE  IInv'
  BY <1>2, <1>10 DEF CompressBatch, IInv
<1>11. CASE ~ reading /\ CompressRefused
  BY <1>2, <1>11 DEF CompressRefused, IInv
<1> QED
  BY <1>3, <1>4, <1>6, <1>7, <1>8, <1>9, <1>10, <1>11 DEF Next

(* The inductive invariant of both: a decompressor that has not reached the  *)
(* end is where a point of the stream ends, in the state the compressor was  *)
(* in there, or in the padding, or in bytes of other origin.                 *)
THEOREM Invariance == Spec => []IInv
<1>1. Init => IInv
  BY WInvInit DEF Init, IInv, Statuses
<1>2. IInv /\ [Next]_vars => IInv'
  BY IInvKept
<1> QED
  BY <1>1, <1>2, PTL DEF Spec

(* Compressor and decompressor keep their types. In bytes that no compressor *)
(* wrote the value may be Unknown, from the undefined shift of gt_val_decode;*)
(* timestamps, position and end mark do not depend on it.                    *)
THEOREM TypeCorrect == Spec => []TypeOK
<1>1. ASSUME IInv PROVE TypeOK
  <2>1. /\ cap \in Nat /\ c \in Compressors(cap) /\ c.overflow \in BOOLEAN
        /\ accepted \in Seq(Points) /\ Len(ends) = Len(accepted)
    BY <1>1, WInvFacts DEF IInv
  <2>2. /\ c.bits \in Seq(Bit) /\ Len(c.bits) <= 8 * cap
        /\ c.ts \in TsStates /\ c.vs \in ValStates
    BY <2>1 DEF Compressors
  <2>3. c.ts.prev_ts \in Timestamp /\ c.ts.prev_delta \in Timestamp
    BY <2>2 DEF TsStates
  <2>4. c.vs.prev_bits \in Value /\ c.vs.prev_lz + c.vs.prev_tz < Width
    BY <2>2, StateFacts
  <2>5. ASSUME reading
        PROVE  /\ d.r.pos \in TsBits .. Len(d.r.buf)
               /\ d.ts.prev_ts \in Timestamp /\ d.ts.prev_delta \in Timestamp
               /\ d.vs.prev_bits \in Words
               /\ out \in Seq([ts : Timestamp, val : Words])
    <3>1. PICK st : Written(c, accepted, ends, st) /\ Followed(st, d, out)
      BY <1>1, <2>5 DEF IInv
    <3>2. d \in Decoders /\ out \in Seq(Pairs) /\ d.r.pos >= TsBits + 2 * Len(out)
      BY <3>1 DEF Followed
    <3>3. /\ d.ts.prev_ts \in Timestamp /\ d.ts.prev_delta \in Timestamp
          /\ d.vs.prev_bits \in Words
      BY <3>2 DEF Decoders, TsStates, LooseStates
    <3>4. /\ d.r.pos \in Nat /\ Len(d.r.buf) \in Nat /\ d.r.pos <= Len(d.r.buf)
          /\ Len(out) \in Nat
      BY <3>1, FollowedFacts
    <3>5. d.r.pos \in TsBits .. Len(d.r.buf)
      BY <3>2, <3>4, Sizes
    <3> QED
      BY <3>2, <3>3, <3>5 DEF Pairs
  <2>6. c_rc \in Statuses \ {"ERR_EOF"} /\ d_rc \in Statuses \ {"ERR_OVERFLOW"}
    BY <1>1 DEF IInv, WInv
  <2> QED
    BY <2>1, <2>2, <2>3, <2>4, <2>5, <2>6 DEF TypeOK
<1> QED
  BY <1>1, Invariance, PTL

(* Whatever a compressor wrote, and wherever it is cut, the shift of         *)
(* gt_val_decode is by the trailing zeros of a window that fits a value.     *)
THEOREM DefinedShifts == Spec => []ShiftsAreDefined
<1>1. ASSUME IInv PROVE ShiftsAreDefined
  <2> SUFFICES ASSUME reading, source.given <= source.finish
               PROVE  d.vs.prev_tz >= 0 /\ d.vs.prev_bits # Unknown
    BY DEF ShiftsAreDefined
  <2>1. PICK st : Written(c, accepted, ends, st) /\ Followed(st, d, out)
    BY <1>1 DEF IInv
  <2>2. source.given \in Nat /\ source.finish \in Nat
    BY <2>1 DEF Followed, OpenedWith
  <2>3. ~ IsLong
    BY <2>2 DEF IsLong
  <2>4. d.vs \in ValStates
    BY <2>1, <2>3 DEF Followed, Sane
  <2>5. d.vs.prev_bits \in Value /\ d.vs.prev_tz \in Nat
    BY <2>4, StateFacts
  <2> QED
    BY <2>5, ChangedIsXor
<1> QED
  BY <1>1, Invariance, PTL

(* Where a stream is cut, or ran out in the middle of a point, nothing is    *)
(* decoded but the points that are wholly there.                             *)
THEOREM TornPoints == Spec => []TornNeverDecodes
<1>1. ASSUME IInv PROVE TornNeverDecodes
  <2> SUFFICES ASSUME reading,
                      \/ source.given < source.finish
                      \/ source.torn /\ source.given = source.finish
               PROVE  Len(out) <= source.points
    BY DEF TornNeverDecodes
  <2>1. PICK st : Written(c, accepted, ends, st) /\ Followed(st, d, out)
    BY <1>1 DEF IInv
  <2>2. source.torn \in BOOLEAN
    BY <2>1 DEF Followed, OpenedWith
  <2>3. IsCut
    BY <2>2 DEF IsCut
  <2> QED
    BY <2>1, <2>3 DEF Followed, Bounded
<1> QED
  BY <1>1, Invariance, PTL

(* The zeros behind a stream decode to three points at most, each of which   *)
(* repeats the last delta and the last value.                                *)
THEOREM PaddingRepeats == Spec => []PaddingOnlyRepeats
<1>1. ASSUME IInv PROVE PaddingOnlyRepeats
  <2> SUFFICES ASSUME reading, ~ source.torn, source.given = source.finish
               PROVE  /\ Len(out) <= source.points + 3
                      /\ \A i \in source.points + 1 .. Len(out) : Repeat(out, i)
    BY DEF PaddingOnlyRepeats, Repeat
  <2>1. PICK st : Written(c, accepted, ends, st) /\ Followed(st, d, out)
    BY <1>1 DEF IInv
  <2>2. source.torn \in BOOLEAN
    BY <2>1 DEF Followed, OpenedWith
  <2>3. IsWhole
    BY <2>2 DEF IsWhole
  <2> QED
    BY <2>1, <2>3 DEF Followed, Bounded, Repeats
<1> QED
  BY <1>1, Invariance, PTL

-----------------------------------------------------------------------------
(* The points of view of PointLog. *)
(* A call of the compressor appends the points it counts. *)
LEMMA CallAppends ==
  ASSUME WInv,
         \/ \E p \in Points : Compress(p)
         \/ \E n \in 0 .. MaxBatch : \E ps \in [1 .. n -> Points] : CompressBatch(ps)
         \/ CompressRefused
  PROVE  \E qs \in Seq(Points) : accepted' = accepted \o qs
<1>1. accepted \in Seq(Points) /\ << >> \in Seq(Points)
  BY WInvFacts, EmptySeq
<1>2. ASSUME accepted' = accepted PROVE \E qs \in Seq(Points) : accepted' = accepted \o qs
  BY <1>1, <1>2, ConcatEmptySeq
<1>3. ASSUME NEW p \in Points, accepted' = Append(accepted, p)
      PROVE  \E qs \in Seq(Points) : accepted' = accepted \o qs
  <2>1. <<p>> \in Seq(Points)
    OBVIOUS
  <2>2. Append(accepted, p) = accepted \o <<p>>
    BY <1>1, AppendIsConcat
  <2> QED
    BY <1>3, <2>1, <2>2
<1>4. ASSUME NEW p \in Points, Compress(p)
      PROVE  accepted' = accepted \/ accepted' = Append(accepted, p)
  BY <1>4 DEF Compress
<1>5. ASSUME NEW n \in 0 .. MaxBatch, NEW ps \in [1 .. n -> Points], CompressBatch(ps)
      PROVE  \E qs \in Seq(Points) : accepted' = accepted \o qs
  <2> DEFINE b == Batch(ps)
             qs == SubSeq(ps, 1, b.written)
  <2>1. n \in Nat /\ cap \in Nat
    BY StreamAssumption, WInvFacts
  <2>2. ps \in Seq(Points)
    BY <2>1
  <2>3. PICK st : Written(c, accepted, ends, st)
    BY DEF WInv
  <2>4. BatchDone(b, ps, Len(ps))
    BY <1>1, <2>1, <2>2, <2>3, BatchRuns
  <2>5. accepted' = accepted \o qs
    BY <1>5 DEF CompressBatch
  <2> HIDE DEF b
  <2>6. b.written \in 0 .. Len(ps)
    BY <2>4 DEF BatchDone
  <2>7. qs \in Seq(Points)
    BY <2>2, <2>6, FirstOf
  <2> QED
    BY <2>5, <2>7
<1>6. CASE CompressRefused
  BY <1>2, <1>6 DEF CompressRefused
<1> QED
  BY <1>2, <1>3, <1>4, <1>5, <1>6

(* What was appended is what comes behind. *)
LEMMA LastOf ==
  ASSUME NEW S, NEW r \in Seq(S), NEW q \in Seq(S)
  PROVE  SubSeq(r \o q, Len(r) + 1, Len(r \o q)) = q
<1> DEFINE u == r \o q
           m == Len(r) + 1
           n == Len(u)
           t == SubSeq(u, m, n)
<1>1. /\ u \in Seq(S) /\ n = Len(r) + Len(q)
      /\ \A i \in 1 .. Len(r) + Len(q) : u[i] = IF i <= Len(r) THEN r[i] ELSE q[i - Len(r)]
  BY ConcatProperties
<1>2. Len(r) \in Nat /\ Len(q) \in Nat
  BY LenProperties
<1> HIDE DEF u
<1>3. m \in Int /\ n \in Int /\ \A i \in m .. n : u[i] \in S
  BY <1>1, <1>2, ElementOfSeq
<1> HIDE DEF m, n
<1>4. /\ t \in Seq(S) /\ Len(t) = IF m <= n THEN n - m + 1 ELSE 0
      /\ \A i \in 1 .. n - m + 1 : t[i] = u[m + i - 1]
  BY <1>3, SubSeqProperties
<1> HIDE DEF t
<1>5. Len(t) = Len(q)
  BY <1>1, <1>2, <1>4 DEF m
<1>6. ASSUME NEW i \in 1 .. Len(t) PROVE t[i] = q[i]
  <2>1. i \in 1 .. n - m + 1 /\ m + i - 1 = Len(r) + i /\ Len(r) + i \in 1 .. Len(r) + Len(q)
        /\ ~ (Len(r) + i <= Len(r)) /\ Len(r) + i - Len(r) = i
    BY <1>1, <1>2, <1>5 DEF m
  <2>2. t[i] = u[Len(r) + i]
    BY <1>4, <2>1
  <2>3. u[Len(r) + i] = q[Len(r) + i - Len(r)]
    BY <1>1, <2>1
  <2> QED
    BY <2>1, <2>2, <2>3
<1> QED
  BY <1>4, <1>5, <1>6, SeqEqual DEF t, u, m, n

(* Such a call is an Accept of PointLog. *)
LEMMA CallAccepts ==
  ASSUME IInv, IInv', FinalStep, UNCHANGED reader, reading = FALSE,
         NEW qs \in Seq(Points), accepted' = accepted \o qs
  PROVE  Log!Accept
<1> DEFINE now  == [log |-> accepted, full |-> c.overflow]
           then == [log |-> accepted', full |-> c'.overflow]
           ps   == SubSeq(then.log, Len(now.log) + 1, Len(then.log))
<1>1. /\ accepted \in Seq(Points) /\ c.overflow \in BOOLEAN
      /\ ends \in Seq(Nat) /\ Len(ends) = Len(accepted)
  BY WInvFacts DEF IInv
<1>2. /\ c'.overflow \in BOOLEAN /\ Len(ends') = Len(accepted')
  <2>1. WInv'
    BY DEF IInv
  <2> QED
    BY <2>1 DEF WInv, Written, Histories, Compressors
<1>3. now.log = accepted /\ then.log = accepted' /\ now.full = c.overflow
  OBVIOUS
<1>4. ps = qs
  BY <1>1, LastOf
<1> HIDE DEF ps
<1>5. c.overflow = TRUE => qs = << >>
  <2> SUFFICES ASSUME c.overflow = TRUE PROVE qs = << >>
    OBVIOUS
  <2>1. Len(accepted') = Len(accepted)
    BY <1>1, <1>2 DEF FinalStep
  <2>2. Len(accepted \o qs) = Len(accepted) + Len(qs)
    BY <1>1, ConcatProperties
  <2>3. Len(accepted) \in Nat /\ Len(qs) \in Nat
    BY <1>1, LenProperties
  <2>4. Len(qs) = 0
    BY <2>1, <2>2, <2>3
  <2> QED
    BY <2>4, EmptySeq
<1>6. Log!MayTake(now, ps)
  BY <1>1, <1>4, <1>5 DEF Log!MayTake
<1>7. then \in {Log!Taken(now, ps, FALSE), Log!Taken(now, ps, TRUE)}
  <2>1. CASE c'.overflow = TRUE
    <3>1. Log!Taken(now, qs, TRUE) = then
      BY <2>1 DEF Log!Taken
    <3> QED
      BY <1>4, <3>1
  <2>2. CASE c'.overflow = FALSE
    <3>1. c.overflow = FALSE
      BY <1>1, <2>2 DEF FinalStep
    <3>2. Log!Taken(now, qs, FALSE) = then
      BY <2>2, <3>1 DEF Log!Taken
    <3> QED
      BY <1>4, <3>2
  <2> QED
    BY <1>2, <2>1, <2>2
<1>8. reading' = reading /\ out' = out /\ d' = d
  BY DEF reader
<1> QED
  BY <1>6, <1>7, <1>8 DEF Log!Accept, ps

(* What a reader is opened on. *)
LEMMA OpenedPoints ==
  ASSUME NEW st, Written(c, accepted, ends, st), NEW buf, OpenedWith(buf)
  PROVE  /\ OpenedOn.points = SubSeq(accepted, 1, source.points)
         /\ Len(OpenedOn.points) = source.points
         /\ \A i \in 1 .. source.points : OpenedOn.points[i] = accepted[i]
<1> DEFINE ps == SubSeq(accepted, 1, source.points)
<1>1. OpenedOn.points = ps
  BY DEF OpenedOn
<1>2. accepted \in Seq(Points) /\ source.points \in 0 .. Len(accepted)
  BY DEF Written, Histories, OpenedWith
<1>3. Len(ps) = source.points /\ \A i \in 1 .. source.points : ps[i] = accepted[i]
  BY <1>2, FirstOf
<1> QED
  BY <1>1, <1>3

OpenedRight ==
  reading => \/ OpenedOn \in Log!WholeStreams([log |-> accepted, full |-> c.overflow])
             \/ OpenedOn \in Log!CutStreams([log |-> accepted, full |-> c.overflow])
             \/ c.overflow = FALSE /\ Log!IsOverlong(OpenedOn)

(* Without its last points, unless it has run out. *)
LEMMA CutLosesPoints ==
  ASSUME NEW st, Written(c, accepted, ends, st), NEW buf, OpenedWith(buf),
         source.given < source.finish, c.overflow = FALSE
  PROVE  source.points < Len(accepted)
<1> DEFINE n == Len(accepted)
<1>1. n \in Nat /\ n \in 0 .. n /\ EndOf(ends, n) \in Nat
  BY StreamFacts
<1>2. InHand(c, EndOf(ends, n), st[n])
  BY DEF Written, RanOut
<1>3. Len(c.bits) = EndOf(ends, n)
  BY <1>2 DEF InHand
<1>4. Len(buf) < Len(c.bits) /\ Len(buf) = 8 * source.given /\ source.given \in Nat
  BY DEF OpenedWith, GivenBits
<1>5. ~ (EndOf(ends, n) <= 8 * source.given)
  BY <1>1, <1>3, <1>4
<1>6. ~ (n <= source.points) /\ source.points \in 0 .. n
  BY <1>1, <1>5 DEF OpenedWith
<1> QED
  BY <1>1, <1>6

(* A reader is opened on what PointLog allows: all of the stream, a part of  *)
(* it, or more.                                                              *)
LEMMA OpenedAs == IInv => OpenedRight
<1> SUFFICES ASSUME IInv, reading
             PROVE  \/ OpenedOn \in Log!WholeStreams([log |-> accepted, full |-> c.overflow])
                    \/ OpenedOn \in Log!CutStreams([log |-> accepted, full |-> c.overflow])
                    \/ c.overflow = FALSE /\ Log!IsOverlong(OpenedOn)
  BY DEF OpenedRight
<1> DEFINE now == [log |-> accepted, full |-> c.overflow]
<1>1. PICK st : Written(c, accepted, ends, st) /\ Followed(st, d, out)
  BY DEF IInv
<1>2. OpenedWith(d.r.buf)
  BY <1>1 DEF Followed
<1>3. /\ source.given \in Nat /\ source.finish \in Nat
      /\ source.torn \in BOOLEAN /\ source.torn = c.overflow
      /\ source.torn = TRUE => source.given <= source.finish
      /\ source.points \in 0 .. Len(accepted)
  BY <1>2 DEF OpenedWith
<1>4. accepted \in Seq(Points) /\ Len(accepted) \in Nat
  BY <1>1, StreamFacts DEF Written, Histories
<1>5. now.log = accepted /\ now.full = c.overflow
  OBVIOUS
<1>6. CASE source.given < source.finish
  <2>1. OpenedOn = [kind |-> "cut", points |-> SubSeq(accepted, 1, source.points), spare |-> 0]
    BY <1>6 DEF OpenedOn
  <2>2. source.points < Len(accepted) \/ c.overflow = TRUE
    BY <1>1, <1>2, <1>3, <1>6, CutLosesPoints
  <2>3. source.points \in {m \in 0 .. Len(now.log) : m < Len(now.log) \/ now.full}
    BY <1>3, <1>5, <2>2
  <2> HIDE DEF now
  <2>4. OpenedOn \in Log!CutStreams(now)
    BY <1>5, <2>1, <2>3 DEF Log!CutStreams
  <2> QED
    BY <2>4 DEF now
<1>7. CASE source.given >= source.finish
  <2>1. source.points = Len(accepted)
    BY <1>1, <1>2, <1>7, WholeHasAll
  <2>2. SubSeq(accepted, 1, source.points) = accepted
    BY <1>4, <2>1, SubSeqFull
  <2>3. CASE source.given = source.finish
    <3>1. OpenedOn = [kind |-> "whole", points |-> accepted,
                      spare |-> IF source.torn \/ accepted = << >> THEN 0 ELSE 3]
      <4>1. ~ (source.given < source.finish) /\ "whole" # "cut" /\ "whole" # "overlong"
        BY <1>3, <2>3
      <4> QED
        BY <2>2, <2>3, <4>1, Zenon DEF OpenedOn
    <3>2. (IF source.torn \/ accepted = << >> THEN 0 ELSE 3)
            \in IF now.full \/ now.log = << >> THEN {0} ELSE 0 .. Log!MostPadding
      BY <1>3, <1>5 DEF Log!MostPadding
    <3> HIDE DEF now
    <3>3. OpenedOn \in Log!WholeStreams(now)
      BY <1>5, <3>1, <3>2 DEF Log!WholeStreams
    <3> QED
      BY <3>3 DEF now
  <2>4. CASE source.given > source.finish
    <3>1. OpenedOn = [kind |-> "overlong", points |-> accepted, spare |-> 8 * source.given]
      BY <1>3, <2>2, <2>4 DEF OpenedOn
    <3>2. 8 * source.given \in Nat
      BY <1>3
    <3>3. Log!IsOverlong(OpenedOn)
      BY <3>1, <3>2 DEF Log!IsOverlong
    <3>4. c.overflow = FALSE
      BY <1>3, <2>4
    <3> QED
      BY <3>3, <3>4
  <2>5. source.given = source.finish \/ source.given > source.finish
    BY <1>3, <1>7
  <2> QED
    BY <2>3, <2>4, <2>5, Zenon
<1>8. source.given < source.finish \/ source.given >= source.finish
  BY <1>3
<1> QED
  BY <1>6, <1>7, <1>8, Zenon

(* As many points as PointLog allows. *)
LEMMA WithinSpare ==
  ASSUME NEW st, Written(c, accepted, ends, st), NEW dd, NEW o, Followed(st, dd, o)
  PROVE  Len(o) <= Len(OpenedOn.points) + OpenedOn.spare
<1>1. /\ Len(o) \in Nat /\ source.points \in Nat /\ dd.r.pos \in Nat
      /\ Len(dd.r.buf) \in Nat /\ dd.r.pos <= Len(dd.r.buf)
      /\ OpenedWith(dd.r.buf)
  BY FollowedFacts
<1>2. Len(OpenedOn.points) = source.points
  BY <1>1, OpenedPoints
<1>3. /\ source.given \in Nat /\ source.finish \in Nat /\ source.torn \in BOOLEAN
      /\ Len(dd.r.buf) = 8 * source.given
  BY <1>1 DEF OpenedWith, GivenBits
<1>4. Bounded(Len(o)) /\ dd.r.pos >= TsBits + 2 * Len(o)
  BY DEF Followed
<1> DEFINE m == Len(o)
           k == OpenedOn.spare
<1>5. k \in Nat /\ m <= source.points + k
  <2>1. CASE source.given > source.finish
    <3>1. k = 8 * source.given
      BY <1>3, <2>1 DEF OpenedOn
    <3> HIDE DEF m, k
    <3>2. dd.r.pos >= TsBits + 2 * m /\ m \in Nat
      BY <1>1, <1>4 DEF m
    <3> QED
      BY <1>1, <1>3, <3>1, <3>2, Sizes
  <2>2. CASE source.given < source.finish \/ (source.torn = TRUE /\ source.given = source.finish)
    <3>1. IsCut
      BY <2>2 DEF IsCut
    <3>2. k = 0
      BY <1>3, <2>2 DEF OpenedOn
    <3>3. m <= source.points
      BY <1>4, <3>1 DEF Bounded
    <3> HIDE DEF m, k
    <3> QED
      BY <1>1, <3>2, <3>3
  <2>3. CASE source.torn = FALSE /\ source.given = source.finish
    <3>1. IsWhole
      BY <2>3 DEF IsWhole
    <3>2. k = IF accepted = << >> THEN 0 ELSE 3
      <4>1. ~ (source.given < source.finish)
        BY <1>3, <2>3
      <4>2. "whole" # "cut" /\ "whole" # "overlong"
        OBVIOUS
      <4> QED
        BY <2>3, <4>1, <4>2, Zenon DEF OpenedOn
    <3>3. m <= source.points + 3 /\ (accepted = << >> => m = 0)
      BY <1>4, <3>1 DEF Bounded
    <3> HIDE DEF m, k
    <3> QED
      BY <1>1, <3>2, <3>3
  <2>4. \/ source.given > source.finish
        \/ source.given < source.finish
        \/ source.given = source.finish
    BY <1>3
  <2> QED
    BY <1>3, <2>1, <2>2, <2>3, <2>4, Zenon
<1> QED
  BY <1>2, <1>5

(* A call of the decompressor is a Read of PointLog, and nothing once the    *)
(* end has been reached.                                                     *)
LEMMA CallReads ==
  ASSUME SpanFits, IInv, reading, DecompressNext \/ \E n \in 0 .. MaxBatch : DecompressBatch(n)
  PROVE  Log!Read \/ UNCHANGED Log!vars
<1>1. PICK st, s : Written(c, accepted, ends, st) /\ ReadOn(st, s) /\ Take(s)
  BY DecompressorReads
<1>2. /\ d' = s.d /\ out' = s.out /\ reading' = reading /\ source' = source
      /\ c' = c /\ accepted' = accepted
  BY <1>1 DEF Take, writer
<1>3. OpenedOn' = OpenedOn
  BY <1>2 DEF OpenedOn
<1>4. /\ Followed(st, s.d, s.out)
      /\ Len(s.out) >= Len(out)
      /\ \A i \in 1 .. Len(out) : s.out[i] = out[i]
      /\ d.r.eof = TRUE => s.d.r.eof = TRUE /\ s.out = out
  BY <1>1 DEF ReadOn
<1>5. /\ Len(s.out) \in Nat /\ s.d.r.eof \in BOOLEAN /\ s.out \in Seq(Pairs)
      /\ OpenedWith(s.d.r.buf)
  BY <1>1, <1>4, FollowedFacts
<1>6. Len(out) \in Nat /\ out \in Seq(Pairs) /\ d.r.eof \in BOOLEAN
  <2>1. PICK st2 : Written(c, accepted, ends, st2) /\ Followed(st2, d, out)
    BY DEF IInv
  <2> QED
    BY <2>1, FollowedFacts
<1>7. CASE d.r.eof = TRUE
  <2>1. out' = out /\ d'.r.eof = d.r.eof
    BY <1>2, <1>4, <1>7
  <2> QED
    BY <1>2, <1>3, <2>1 DEF Log!vars
<1>8. CASE d.r.eof = FALSE
  <2>1. Len(out') \in Len(out) .. Len(OpenedOn.points) + OpenedOn.spare
    <3>1. Len(out') = Len(s.out)
      BY <1>2
    <3>2. Len(s.out) <= Len(OpenedOn.points) + OpenedOn.spare
      BY <1>1, <1>4, WithinSpare
    <3>3. Len(OpenedOn.points) + OpenedOn.spare \in Int
      <4>1. OpenedOn.spare \in Nat
        BY <1>5 DEF OpenedOn, OpenedWith
      <4>2. Len(OpenedOn.points) = source.points /\ source.points \in Nat
        BY <1>1, <1>4, <1>5, OpenedPoints, FollowedFacts
      <4> QED
        BY <4>1, <4>2
    <3> QED
      BY <1>4, <1>5, <1>6, <3>1, <3>2, <3>3
  <2>2. SubSeq(out', 1, Len(out)) = out
    <3> DEFINE u == SubSeq(s.out, 1, Len(out))
    <3>1. Len(out) \in 0 .. Len(s.out)
      BY <1>4, <1>5, <1>6
    <3>2. u \in Seq(Pairs) /\ Len(u) = Len(out) /\ \A i \in 1 .. Len(out) : u[i] = s.out[i]
      BY <1>5, <3>1, FirstOf
    <3> HIDE DEF u
    <3>3. u = out
      BY <1>4, <1>6, <3>2, SeqEqual
    <3> QED
      BY <1>2, <3>3 DEF u
  <2>3. /\ Len(OpenedOn.points) = source.points
        /\ \A i \in 1 .. source.points : OpenedOn.points[i] = accepted[i]
        /\ source.points \in Nat
    BY <1>1, <1>4, <1>5, OpenedPoints, FollowedFacts
  <2>4. \A i \in 1 .. Len(out') : i <= Len(OpenedOn.points) => out'[i] = OpenedOn.points[i]
    <3>1. Kept(s.out)
      BY <1>4 DEF Followed
    <3>2. ASSUME NEW i \in 1 .. Len(s.out), i <= source.points
          PROVE  s.out[i] = OpenedOn.points[i]
      <4>1. s.out[i] = accepted[i]
        BY <3>1, <3>2 DEF Kept
      <4>2. i \in 1 .. source.points
        BY <1>5, <2>3, <3>2
      <4> QED
        BY <2>3, <4>1, <4>2
    <3> QED
      BY <1>2, <2>3, <3>2
  <2>5. d'.r.eof = TRUE => Len(out') >= Len(OpenedOn.points)
    <3> SUFFICES ASSUME s.d.r.eof = TRUE PROVE Len(s.out) >= source.points
      BY <1>2, <2>3
    <3> QED
      BY <1>4 DEF Followed
  <2>6. d'.r.eof \in BOOLEAN
    BY <1>2, <1>5
  <2> QED
    BY <1>2, <1>3, <1>8, <2>1, <2>2, <2>4, <2>5, <2>6 DEF Log!Read, Log!InOrder
<1> QED
  BY <1>6, <1>7, <1>8

(* What the header says of the status of decompress_next and -_batch, of any *)
(* number of points and whatever the bytes: OK is all of them, and ERR_EOF   *)
(* the end of the buffer, which every point brings nearer.                   *)
THEOREM StatusIsCount == Spec => StatusCountsPoints
<1>1. ASSUME IInv
      PROVE  /\ ~ Delivered(1) => ~ DecompressNext
             /\ \A n \in 0 .. MaxBatch : ~ Delivered(n) => ~ DecompressBatch(n)
  <2>1. ASSUME NEW n, NEW s, Stepped(s, n), Take(s) PROVE Delivered(n)
    BY <2>1 DEF Stepped, Take, Delivered
  <2>2. ASSUME NEW n \in 0 .. MaxBatch, DecompressBatch(n) PROVE Delivered(n)
    <3>1. PICK st : Written(c, accepted, ends, st) /\ Followed(st, d, out)
      BY <1>1, <2>2 DEF IInv, DecompressBatch
    <3>2. n \in Nat
      BY StreamAssumption
    <3> QED
      BY <2>1, <2>2, <3>1, <3>2, LoopReads
  <2>3. ASSUME DecompressNext PROVE Delivered(1)
    <3>1. PICK st : Written(c, accepted, ends, st) /\ Followed(st, d, out)
      BY <1>1, <2>3 DEF IInv, DecompressNext
    <3>2. ReadOn(st, Now) /\ Stepped(Now, 0) /\ Now.rc = "OK"
      BY <3>1, NowIsRead, NowIsStepped DEF Now
    <3>3. Stepped(ReadStep(Now), 0 + 1)
      BY <3>1, <3>2, StepMoves
    <3>4. ReadStep(Now) = Fetched(Now)
      BY <3>2 DEF ReadStep
    <3>5. Stepped(Fetched(Now), 1)
      BY <3>3, <3>4
    <3>6. Take(Fetched(Now))
      BY <2>3 DEF DecompressNext
    <3> QED
      BY <2>1, <3>5, <3>6
  <2> QED
    BY <2>2, <2>3
<1> QED
  BY <1>1, Invariance, PTL DEF Spec, StatusCountsPoints

(* Where no delta of deltas is cut short by a cast, what the C API does to   *)
(* bits is what PointLog says of points: compress calls append, a reader     *)
(* delivers the points it was opened on, in order and all of them, before    *)
(* the end, and calls behind the end change nothing.                         *)
THEOREM StreamIsPointLog == ASSUME SpanFits PROVE Spec => ImplementsPointLog
<1>1. Init => Log!Init
  BY DEF Init, Created, Log!Init, Log!Empty, Log!NoStream
<1>2. ASSUME IInv, IInv', OpenedRight', [Next]_vars PROVE [Log!Next]_Log!vars
  <2> USE DEF Log!Next
  <2>1. reading \in BOOLEAN
    BY <1>2 DEF IInv
  <2>2. FinalStep
    BY <1>2, WInvKept DEF IInv
  <2>3. ASSUME ~ reading, UNCHANGED reader,
               \/ \E p \in Points : Compress(p)
               \/ \E n \in 0 .. MaxBatch : \E ps \in [1 .. n -> Points] : CompressBatch(ps)
               \/ CompressRefused
        PROVE  Log!Next
    <3>1. PICK qs \in Seq(Points) : accepted' = accepted \o qs
      BY <1>2, <2>3, CallAppends DEF IInv
    <3>2. reading = FALSE
      BY <2>1, <2>3
    <3> QED
      BY <1>2, <2>2, <2>3, <3>1, <3>2, CallAccepts
  <2>4. ASSUME NEW p \in Points, ~ reading, Compress(p) PROVE Log!Next
    BY <2>3, <2>4 DEF Compress
  <2>5. ASSUME NEW n \in 0 .. MaxBatch, NEW ps \in [1 .. n -> Points], ~ reading,
               CompressBatch(ps)
        PROVE  Log!Next
    BY <2>3, <2>5 DEF CompressBatch
  <2>6. CASE ~ reading /\ CompressRefused
    BY <2>3, <2>6 DEF CompressRefused
  <2>7. ASSUME NEW len \in 0 .. cap, Open(len) PROVE Log!Next
    <3>1. PICK st : Written(c, accepted, ends, st)
      BY <1>2 DEF IInv, WInv
    <3>2. d'.r.eof = FALSE
      BY <1>2, <2>7, <3>1, OpenFollows DEF IInv
    <3>3. /\ reading' = TRUE /\ out' = << >> /\ c' = c /\ accepted' = accepted
      BY <2>7 DEF Open, writer
    <3> DEFINE now == [log |-> accepted, full |-> c.overflow]
    <3>4. \/ OpenedOn' \in Log!WholeStreams(now)
          \/ OpenedOn' \in Log!CutStreams(now)
          \/ c.overflow = FALSE /\ Log!IsOverlong(OpenedOn')
      BY <1>2, <3>3 DEF OpenedRight, Log!IsOverlong
    <3>5. Log!Open
      BY <3>2, <3>3, <3>4 DEF Log!Open
    <3> QED
      BY <3>5
  <2>8. CASE DecompressNext \/ \E n \in 0 .. MaxBatch : DecompressBatch(n)
    <3>1. reading
      BY <2>8 DEF DecompressNext, DecompressBatch
    <3> QED
      BY <1>2, <2>8, <3>1, CallReads
  <2>9. CASE DecompressRefused
    BY <2>9 DEF DecompressRefused, writer, OpenedOn, Log!vars
  <2>10. CASE Close
    BY <2>10 DEF Close, writer, Log!Close, Log!NoStream
  <2>11. CASE UNCHANGED vars
    BY <2>11 DEF vars, writer, reader, OpenedOn, Log!vars
  <2> QED
    BY <1>2, <2>4, <2>5, <2>6, <2>7, <2>8, <2>9, <2>10, <2>11 DEF Next
<1> QED
  BY <1>1, <1>2, Invariance, OpenedAs, PTL DEF Spec, Log!Spec, ImplementsPointLog
=============================================================================
