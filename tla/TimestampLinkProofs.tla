------------------------- MODULE TimestampLinkProofs ------------------------
(***************************************************************************)
(* The invariants of TimestampLink, for every word size, every width of    *)
(* the last field and every series of timestamps.                          *)
(***************************************************************************)
EXTENDS TimestampLink, CodecProofs

(* Two integers that agree in their low LastBits bits. *)
Near(x, y) == \E q \in Int : x = y + Pow2[LastBits] * q

(* The inductive invariant. What is encoded is always what enc last saw, the *)
(* wire holds one code, which was read to its end, and dec is near enc even  *)
(* where clean no longer says that it is equal.                              *)
WireIsCode ==
  \/ wire = << >>
  \/ \E v \in Int : wire = TsCode(v)

OutputIsState ==
  /\ sent = enc.prev_ts
  /\ got.out = dec.prev_ts

StatesNear ==
  /\ Near(dec.prev_ts, enc.prev_ts)
  /\ Near(dec.prev_delta, enc.prev_delta)

IInv ==
  /\ TypeOK
  /\ WireIsCode
  /\ InStep
  /\ OutputIsState
  /\ StatesNear
  /\ clean => dec = enc

-----------------------------------------------------------------------------
(* The range of the last field divides that of the timestamps. *)
LEMMA LastFieldSize ==
  /\ LastBits \in Nat /\ TsBits \in Nat
  /\ Pow2[LastBits] \in Nat \ {0}
  /\ \E d \in Nat : Pow2[TsBits] = Pow2[LastBits] * d
<1>1. LastBits \in Nat /\ TsBits \in Nat /\ LastBits <= TsBits
  BY TimestampAssumption
<1> QED
  BY <1>1, Pow2Def, PowersDivide

(* Near is kept by sums. *)
LEMMA NearSum ==
  ASSUME NEW a \in Int, NEW b \in Int, NEW c \in Int, NEW d \in Int,
         Near(a, b), Near(c, d)
  PROVE  Near(a + c, b + d)
<1> DEFINE P == Pow2[LastBits]
<1>1. PICK p \in Int : a = b + P * p
  BY DEF Near
<1>2. PICK q \in Int : c = d + P * q
  BY DEF Near
<1>3. P \in Nat
  BY LastFieldSize
<1> HIDE DEF P
<1>4. P * (p + q) = P * p + P * q /\ P * p \in Int /\ P * q \in Int
  BY <1>3
<1>5. a + c = (b + d) + P * (p + q) /\ p + q \in Int
  BY <1>1, <1>2, <1>4
<1> QED
  BY <1>5 DEF Near, P

(* And it is an equivalence. *)
LEMMA NearTransitive ==
  ASSUME NEW a \in Int, NEW b \in Int, NEW c \in Int, Near(a, b), Near(b, c)
  PROVE  Near(a, c)
<1> DEFINE P == Pow2[LastBits]
<1>1. PICK p \in Int : a = b + P * p
  BY DEF Near
<1>2. PICK q \in Int : b = c + P * q
  BY DEF Near
<1>3. P \in Nat
  BY LastFieldSize
<1> HIDE DEF P
<1>4. P * (p + q) = P * p + P * q /\ P * p \in Int /\ P * q \in Int
  BY <1>3
<1>5. a = c + P * (p + q) /\ p + q \in Int
  BY <1>1, <1>2, <1>4
<1> QED
  BY <1>5 DEF Near, P

(* Also of a number to itself. *)
LEMMA NearItself ==
  ASSUME NEW a \in Int
  PROVE  Near(a, a)
<1>1. a = a + Pow2[LastBits] * 0
  BY LastFieldSize
<1> QED
  BY <1>1 DEF Near

(* Wrapping around changes no low bit. *)
LEMMA NearWrapped ==
  ASSUME NEW x \in Int
  PROVE  /\ Wrap(x) \in Int
         /\ Near(Wrap(x), x)
<1> DEFINE P == Pow2[LastBits]
<1>1. Wrap(x) \in Int
  BY WrapCongruent, WordSize DEF Timestamp, Signed
<1>2. PICK d \in Nat : Pow2[TsBits] = P * d
  BY LastFieldSize
<1>3. PICK k \in Int : x = Wrap(x) + Pow2[TsBits] * k
  BY WrapCongruent
<1>4. P \in Nat
  BY LastFieldSize
<1> HIDE DEF P
<1>5. (P * d) * k = P * (d * k) /\ d * k \in Int
  BY <1>4
<1>6. P * (d * k) \in Int /\ P * (-(d * k)) = -(P * (d * k)) /\ -(d * k) \in Int
  BY <1>4, <1>5
<1>7. x = Wrap(x) + P * (d * k)
  BY <1>2, <1>3, <1>5
<1>8. Wrap(x) = x + P * (-(d * k))
  BY <1>1, <1>6, <1>7
<1> QED
  BY <1>1, <1>6, <1>8 DEF Near, P

(* Near in terms of remainders, as Congruent has it. *)
LEMMA NearRemainder ==
  ASSUME NEW a \in Int, NEW b \in Int, Near(a, b)
  PROVE  (a - b) % Pow2[LastBits] = 0
<1> DEFINE P == Pow2[LastBits]
<1>1. PICK q \in Int : a = b + P * q
  BY DEF Near
<1>2. P \in Nat \ {0}
  BY LastFieldSize
<1> HIDE DEF P
<1>3. P * q \in Int /\ a - b = P * q + 0 /\ 0 \in 0 .. P - 1 /\ a - b \in Int
  BY <1>1, <1>2
<1>4. (a - b) % P = 0
  BY <1>2, <1>3, DivModUnique
<1> QED
  BY <1>4 DEF P

-----------------------------------------------------------------------------
(* A near delta of deltas keeps near states near. *)
LEMMA AfterFieldNear ==
  ASSUME NEW d \in TsStates, NEW e \in TsStates, NEW f \in Int, NEW g \in Int,
         Near(d.prev_ts, e.prev_ts), Near(d.prev_delta, e.prev_delta), Near(f, g)
  PROVE  /\ Near(AfterField(d, f).prev_ts, e.prev_ts + (g + e.prev_delta))
         /\ Near(AfterField(d, f).prev_delta, g + e.prev_delta)
<1>1. \A x \in Timestamp : x \in Int
  BY WordSize DEF Timestamp, Signed
<1>2. /\ d.prev_ts \in Int /\ d.prev_delta \in Int
      /\ e.prev_ts \in Int /\ e.prev_delta \in Int
  BY <1>1 DEF TsStates
<1> DEFINE x == f + d.prev_delta
           y == g + e.prev_delta
           w == Wrap(x)
<1>3. x \in Int /\ y \in Int /\ w \in Int
  BY <1>2, NearWrapped
<1>4. Near(w, y)
  <2>1. Near(x, y)
    BY <1>2, NearSum
  <2>2. Near(w, x)
    BY <1>3, NearWrapped
  <2> HIDE DEF x, y, w
  <2> QED
    BY <1>3, <2>1, <2>2, NearTransitive
<1> HIDE DEF x, y, w
<1> DEFINE u == d.prev_ts + w
<1>5. Near(u, e.prev_ts + y) /\ u \in Int /\ e.prev_ts + y \in Int
  <2>1. Near(d.prev_ts, e.prev_ts)
    OBVIOUS
  <2>2. Near(d.prev_ts + w, e.prev_ts + y)
    BY <1>2, <1>3, <1>4, <2>1, NearSum
  <2> QED
    BY <1>2, <1>3, <2>2
<1> HIDE DEF u
<1>6. Near(Wrap(u), e.prev_ts + y)
  <2>1. Near(Wrap(u), u) /\ Wrap(u) \in Int
    BY <1>5, NearWrapped
  <2> QED
    BY <1>5, <2>1, NearTransitive
<1> QED
  BY <1>4, <1>6 DEF AfterField, u, w, x, y

-----------------------------------------------------------------------------
(* The inductive invariant. *)
LEMMA StartType ==
  ASSUME NEW t0 \in Timestamp
  PROVE  TsStart(t0) \in TsStates
<1>1. 0 \in Timestamp
  <2> DEFINE H == Pow2[TsBits - 1]
  <2>1. H \in Nat \ {0}
    BY WordSize
  <2>2. Timestamp = -H .. H - 1
    BY DEF Timestamp, Signed
  <2> HIDE DEF H
  <2> QED
    BY <2>1, <2>2
<1> QED
  BY <1>1 DEF TsStart, TsStates

(* Both sides start in the same state. *)
LEMMA InitIInv == Init => IInv
<1> SUFFICES ASSUME Init PROVE IInv
  OBVIOUS
<1>1. PICK t0 \in BlockTimestamps :
        /\ enc = TsStart(t0) /\ dec = TsStart(t0) /\ sent = t0
        /\ wire = << >> /\ before = TsStart(t0)
        /\ got = Decoded(ReaderOn(<< >>), TsStart(t0), t0)
        /\ clean = TRUE
  BY DEF Init
<1>2. TsStart(t0) \in TsStates /\ TsStart(t0).prev_ts = t0
  BY StartType, SeriesAssumption DEF TsStart
<1>3. TypeOK
  BY <1>1, <1>2, EmptySeq DEF TypeOK, TsState, TsStates
<1>4. InStep /\ OutputIsState /\ WireIsCode
  <2>1. got.rc = "OK" /\ got.r.pos = 0 /\ got.out = t0
    BY <1>1 DEF Decoded, ReaderOn
  <2>2. Len(wire) = 0
    BY <1>1, EmptySeq
  <2> QED
    BY <1>1, <1>2, <2>1, <2>2 DEF InStep, OutputIsState, WireIsCode
<1>5. StatesNear
  <2>1. \A x \in Timestamp : x \in Int
    BY WordSize DEF Timestamp, Signed
  <2>2. enc.prev_ts \in Int /\ enc.prev_delta \in Int
    BY <1>1, <1>2, <2>1 DEF TsStates
  <2> QED
    BY <1>1, <2>2, NearItself DEF StatesNear
<1> QED
  BY <1>1, <1>3, <1>4, <1>5 DEF IInv

(* A timestamp that is sent keeps the states congruent, and equal if no      *)
(* delta of deltas was cut off.                                              *)
LEMMA TransferIInv ==
  ASSUME NEW ts \in Timestamps, IInv, Transfer(ts)
  PROVE  IInv'
<1> DEFINE v == Dod(enc, ts)
           D == Delta(enc, ts)
           f == FieldValue(v)
           next == AfterField(dec, f)
<1>1. /\ ts \in Timestamp /\ enc \in TsStates /\ dec \in TsStates /\ clean \in BOOLEAN
      /\ \A x \in Timestamp : x \in Int
  BY SeriesAssumption, WordSize DEF IInv, TypeOK, TsState, TsStates, Timestamp, Signed
<1>2. /\ v \in Int /\ D \in Timestamp
      /\ wire' = TsCode(v)
      /\ enc' = [prev_ts |-> ts, prev_delta |-> D] /\ enc' \in TsStates
  BY <1>1, TsEncodeFacts DEF Transfer
<1>3. sent' = ts /\ before' = dec /\ got' = TsDecode(ReaderOn(wire'), dec) /\ dec' = got'.s
  BY DEF Transfer
<1>4. clean' => clean /\ v \in Signed(LastBits)
  BY DEF Transfer
<1>5. clean' \in BOOLEAN
  BY DEF Transfer
<1> HIDE DEF v, D
<1>6. /\ f \in Int
      /\ Near(f, v)
      /\ v \in Signed(LastBits) => f = v
  BY <1>2, FieldValueFacts DEF Near
<1>7. next \in TsStates
  BY <1>1, <1>6, AfterFieldType
<1>8. wire' \in Seq(Bit) /\ Len(wire') \in Nat
  BY <1>2, TsCodeType
<1> HIDE DEF f, next
<1> DEFINE r == ReaderOn(wire')
<1>9. got' = Decoded([buf |-> r.buf, pos |-> r.pos + Len(wire'), eof |-> FALSE],
                     next, next.prev_ts)
  <2>1. r \in Readers /\ r.eof = FALSE /\ Whole(r, TsCode(v))
    BY <1>2, <1>8, ReaderOnCode
  <2> HIDE DEF r
  <2> QED
    BY <1>1, <1>2, <1>3, <2>1, TsDecodeWhole DEF f, next, r
<1>10. got'.rc = "OK" /\ got'.r.pos = Len(wire') /\ got'.out = next.prev_ts /\ dec' = next
  <2>1. r.pos = 0 /\ 0 + Len(wire') = Len(wire')
    BY <1>8 DEF ReaderOn
  <2> HIDE DEF r
  <2> QED
    BY <1>3, <1>9, <2>1 DEF Decoded
<1>11. InStep' /\ WireIsCode' /\ OutputIsState'
  BY <1>2, <1>3, <1>10 DEF InStep, WireIsCode, OutputIsState
<1>12. TypeOK'
  BY <1>1, <1>2, <1>3, <1>5, <1>7, <1>8, <1>10 DEF TypeOK, TsState, TsStates
<1>13. StatesNear'
  <2>1. /\ enc.prev_ts \in Int /\ enc.prev_delta \in Int /\ ts \in Int /\ D \in Int
        /\ next.prev_ts \in Int /\ next.prev_delta \in Int
    BY <1>1, <1>2, <1>7 DEF TsStates
  <2> DEFINE y == v + enc.prev_delta
  <2>2. y \in Int
    BY <1>2, <2>1
  <2>3. Near(next.prev_ts, enc.prev_ts + y) /\ Near(next.prev_delta, y)
    BY <1>1, <1>2, <1>6, AfterFieldNear DEF next, IInv, StatesNear
  <2>4. Near(y, D)
    <3> DEFINE z == D - enc.prev_delta
    <3>1. z \in Int /\ v = Wrap(z) /\ z + enc.prev_delta = D
      BY <2>1 DEF v, D, Dod
    <3> HIDE DEF z
    <3>2. Near(v, z)
      BY <3>1, NearWrapped
    <3>3. Near(enc.prev_delta, enc.prev_delta)
      BY <2>1, NearItself
    <3>4. Near(v + enc.prev_delta, z + enc.prev_delta)
      BY <1>2, <2>1, <3>1, <3>2, <3>3, NearSum
    <3> QED
      BY <3>1, <3>4
  <2> HIDE DEF y
  <2>5. Near(enc.prev_ts + y, ts)
    <3> DEFINE z == ts - enc.prev_ts
    <3>1. z \in Int /\ D = Wrap(z) /\ enc.prev_ts + z = ts
      BY <2>1 DEF D, Delta
    <3> HIDE DEF z
    <3>2. Near(D, z)
      BY <3>1, NearWrapped
    <3>3. Near(y, z)
      BY <2>1, <2>2, <2>4, <3>1, <3>2, NearTransitive
    <3>4. Near(enc.prev_ts, enc.prev_ts)
      BY <2>1, NearItself
    <3>5. Near(enc.prev_ts + y, enc.prev_ts + z)
      BY <2>1, <2>2, <3>1, <3>3, <3>4, NearSum
    <3> QED
      BY <3>1, <3>5
  <2>6. Near(next.prev_delta, D)
    BY <2>1, <2>2, <2>3, <2>4, NearTransitive
  <2>7. Near(next.prev_ts, ts)
    <3>1. enc.prev_ts + y \in Int
      BY <2>1, <2>2
    <3> QED
      BY <2>1, <2>3, <2>5, <3>1, NearTransitive
  <2> QED
    BY <1>2, <1>10, <2>6, <2>7 DEF StatesNear
<1>14. ASSUME clean' PROVE dec' = enc'
  <2>1. dec = enc /\ f = v
    BY <1>4, <1>6, <1>14 DEF IInv
  <2>2. next = TsEncode(enc, ts).s
    BY <1>1, <2>1, AddedUp DEF next, v
  <2> QED
    BY <1>10, <2>2 DEF Transfer
<1> QED
  BY <1>11, <1>12, <1>13, <1>14 DEF IInv

(* The inductive invariant: the states of both sides are congruent modulo    *)
(* the range of the last field, and equal as long as the series is clean.    *)
(* CleanRoundTrip and Congruent speak of the last timestamp only and do not  *)
(* carry over to the next one, which is computed from delta and timestamp of *)
(* the state.                                                                *)
THEOREM Invariance == Spec => []IInv
<1>1. IInv /\ [Next]_vars => IInv'
  <2> SUFFICES ASSUME IInv, [Next]_vars PROVE IInv'
    OBVIOUS
  <2>1. ASSUME NEW ts \in Timestamps, Transfer(ts) PROVE IInv'
    BY <2>1, TransferIInv
  <2>2. CASE UNCHANGED vars
    BY <2>2 DEF vars, IInv, TypeOK, WireIsCode, InStep, OutputIsState, StatesNear
  <2> QED
    BY <2>1, <2>2 DEF Next
<1> QED
  BY <1>1, InitIInv, PTL DEF Spec

-----------------------------------------------------------------------------
(* The invariants the run checks. *)

(* The states of both codecs are pairs of timestamps, whatever wraps around  *)
(* (gt_ts_encode, gt_ts_decode).                                             *)
THEOREM TypeCorrect == Spec => []TypeOK
<1>1. IInv => TypeOK
  BY DEF IInv
<1> QED
  BY <1>1, Invariance, PTL

(* gt_ts_decode inverts gt_ts_encode as long as every delta of deltas fits   *)
(* the last field, over a series of any length and through every overflow of *)
(* a delta.                                                                  *)
THEOREM CleanSeries == Spec => []CleanRoundTrip
<1>1. IInv => CleanRoundTrip
  BY DEF IInv, CleanRoundTrip, InStep, OutputIsState
<1> QED
  BY <1>1, Invariance, PTL

(* gt_ts_decode consumes the bits gt_ts_encode wrote, no more and no fewer.  *)
THEOREM NeverOutOfStep == Spec => []InStep
<1>1. IInv => InStep
  BY DEF IInv
<1> QED
  BY <1>1, Invariance, PTL

(* A delta of deltas that the (uint32_t) cast of gt_ts_encode cuts off makes *)
(* the decoder wrong by multiples of the last field's range only, for the    *)
(* rest of the block.                                                        *)
THEOREM LowBitsRight == Spec => []Congruent
<1>1. ASSUME IInv PROVE Congruent
  <2>1. \A x \in Timestamp : x \in Int
    BY WordSize DEF Timestamp, Signed
  <2>2. /\ enc.prev_ts \in Int /\ enc.prev_delta \in Int
        /\ dec.prev_ts \in Int /\ dec.prev_delta \in Int
    BY <1>1, <2>1 DEF IInv, TypeOK, TsState
  <2>3. got.out = dec.prev_ts /\ sent = enc.prev_ts
    BY <1>1 DEF IInv, OutputIsState
  <2> QED
    BY <1>1, <2>2, <2>3, NearRemainder DEF IInv, StatesNear, Congruent
<1> QED
  BY <1>1, Invariance, PTL

(* gt_ts_decode of a timestamp whose last bits are missing fails and leaves  *)
(* the state alone, wherever the bits end.                                   *)
THEOREM TornTimestamps == Spec => []TornTimestampIsEof
<1>1. ASSUME IInv PROVE TornTimestampIsEof
  <2> SUFFICES ASSUME NEW k \in 0 .. Len(wire) - 1
               PROVE  /\ TsDecode(ReaderOn(SubSeq(wire, 1, k)), before).rc = "ERR_EOF"
                      /\ TsDecode(ReaderOn(SubSeq(wire, 1, k)), before).s = before
    BY DEF TornTimestampIsEof
  <2> DEFINE r == ReaderOn(SubSeq(wire, 1, k))
  <2>1. before \in TsStates /\ wire \in Seq(Bit)
    BY <1>1 DEF IInv, TypeOK, TsState, TsStates
  <2>2. wire # << >>
    BY EmptySeq
  <2>3. PICK v \in Int : wire = TsCode(v)
    BY <1>1, <2>2 DEF IInv, WireIsCode
  <2>4. r \in Readers /\ Torn(r, wire)
    BY <2>1, ReaderOnTorn
  <2> HIDE DEF r
  <2>5. TsDecode(r, before).rc = "ERR_EOF" /\ TsDecode(r, before).s = before
    BY <2>1, <2>3, <2>4, TsDecodeTorn
  <2> QED
    BY <2>5 DEF r
<1> QED
  BY <1>1, Invariance, PTL

(* No timestamp takes more bits than worst_case_capacity counts for it.      *)
THEOREM WorstCaseBits == Spec => []TsBitsBounded
<1>1. ASSUME IInv PROVE TsBitsBounded
  <2>1. CASE wire = << >>
    BY <2>1, TimestampAssumption, EmptySeq DEF TsBitsBounded
  <2>2. ASSUME NEW v \in Int, wire = TsCode(v) PROVE TsBitsBounded
    <3>1. Len(wire) \in 1 .. 4 + LastBits /\ LastBits \in Nat
      BY <2>2, TsCodeType, TimestampAssumption
    <3> QED
      BY <3>1 DEF TsBitsBounded
  <2> QED
    BY <1>1, <2>1, <2>2 DEF IInv, WireIsCode
<1> QED
  BY <1>1, Invariance, PTL
=============================================================================
