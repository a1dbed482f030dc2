--------------------------- MODULE ValueLinkProofs --------------------------
(***************************************************************************)
(* The invariants of ValueLink, for every width up to 64 and every series  *)
(* of values.                                                              *)
(***************************************************************************)
EXTENDS ValueLink, CodecProofs

(* The wire holds what was encoded last, in the state the decoder was in. *)
WireIsCode ==
  \/ wire = << >>
  \/ \E v \in Value : wire = ValEncode(before, v).bits

(* The inductive invariant. Equal states alone do not last: a window has to  *)
(* leave room for a meaningful bit (it is in ValStates), or its length would *)
(* not fit the six bits it is stored in.                                     *)
IInv ==
  /\ enc \in ValStates
  /\ before \in ValStates
  /\ wire \in Seq(Bit)
  /\ WireIsCode
  /\ LockStep
  /\ RoundTrip

-----------------------------------------------------------------------------
(* Both sides start in the same state. *)
LEMMA InitIInv == Init => IInv
<1> SUFFICES ASSUME Init PROVE IInv
  OBVIOUS
<1>1. enc = ValStart /\ dec = ValStart /\ before = ValStart /\ wire = << >> /\ sent = << >>
  BY DEF Init
<1>2. got = Decoded(ReaderOn(<< >>), ValStart, << >>)
  BY DEF Init
<1>3. got.rc = "OK" /\ got.r.pos = 0 /\ got.out = << >>
  BY <1>2 DEF Decoded, ReaderOn
<1>4. Len(wire) = 0 /\ wire \in Seq(Bit)
  BY <1>1, EmptySeq
<1>5. RoundTrip
  BY <1>1, <1>3, <1>4 DEF RoundTrip
<1>6. LockStep /\ WireIsCode
  BY <1>1 DEF LockStep, WireIsCode
<1> QED
  BY <1>1, <1>4, <1>5, <1>6, StartState DEF IInv

(* A value that is sent comes back and leaves both sides in the same state. *)
LEMMA TransferIInv ==
  ASSUME NEW v \in Values, IInv, Transfer(v)
  PROVE  IInv'
<1> DEFINE code == ValEncode(enc, v).bits
           next == ValEncode(enc, v).s
           r == ReaderOn(code)
<1>1. enc \in ValStates /\ dec = enc /\ v \in Value
  BY ValuesAssumption DEF IInv, LockStep
<1>2. /\ sent' = v /\ wire' = code /\ enc' = next /\ before' = enc
      /\ got' = ValDecode(ReaderOn(wire'), enc) /\ dec' = got'.s
  BY <1>1 DEF Transfer
<1>3. next \in ValStates /\ code \in Seq(Bit) /\ Len(code) \in Nat
  BY <1>1, ValEncodeFacts, LenProperties
<1>4. r \in Readers /\ r.eof = FALSE /\ Whole(r, code)
  BY <1>3, ReaderOnCode
<1>5. r.pos = 0
  BY DEF ReaderOn
<1>6. got' = ValDecode(r, enc)
  BY <1>2
<1> HIDE DEF r
<1>7. ValDecode(r, enc) = Decoded(Behind(r, Len(code)), next, v)
  BY <1>1, <1>4, ValDecodeWhole
<1> HIDE DEF code, next
<1>8. got'.rc = "OK" /\ got'.out = v /\ got'.s = next /\ got'.r.pos = Len(code)
  <2>1. 0 + Len(code) = Len(code)
    BY <1>3
  <2> QED
    BY <1>5, <1>6, <1>7, <2>1 DEF Decoded, Behind
<1>9. RoundTrip' /\ LockStep'
  BY <1>2, <1>8 DEF RoundTrip, LockStep
<1>10. WireIsCode'
  <2>1. wire' = ValEncode(before', v).bits
    BY <1>2 DEF code
  <2> QED
    BY <1>1, <2>1 DEF WireIsCode
<1> QED
  BY <1>1, <1>2, <1>3, <1>9, <1>10 DEF IInv

(* The inductive invariant: both sides hold the same state, whose window is  *)
(* a proper one, and what is on the wire is the code of the last value.      *)
(* RoundTrip alone does not carry over: the next value is decoded with the   *)
(* state.                                                                    *)
THEOREM Invariance == Spec => []IInv
<1>1. IInv /\ [Next]_vars => IInv'
  <2> SUFFICES ASSUME IInv, [Next]_vars PROVE IInv'
    OBVIOUS
  <2>1. ASSUME NEW v \in Values, Transfer(v) PROVE IInv'
    BY <2>1, TransferIInv
  <2>2. CASE UNCHANGED vars
    BY <2>2 DEF vars, IInv, WireIsCode, LockStep, RoundTrip
  <2> QED
    BY <2>1, <2>2 DEF Next
<1> QED
  BY <1>1, InitIInv, PTL DEF Spec

-----------------------------------------------------------------------------
(* The invariants the runs check. *)

(* The states of both codecs and the bits between them have their types      *)
(* (gt_val_state).                                                           *)
THEOREM TypeCorrect == Spec => []TypeOK
<1>1. IInv => TypeOK
  BY DEF IInv, LockStep, TypeOK, ValState, ValStates
<1> QED
  BY <1>1, Invariance, PTL

(* gt_val_decode leaves its state where gt_val_encode left its own, so that  *)
(* a reused window is the window that was opened.                            *)
THEOREM SameWindows == Spec => []LockStep
<1>1. IInv => LockStep
  BY DEF IInv
<1> QED
  BY <1>1, Invariance, PTL

(* gt_val_decode inverts gt_val_encode bit for bit, NaNs and zeros of both   *)
(* signs included, and consumes just the bits that were written.             *)
THEOREM LosslessValues == Spec => []RoundTrip
<1>1. IInv => RoundTrip
  BY DEF IInv
<1> QED
  BY <1>1, Invariance, PTL

(* The window gt_val_encode stores fits its two length fields, whatever was  *)
(* encoded before: the 5 bits clamp the leading zeros, and the 6 bits hold   *)
(* one less than the length.                                                 *)
THEOREM ProperWindows == Spec => []WindowIsProper
<1>1. ASSUME IInv PROVE WindowIsProper
  <2>1. enc.prev_lz \in 0 .. 31 /\ enc.prev_tz \in 0 .. 63
    BY <1>1 DEF IInv, ValStates
  <2>2. enc.prev_lz + enc.prev_tz < Width
    BY <1>1, StateFacts DEF IInv
  <2> QED
    BY <2>1, <2>2 DEF WindowIsProper
<1> QED
  BY <1>1, Invariance, PTL

(* gt_val_decode of a value whose last bits are missing reports the end,     *)
(* wherever the bits end, and no window it takes from torn length fields     *)
(* makes a shift count leave the word.                                       *)
THEOREM TornValues == Spec => []TornValueIsEof
<1>1. ASSUME IInv PROVE TornValueIsEof
  <2> SUFFICES ASSUME NEW k \in 0 .. Len(wire) - 1
               PROVE  LET torn == ValDecode(ReaderOn(SubSeq(wire, 1, k)), before)
                      IN  /\ torn.rc = "ERR_EOF"
                          /\ torn.s.prev_tz \in 0 .. Width - 1
                          /\ torn.s.prev_lz + torn.s.prev_tz < Width
    BY DEF TornValueIsEof
  <2> DEFINE r == ReaderOn(SubSeq(wire, 1, k))
             torn == ValDecode(r, before)
  <2>1. before \in ValStates /\ wire \in Seq(Bit)
    BY <1>1 DEF IInv
  <2>2. wire # << >>
    BY EmptySeq
  <2>3. PICK v \in Value : wire = ValEncode(before, v).bits
    BY <1>1, <2>2 DEF IInv, WireIsCode
  <2>4. r \in Readers /\ Torn(r, wire)
    BY <2>1, ReaderOnTorn
  <2> HIDE DEF r
  <2>5. TornResult(ValDecode(r, before), r)
    BY <2>1, <2>3, <2>4, ValDecodeTorn
  <2>6. torn.rc = "ERR_EOF" /\ torn.s \in ValStates
    BY <2>5 DEF TornResult
  <2> HIDE DEF torn
  <2>7. torn.s.prev_tz \in 0 .. Width - 1 /\ torn.s.prev_lz + torn.s.prev_tz < Width
    BY <2>6, StateFacts, WidthSize
  <2> QED
    BY <2>6, <2>7 DEF torn, r
<1> QED
  BY <1>1, Invariance, PTL

(* No value takes more bits than worst_case_capacity counts for it.          *)
THEOREM WorstCaseBits == Spec => []ValueBitsBounded
<1>1. ASSUME IInv PROVE ValueBitsBounded
  <2>1. CASE wire = << >>
    BY <2>1, WidthSize, EmptySeq DEF ValueBitsBounded
  <2>2. ASSUME NEW v \in Value, wire = ValEncode(before, v).bits PROVE ValueBitsBounded
    <3>1. Len(wire) \in 1 .. 13 + Width /\ Width \in Nat
      BY <1>1, <2>2, ValEncodeFacts, WidthSize DEF IInv
    <3> QED
      BY <3>1 DEF ValueBitsBounded
  <2> QED
    BY <1>1, <2>1, <2>2 DEF IInv, WireIsCode
<1> QED
  BY <1>1, Invariance, PTL
=============================================================================
