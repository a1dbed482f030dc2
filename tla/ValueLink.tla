----------------------------- MODULE ValueLink ------------------------------
(***************************************************************************)
(* A value encoder and a value decoder joined by the bits that pass        *)
(* between them, for a series of values of any length.                     *)
(***************************************************************************)
EXTENDS ValueCodec

CONSTANT Values   \* the values that occur in the series
ASSUME ValuesAssumption == Values \subseteq Value

VARIABLES enc,    \* gt_val_state of the compressor
          dec,    \* gt_val_state of the decompressor
          sent,   \* the value last encoded
          wire,   \* the bits it was encoded in
          before, \* the decoder's state when it began to read them
          got     \* what the decoder returned

vars == <<enc, dec, sent, wire, before, got>>

Init ==
  /\ enc = ValStart
  /\ dec = ValStart
  /\ sent = << >>
  /\ wire = << >>
  /\ before = ValStart
  /\ got = Decoded(ReaderOn(<< >>), ValStart, << >>)

Transfer(v) ==
  /\ sent' = v
  /\ wire' = ValEncode(enc, v).bits
  /\ enc' = ValEncode(enc, v).s
  /\ before' = dec
  /\ got' = ValDecode(ReaderOn(wire'), dec)
  /\ dec' = got'.s

Next == \E v \in Values : Transfer(v)

Spec == Init /\ [][Next]_vars

-----------------------------------------------------------------------------
ValState ==
  [prev_bits : Value, prev_lz : 0 .. 31, prev_tz : 0 .. 63,
   has_value : BOOLEAN, has_block : BOOLEAN]

TypeOK ==
  /\ enc \in ValState
  /\ dec \in ValState
  /\ before \in ValState
  /\ wire \in Seq(Bit)

(* Encoder and decoder hold the same state after every value: the window     *)
(* one of them reuses is the window the other one opened.                    *)
LockStep == dec = enc

(* The decoder returns the value that was encoded, bit for bit, and stops    *)
(* exactly where the encoder stopped.                                        *)
RoundTrip ==
  /\ got.rc = "OK"
  /\ got.out = sent
  /\ got.r.pos = Len(wire)

(* A window leaves room for at least one meaningful bit, and its leading     *)
(* zeros fit the five bits they are stored in.                               *)
WindowIsProper ==
  /\ enc.prev_lz <= 31
  /\ enc.prev_tz >= 0
  /\ enc.prev_lz + enc.prev_tz < Width

(* A value whose last bits are missing is never returned: decoding any       *)
(* proper prefix reports the end of input, and on the way there no shift     *)
(* count leaves the word.                                                    *)
TornValueIsEof ==
  \A k \in 0 .. Len(wire) - 1 :
     LET torn == ValDecode(ReaderOn(SubSeq(wire, 1, k)), before)
     IN  /\ torn.rc = "ERR_EOF"
         /\ torn.s.prev_tz \in 0 .. Width - 1
         /\ torn.s.prev_lz + torn.s.prev_tz < Width

(* Two control bits, two length fields and the value bound every value: the  *)
(* part of the worst case that worst_case_capacity counts for a value.       *)
ValueBitsBounded == Len(wire) <= 2 + 5 + 6 + Width
=============================================================================
