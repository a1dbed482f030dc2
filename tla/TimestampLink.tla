---------------------------- MODULE TimestampLink ---------------------------
(***************************************************************************)
(* A timestamp encoder and a timestamp decoder joined by the bits that     *)
(* pass between them, for a series of timestamps of any length.            *)
(***************************************************************************)
EXTENDS TimestampCodec

CONSTANTS BlockTimestamps,  \* what a block may start with
          Timestamps        \* the timestamps that occur in the series
ASSUME SeriesAssumption ==
  /\ BlockTimestamps \subseteq Timestamp
  /\ Timestamps \subseteq Timestamp

VARIABLES enc,    \* gt_ts_state of the compressor
          dec,    \* gt_ts_state of the decompressor
          sent,   \* the timestamp last encoded
          wire,   \* the bits it was encoded in
          before, \* the decoder's state when it began to read them
          got,    \* what the decoder returned
          clean   \* history: every delta of deltas so far fits the last bucket

vars == <<enc, dec, sent, wire, before, got, clean>>

Init ==
  \E t0 \in BlockTimestamps :
    /\ enc = TsStart(t0)
    /\ dec = TsStart(t0)
    /\ sent = t0
    /\ wire = << >>
    /\ before = TsStart(t0)
    /\ got = Decoded(ReaderOn(<< >>), TsStart(t0), t0)
    /\ clean = TRUE

Transfer(ts) ==
  /\ sent' = ts
  /\ wire' = TsEncode(enc, ts).bits
  /\ enc' = TsEncode(enc, ts).s
  /\ before' = dec
  /\ got' = TsDecode(ReaderOn(wire'), dec)
  /\ dec' = got'.s
  /\ clean' = (clean /\ Dod(enc, ts) \in Signed(LastBits))

Next == \E ts \in Timestamps : Transfer(ts)

Spec == Init /\ [][Next]_vars

-----------------------------------------------------------------------------
TsState == [prev_ts : Timestamp, prev_delta : Timestamp]

TypeOK ==
  /\ enc \in TsState
  /\ dec \in TsState
  /\ before \in TsState
  /\ wire \in Seq(Bit)
  /\ clean \in BOOLEAN

(* As long as every delta of deltas fits the last bucket, the decoder holds  *)
(* the encoder's state and returns the timestamp that was encoded, even      *)
(* where deltas wrap around.                                                 *)
CleanRoundTrip ==
  clean => /\ got.rc = "OK"
           /\ got.out = sent
           /\ dec = enc

(* The decoder never loses its place: it consumes exactly the bits that were *)
(* written for the point, whatever the delta of deltas was.                  *)
InStep == got.rc = "OK" /\ got.r.pos = Len(wire)

(* Whatever was cut off a delta of deltas, the decoder is wrong by a         *)
(* multiple of 2^LastBits only: the low bits of every timestamp are right.   *)
Congruent ==
  /\ (got.out - sent) % Pow2[LastBits] = 0
  /\ (dec.prev_delta - enc.prev_delta) % Pow2[LastBits] = 0

(* A timestamp whose last bits are missing is never returned, and the state  *)
(* the decoder keeps is the one it had.                                      *)
TornTimestampIsEof ==
  \A k \in 0 .. Len(wire) - 1 :
     LET torn == TsDecode(ReaderOn(SubSeq(wire, 1, k)), before)
     IN  torn.rc = "ERR_EOF" /\ torn.s = before

(* The part of the worst case that worst_case_capacity counts for a          *)
(* timestamp.                                                                *)
TsBitsBounded == Len(wire) <= 4 + LastBits

(* What the header promises: a point is appended or an error is returned.    *)
(* compress returns OK here, so what is read back is what was handed over.   *)
EveryTimestampReturned == got.out = sent
=============================================================================
