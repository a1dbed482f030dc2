-------------------------------- MODULE Bits --------------------------------
(***************************************************************************)
(* The bit fields of a gorillats stream. A stream is the sequence of its   *)
(* bits, most significant bit of the first byte first; module BitIO shows  *)
(* that gt_writer and gt_reader behave so on bytes.                        *)
(***************************************************************************)
EXTENDS Integers, Sequences

Bit == {0, 1}

(* 1 << n; a function, because the provers know nothing of ^. *)
Pow2[n \in Nat] == IF n = 0 THEN 1 ELSE 2 * Pow2[n - 1]

Zeros(n) == [i \in 1 .. n |-> 0]

(* gt_put_bits: the n low bits of v, two's complement, highest first. *)
FieldBits(v, n) == [i \in 1 .. n |-> (v \div Pow2[n - i]) % 2]

(* gt_get_bits as a number: v = (v << 1) | bit over the bits read. *)
NumberOf(bits) ==
  LET value[k \in 0 .. Len(bits)] == IF k = 0 THEN 0 ELSE 2 * value[k - 1] + bits[k]
  IN  value[Len(bits)]

(* gt_reader: the bits it may read, how many were read, and the end mark. *)
ReaderOn(bits) == [buf |-> bits, pos |-> 0, eof |-> FALSE]

(* gt_get_bits: behind the end every bit reads as 0 and the mark is set. *)
Get(r, n) ==
  [bits |-> [i \in 1 .. n |-> IF r.pos + i <= Len(r.buf) THEN r.buf[r.pos + i] ELSE 0],
   r    |-> [r EXCEPT !.pos = IF @ + n <= Len(r.buf) THEN @ + n ELSE Len(r.buf),
                      !.eof = @ \/ r.pos + n > Len(r.buf)]]

(* What a decoding function returns: its status, the reader and the decoder  *)
(* state it leaves, and the output it wrote, if any.                         *)
Decoded(r, s, out) == [rc |-> "OK", r |-> r, s |-> s, out |-> out]
AtEof(r, s)        == [rc |-> "ERR_EOF", r |-> r, s |-> s, out |-> << >>]
=============================================================================
