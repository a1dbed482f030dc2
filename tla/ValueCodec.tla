----------------------------- MODULE ValueCodec -----------------------------
(***************************************************************************)
(* gt_val_encode and gt_val_decode of src/gorillats.c: XOR coding of       *)
(* floating point values. A value is the sequence of its Width bits, the   *)
(* sign bit first; Width is 64 for double and 32 for float.                *)
(***************************************************************************)
EXTENDS Bits, FiniteSetsExt

CONSTANT Width
ASSUME WidthAssumption == Width \in 1 .. 64

Value == [1 .. Width -> Bit]

(* gt_val_state as calloc leaves it. *)
ValStart ==
  [prev_bits |-> Zeros(Width), prev_lz |-> 0, prev_tz |-> 0,
   has_value |-> FALSE, has_block |-> FALSE]

Xor(a, b) == [i \in 1 .. Width |-> (a[i] + b[i]) % 2]

Ones(x) == {i \in 1 .. Width : x[i] = 1}

(* Mutant: the 64 - width upper bits are counted in. *)
ClzOfWord(x) == 64 - Width + Min(Ones(x)) - 1

(* gt_clz64 less the 64 - width upper bits, and gt_ctz64, of a nonzero word. *)
Clz(x) == Min(Ones(x)) - 1
Ctz(x) == Width - Max(Ones(x))

(* Mutant: more leading zeros than five bits hold. *)
UnclampedZeros(x) == Clz(x)

(* Leading zeros are stored in 5 bits. *)
LeadingZeros(x) == IF Clz(x) > 31 THEN 31 ELSE Clz(x)

(* The bits of x outside a window of lz leading and tz trailing zeros. *)
Meaningful(x, lz, tz) == SubSeq(x, lz + 1, Width - tz)

(* The outcome of a shift by a negative count, which is undefined: some word, *)
(* of which nothing is known, nor of what is computed from it. One value      *)
(* stands for every outcome, because no branch of the code looks at it.       *)
Unknown == << >>
Words   == Value \cup {Unknown}

(* meaningful << tz, as far as the Width bits that a value is made of. A      *)
(* window of more than Width bits, which no encoder writes, has tz < 0.       *)
Shifted(m, tz) ==
  IF tz < 0 THEN Unknown
  ELSE [i \in 1 .. Width |->
          LET k == i - (Width - tz - Len(m)) IN IF k \in 1 .. Len(m) THEN m[k] ELSE 0]

(* prev_bits ^ x *)
Changed(bits, x) == IF bits = Unknown \/ x = Unknown THEN Unknown ELSE Xor(bits, x)

(* Mutant: the trailing zeros are not looked at. *)
FitsFromAbove(s, x) ==
  /\ s.has_block
  /\ LeadingZeros(x) >= s.prev_lz
  /\ Width - s.prev_lz - s.prev_tz > 0

FitsWindow(s, x) ==
  /\ s.has_block
  /\ LeadingZeros(x) >= s.prev_lz
  /\ Ctz(x) >= s.prev_tz
  /\ Width - s.prev_lz - s.prev_tz > 0

(* Mutants: the length is stored as it is, or the first field is too wide. *)
NewBlockPlainLength(lz, tz, x) ==
  <<1, 1>> \o FieldBits(lz, 5) \o FieldBits(Width - lz - tz, 6) \o Meaningful(x, lz, tz)
NewBlockSixBits(lz, tz, x) ==
  <<1, 1>> \o FieldBits(lz, 6) \o FieldBits(Width - lz - tz - 1, 6) \o Meaningful(x, lz, tz)

NewBlock(lz, tz, x) ==
  <<1, 1>> \o FieldBits(lz, 5) \o FieldBits(Width - lz - tz - 1, 6) \o Meaningful(x, lz, tz)

ValEncode(s, v) ==
  LET x    == Xor(v, s.prev_bits)
      seen == [s EXCEPT !.prev_bits = v, !.has_value = TRUE]
      lz   == LeadingZeros(x)
      tz   == Ctz(x)
  IN  IF ~ s.has_value THEN [bits |-> v, s |-> seen]
      ELSE IF x = Zeros(Width) THEN [bits |-> <<0>>, s |-> seen]
      ELSE IF FitsWindow(s, x)
      THEN [bits |-> <<1, 0>> \o Meaningful(x, s.prev_lz, s.prev_tz), s |-> seen]
      ELSE [bits |-> NewBlock(lz, tz, x),
            s    |-> [seen EXCEPT !.prev_lz = lz, !.prev_tz = tz, !.has_block = TRUE]]

(* '10': the meaningful bits of the previous window. *)
ReadReused(r, s) ==
  LET m == Get(r, Width - s.prev_lz - s.prev_tz)
  IN  [r |-> m.r, s |-> s, x |-> Shifted(m.bits, s.prev_tz)]

(* Mutant: the trailing zeros of the new window are not remembered. *)
ReadBlockForgets(r, s) ==
  LET first  == Get(r, 5)
      second == Get(first.r, 6)
      lz     == NumberOf(first.bits)
      sig    == NumberOf(second.bits) + 1
      m      == Get(second.r, sig)
  IN  [r |-> m.r, x |-> Shifted(m.bits, Width - lz - sig),
       s |-> [s EXCEPT !.prev_lz = lz, !.has_block = TRUE]]

(* '11': a new window. The state takes it before the end mark is looked at. *)
ReadBlock(r, s) ==
  LET first  == Get(r, 5)
      second == Get(first.r, 6)
      lz     == NumberOf(first.bits)
      sig    == NumberOf(second.bits) + 1
      tz     == Width - lz - sig
      m      == Get(second.r, sig)
  IN  [r |-> m.r, x |-> Shifted(m.bits, tz),
       s |-> [s EXCEPT !.prev_lz = lz, !.prev_tz = tz, !.has_block = TRUE]]

FirstValue(r, s) ==
  LET g == Get(r, Width)
  IN  IF g.r.eof THEN AtEof(g.r, s)
      ELSE Decoded(g.r, [s EXCEPT !.prev_bits = g.bits, !.has_value = TRUE], g.bits)

(* Mutant: the end mark is not looked at. *)
ChangedValueUnchecked(r, s) ==
  LET fresh == Get(r, 1)
      read  == IF fresh.bits = <<0>> THEN ReadReused(fresh.r, s) ELSE ReadBlock(fresh.r, s)
      bits  == Changed(s.prev_bits, read.x)
  IN  Decoded(read.r, [read.s EXCEPT !.prev_bits = bits], bits)

ChangedValue(r, s) ==
  LET fresh == Get(r, 1)
      read  == IF fresh.bits = <<0>> THEN ReadReused(fresh.r, s) ELSE ReadBlock(fresh.r, s)
      bits  == Changed(s.prev_bits, read.x)
  IN  IF read.r.eof THEN AtEof(read.r, read.s)
      ELSE Decoded(read.r, [read.s EXCEPT !.prev_bits = bits], bits)

ValDecode(r, s) ==
  LET changed == Get(r, 1)
  IN  IF ~ s.has_value THEN FirstValue(r, s)
      ELSE IF changed.bits = <<1>> THEN ChangedValue(changed.r, s)
      ELSE IF changed.r.eof THEN AtEof(changed.r, s)
      ELSE Decoded(changed.r, s, s.prev_bits)
=============================================================================
