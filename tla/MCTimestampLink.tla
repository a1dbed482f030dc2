--------------------------- MODULE MCTimestampLink --------------------------
(* TimestampLink on 16-bit timestamps, with a last bucket of 14 bits, around *)
(* the edges of every bucket, of the last field and of the word: the edges   *)
(* not listed are differences of the ones that are.                          *)
EXTENDS TimestampLink

MCBlockTimestamps == {0}

MCTimestamps ==
  {0, -1, 63, -64, 256, -257, 2047, -2049,
   2^(LastBits - 1) - 1, -(2^(LastBits - 1)) - 1, 2^(TsBits - 1) - 1, -(2^(TsBits - 1))}
=============================================================================
