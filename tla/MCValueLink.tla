----------------------------- MODULE MCValueLink ----------------------------
(* ValueLink on runs of ones whose ends lie around the positions where the   *)
(* code changes its mind: the ends of the word and the 31 leading zeros.     *)
EXTENDS ValueLink

RunOfOnes(a, b) == [i \in 1 .. Width |-> IF i \in a .. b THEN 1 ELSE 0]

DoubleValues ==
  {Zeros(64), RunOfOnes(1, 1), RunOfOnes(2, 12), RunOfOnes(31, 33), RunOfOnes(32, 40),
   RunOfOnes(33, 33), RunOfOnes(35, 62), RunOfOnes(64, 64), RunOfOnes(1, 64)}

FloatValues ==
  {Zeros(32), RunOfOnes(1, 1), RunOfOnes(2, 9), RunOfOnes(8, 16), RunOfOnes(17, 31),
   RunOfOnes(32, 32), RunOfOnes(1, 32)}
=============================================================================
