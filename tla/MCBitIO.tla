------------------------------ MODULE MCBitIO -------------------------------
(* BitIO on three two-bit bytes of a four-byte memory that starts all ones, *)
(* all zeros, or alternating.                                               *)
EXTENDS BitIO

MCMemories ==
  {[a \in Addresses |-> [j \in Offsets |-> 1]],
   [a \in Addresses |-> ZeroByte],
   [a \in Addresses |-> [j \in Offsets |-> a % 2]]}
=============================================================================
