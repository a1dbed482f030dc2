------------------------------- MODULE BitLog -------------------------------
(***************************************************************************)
(* What a bit writer over a bounded buffer promises: the bits put so far,  *)
(* in order, until Capacity of them are stored; from then on every put     *)
(* reports an overflow and stores nothing.                                 *)
(***************************************************************************)
EXTENDS Integers, Sequences

CONSTANT Capacity   \* number of bits the buffer holds, a natural number

VARIABLES log,      \* the bits stored, oldest first
          overflow  \* a put has been refused

vars == <<log, overflow>>

Init ==
  /\ log = << >>
  /\ overflow = FALSE

Store(bit) ==
  /\ Len(log) < Capacity
  /\ log' = Append(log, bit)
  /\ UNCHANGED overflow

Refuse ==
  /\ Len(log) = Capacity
  /\ overflow' = TRUE
  /\ UNCHANGED log

Next == Refuse \/ \E bit \in {0, 1} : Store(bit)

Spec == Init /\ [][Next]_vars
=============================================================================
