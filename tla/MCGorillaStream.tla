--------------------------- MODULE MCGorillaStream --------------------------
(* GorillaStream on 16-bit timestamps and 8-bit values: points that repeat,  *)
(* that reuse a window and that open a new one, in buffers that hold only    *)
(* the block timestamp, end in the middle of a point, or are large enough.   *)
EXTENDS GorillaStream

A == <<0, 0, 0, 1, 1, 0, 0, 0>>
B == <<0, 0, 0, 1, 0, 1, 0, 0>>
C == <<0, 1, 0, 1, 0, 1, 0, 0>>

MCPoints ==
  {[ts |-> 0, val |-> A], [ts |-> 1, val |-> A], [ts |-> 2, val |-> B], [ts |-> 70, val |-> C]}

MCBlockTimestamps == {-1}

(* Fresh memory, and bytes that read as repeated values and as a window that *)
(* is wider than a value.                                                    *)
MCFills == {<<0, 0, 0, 0, 0, 0, 0, 0>>, <<0, 0, 1, 1, 0, 0, 0, 0>>}

(* The hypothesis of the theorem about ImplementsPointLog. *)
ASSUME SpanFits
=============================================================================
