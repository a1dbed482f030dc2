----------------------------- MODULE PointCore ------------------------------
(***************************************************************************)
(* What the C API of include/gorillats/gorillats.h promises of points,     *)
(* whatever bits it stores them in, as values: what a compress call makes  *)
(* of a compressor, and what a decompressor has that is opened on the      *)
(* stream. PointLog is the state machine over these values, which          *)
(* GorillaStream is shown to implement; Envelope builds the wrappers upon  *)
(* them.                                                                   *)
(***************************************************************************)
EXTENDS Integers, Sequences

MostPadding == 3   \* seven zero bits hold three points of two bits

(* A compressor: the points accepted, and whether one has been refused. *)
Empty == [log |-> << >>, full |-> FALSE]

(* A call appends points, none to a full compressor, and may refuse others. *)
MayTake(core, ps)          == core.full => ps = << >>
Taken(core, ps, refused) == [log |-> core.log \o ps, full |-> core.full \/ refused]

(* A stream as long as finish says: all its points, and behind them what the *)
(* rest of the last byte decodes to. A full buffer has no such rest, and a   *)
(* stream without points ends with a byte.                                   *)
WholeStreams(core) ==
  [kind : {"whole"}, points : {core.log},
   spare : IF core.full \/ core.log = << >> THEN {0} ELSE 0 .. MostPadding]

(* A stream that was cut: without its last point, unless the end that it     *)
(* lost is that of a point that did not fit.                                 *)
CutStreams(core) ==
  {[kind |-> "cut", points |-> SubSeq(core.log, 1, n), spare |-> 0] :
     n \in {m \in 0 .. Len(core.log) : m < Len(core.log) \/ core.full}}
=============================================================================
