------------------------------ MODULE PointLog ------------------------------
(***************************************************************************)
(* The C API as a state machine over the values of PointCore: a compressor *)
(* and a reader opened on its stream. The reader delivers the points that  *)
(* are in the stream, in order and all of them, before it reports the end, *)
(* which is final; in between there are at most as many further points as  *)
(* PointCore allows. Only when it was given bytes from behind the stream   *)
(* is their number left open.                                              *)
(***************************************************************************)
EXTENDS PointCore

VARIABLES core,     \* the compressor
          reading,  \* there is a reader
          stream,   \* what it was opened on; spare is at most what follows
          taken,    \* the points it has delivered
          ended     \* it has reported the end

vars == <<core, reading, stream, taken, ended>>

NoStream == [kind |-> "none", points |-> << >>, spare |-> 0]

Init ==
  /\ core = Empty
  /\ reading = FALSE
  /\ stream = NoStream
  /\ taken = << >>
  /\ ended = FALSE

Accept ==
  /\ LET ps == SubSeq(core'.log, Len(core.log) + 1, Len(core'.log))
     IN  MayTake(core, ps) /\ core' \in {Taken(core, ps, FALSE), Taken(core, ps, TRUE)}
  /\ UNCHANGED <<reading, stream, taken, ended>>

(* All of the stream and bytes of other origin behind it. *)
IsOverlong(s) == s.kind = "overlong" /\ s.points = core.log /\ s.spare \in Nat

Open ==
  /\ stream' \in WholeStreams(core) \cup CutStreams(core) \/ (~ core.full /\ IsOverlong(stream'))
  /\ reading' = TRUE
  /\ taken' = << >>
  /\ ended' = FALSE
  /\ UNCHANGED core

(* The points of the stream come first, and all of them before the end. *)
InOrder(ps) == \A i \in 1 .. Len(ps) : i <= Len(stream.points) => ps[i] = stream.points[i]

Read ==
  /\ reading
  /\ ~ ended
  /\ Len(taken') \in Len(taken) .. Len(stream.points) + stream.spare
  /\ SubSeq(taken', 1, Len(taken)) = taken
  /\ InOrder(taken')
  /\ ended' \in BOOLEAN
  /\ ended' => Len(taken') >= Len(stream.points)
  /\ UNCHANGED <<core, reading, stream>>

Close ==
  /\ reading
  /\ reading' = FALSE
  /\ stream' = NoStream
  /\ taken' = << >>
  /\ ended' = FALSE
  /\ UNCHANGED core

Next == Accept \/ Open \/ Read \/ Close

Spec == Init /\ [][Next]_vars
=============================================================================
