----------------------------- MODULE MCEnvelope -----------------------------
(* Envelope with two points that can be told apart, in series of up to three. *)
EXTENDS Envelope

CONSTANTS p1, p2, phantom

MCPoints == {p1, p2}
=============================================================================
