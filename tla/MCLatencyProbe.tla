--------------------------- MODULE MCLatencyProbe ---------------------------
(* Model-checking instance of LatencyProbe.  The cfg files give the probe *)
(* key and one concurrently loaded document as model values, a recursion  *)
(* limit of three frames and a clock of three ticks: enough for a load    *)
(* document to be imported before the probe's own, for a long-poll answer *)
(* to precede the write's acknowledgment, and for the observer to run out *)
(* of frames.                                                              *)
EXTENDS LatencyProbe, TLC
=============================================================================
