----------------------------- MODULE MCTimeline -----------------------------
(* Instances of Timeline for TLC: a channel and a direct conversation. *)
EXTENDS Timeline

CONSTANTS c1, d1

=============================================================================
