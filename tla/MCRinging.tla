---------------------------- MODULE MCRinging ----------------------------
(* Instances of Ringing for TLC. *)
EXTENDS Ringing

CONSTANTS a, b, c

OneDm == {{a, b}}
TwoDms == {{a, b}, {a, c}}
=============================================================================
