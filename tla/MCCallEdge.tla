---------------------------- MODULE MCCallEdge ----------------------------
(* Instances of CallEdge for TLC. *)
EXTENDS CallEdge

CONSTANTS a, b

=============================================================================
