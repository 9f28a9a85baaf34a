----------------------------- MODULE MCAccount -----------------------------
(* Instances of Account for TLC: up to three devices of one account. *)
EXTENDS Account

CONSTANTS d1, d2, d3, k1, k2, fkc

=============================================================================
