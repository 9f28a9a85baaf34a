------------------------------ MODULE MCFiles ------------------------------
(* Instances of Files for TLC. *)
EXTENDS Files, TLC

CONSTANTS x, y, ch, ch2, dm

OneAndTwo == (x :> 2) @@ (y :> 1)
Chosen == {<<y>>, <<x, y>>}
=============================================================================
