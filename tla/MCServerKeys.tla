---------------------------- MODULE MCServerKeys ----------------------------
(* Instances of ServerKeys for TLC: ann owns the server, mod moderates, joe   *)
(* joins and is removed.  Task slots are interchangeable.                     *)
EXTENDS ServerKeys, TLC

CONSTANTS ann, mod, joe

SlotSymmetry == Permutations(TaskIds)

=============================================================================
