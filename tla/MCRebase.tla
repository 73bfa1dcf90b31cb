------------------------------ MODULE MCRebase ------------------------------
(* Small instances of Rebase for TLC. *)
EXTENDS Rebase

CONSTANTS p, q
=============================================================================
