------------------------------- MODULE MCStamp -------------------------------
(* Small instances of Stamp for TLC. *)
EXTENDS Stamp

MCAuthor == {[modified |-> m, author |-> TRUE] : m \in BOOLEAN}
MCNoAuthor == {[modified |-> TRUE, author |-> FALSE]}
=============================================================================
