------------------------------ MODULE MCDaemon ------------------------------
(* A small instance of Daemon for TLC. *)
EXTENDS Daemon

CONSTANTS a, b, s, e1, es, f1

\* e1 and f1 change the same note, so that the two machines can conflict; es
\* is never saved by the user: it is the content of a scratch file
MCNoteOf == [e \in Edits |-> IF e = es THEN s ELSE a]

MCConfigs ==
  {[pull |-> TRUE, push |-> TRUE, dryRun |-> FALSE, stamp |-> TRUE,
    author |-> TRUE, message |-> TRUE, upstream |-> "present"]}
=============================================================================
