------------------------------ MODULE MCWatcher ------------------------------
(* A small instance of Watcher for TLC. *)
EXTENDS Watcher

CONSTANTS root, d, e, n, m

\* d/e below the root; n in the root is its .gitignore, m is in d/e
MCIn == [p \in Paths |-> CASE p \in {d, n} -> root [] p = e -> d [] p = m -> e]

\* d/e with its file is excluded or not
MCRules == {{e, m}, {}}
=============================================================================
