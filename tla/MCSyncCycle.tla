----------------------------- MODULE MCSyncCycle -----------------------------
(* Small instances of SyncCycle for TLC. *)
EXTENDS SyncCycle

CONSTANTS a, b, s, e1, e2, es, f1

\* e1 and f1 change the same note, so that the two machines can conflict
\* es is never saved by the user: it is the content of a scratch file
MCNoteOf ==
  [e \in Edits |-> CASE e \in {e1, f1} -> a [] e = e2 -> b [] e = es -> s]

Default == [pull |-> TRUE, push |-> TRUE, dryRun |-> FALSE, stamp |-> TRUE,
            author |-> TRUE, message |-> TRUE, upstream |-> "present"]

MCNoPull == {[Default EXCEPT !.pull = FALSE]}
MCMissing == {[Default EXCEPT !.upstream = "missing"]}

\* every flag, and every kind of upstream; without author or message only the
\* user commits
MCConfigs ==
  {Default,
   [Default EXCEPT !.pull = FALSE],
   [Default EXCEPT !.dryRun = TRUE],
   [Default EXCEPT !.dryRun = TRUE, !.stamp = FALSE],
   [Default EXCEPT !.pull = FALSE, !.author = FALSE],
   [Default EXCEPT !.push = FALSE, !.message = FALSE],
   [Default EXCEPT !.upstream = "none"],
   [Default EXCEPT !.upstream = "unresolved"],
   [Default EXCEPT !.upstream = "missing"]}
=============================================================================
