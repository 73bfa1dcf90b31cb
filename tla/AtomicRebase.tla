---------------------------- MODULE AtomicRebase ----------------------------
(***************************************************************************)
(* What gitx.Rebase promises its caller: it either replays every local     *)
(* commit worth keeping or changes nothing, branch and files together.     *)
(* A call that was disturbed -- a killed git, somebody else's lock -- may  *)
(* leave the files half-way, but the branch is never in between.           *)
(***************************************************************************)
EXTENDS Naturals, Sequences

CONSTANT Commits   \* the most local commits there may be

VARIABLES
  local,      \* the local commits when the call is made
  dropped,    \* those of them that resolving may leave empty
  branch,     \* the local commits on the branch
  files,      \* what the files correspond to: "before", "between" or "after"
  disturbed,  \* something got in the way of git
  result      \* "pending", "nil", "conflict" (ErrRebaseConflict) or "raw"

avars == <<local, dropped, branch, files, disturbed, result>>

AInit ==
  /\ local \in {[i \in 1..n |-> i] : n \in 0..Commits}
  /\ dropped \subseteq 1..Len(local)
  /\ branch = local /\ files = "before" /\ disturbed = FALSE /\ result = "pending"

\* the local commits in their order, less some that became empty
Worth(commits) ==
  /\ commits \in Seq(1..Len(local))
  /\ \A i, j \in 1..Len(commits) : i < j => commits[i] < commits[j]
  /\ \A c \in (1..Len(local)) \ dropped : \E i \in 1..Len(commits) : commits[i] = c

Pending == result = "pending" /\ UNCHANGED <<local, dropped>>

Disturb == disturbed' = TRUE /\ UNCHANGED <<local, dropped, branch, files, result>>

Replay == /\ Pending /\ UNCHANGED disturbed
          /\ Worth(branch') /\ files' = "after" /\ result' = "nil"

Refuse == /\ Pending /\ disturbed' \in {disturbed, TRUE}
          /\ result' \in {"conflict", "raw"} /\ UNCHANGED <<branch, files>>

\* a disturbed call
GiveUp == /\ Pending /\ disturbed' = TRUE
          /\ branch' = branch \/ Worth(branch')
          /\ files' = "between" /\ result' \in {"conflict", "raw"}

ANext == Disturb \/ Replay \/ Refuse \/ GiveUp

ASpec == AInit /\ [][ANext]_avars
=============================================================================
