------------------------------- MODULE Rebase -------------------------------
(***************************************************************************)
(* gitx.Rebase: `git rebase --autostash`, the loop that offers every stop  *)
(* to the conflict resolver, and the abort.  The resolver is               *)
(* syncer.resolveTimestamps, which works on the unmerged paths one by one. *)
(* git is modelled from the outside: it picks the local commits in order,  *)
(* stops where one does not apply, and moves the branch only at the end,   *)
(* in one step with the end of the rebase.                                 *)
(***************************************************************************)
EXTENDS Naturals, Sequences, FiniteSets

CONSTANTS
  Commits,    \* the most local commits there may be
  Paths,      \* the paths they touch
  MaxSteps,   \* maxRebaseSteps
  Hazards     \* what the environment may do meanwhile

ASSUME RebaseAssumption ==
  /\ Commits \in Nat
  /\ MaxSteps \in Nat \ {0}
  /\ Hazards \subseteq {"signal", "timeout", "lock", "save", "refuse"}

VARIABLES
  \* the case at hand, chosen once
  local,     \* the local commits
  clash,     \* how each conflicts with upstream, path by path
  dropped,   \* those whose patch is empty once their conflict is resolved
  enabled,   \* stamping and resolve-timestamps are on
  \* git
  ref,       \* the local commits on the branch
  picked,    \* the commits replayed so far, while a rebase is in progress
  next,      \* the commit being replayed
  rebasing,  \* .git/rebase-merge exists
  unmerged,  \* the unmerged paths
  files,     \* "before", "between" or "after"
  edited,    \* a tracked file was saved under the rebase
  lock,      \* .git/index.lock exists
  \* Rebase
  pc,        \* the step
  steps,     \* the loop's counter
  err,       \* what the last command returned: "nil", "stop", "empty" or "raw"
  left,      \* the paths resolveTimestamps has not looked at yet
  cancelled, \* the context is cancelled
  outcome,   \* what Rebase returned, "pending" before it does
  \* history
  skipped,   \* `--skip` has run
  disturbed  \* something got in the way of git

case == <<local, clash, dropped, enabled>>
git  == <<ref, picked, next, rebasing, unmerged, files, edited, lock>>
code == <<pc, steps, err, left, cancelled, outcome>>
vars == <<case, git, code, skipped, disturbed>>

Kinds == {"none", "stamps", "real"}
Conflicts(c) == {p \in Paths : clash[c][p] # "none"}
Real(c) == \E p \in Paths : clash[c][p] = "real"

Init ==
  /\ local \in {[i \in 1..n |-> i] : n \in 0..Commits}
  /\ clash \in [1..Len(local) -> [Paths -> Kinds]]
  /\ dropped \in SUBSET {c \in 1..Len(local) : Conflicts(c) # {} /\ ~Real(c)}
  /\ enabled \in BOOLEAN
  /\ ref = local /\ picked = <<>> /\ next = 0 /\ rebasing = FALSE
  /\ unmerged = {} /\ files = "before" /\ edited = FALSE /\ lock = FALSE
  /\ pc = "start" /\ steps = 0 /\ err = "nil" /\ left = {}
  /\ cancelled = FALSE /\ outcome = "pending"
  /\ skipped = FALSE /\ disturbed = FALSE

Goto(p) == pc' = p /\ UNCHANGED <<steps, err, left, cancelled, outcome>>

\* a command that carries the rebase on has ended; a `--skip` that does not
\* end well is not offered to the resolver
Exit(e) == /\ err' = e
           /\ pc' = IF skipped /\ e # "nil" THEN "abort" ELSE "loop"
           /\ UNCHANGED <<steps, left, cancelled, outcome>>

Return(o) == /\ pc' = "returned" /\ outcome' = o
             /\ UNCHANGED <<steps, err, left, cancelled>>

Same == UNCHANGED <<case, skipped, disturbed>>
NoGit == UNCHANGED git

-----------------------------------------------------------------------------
(* git.                                                                    *)

GitRefuse ==
  /\ pc = "start"
  /\ \/ lock \/ cancelled \/ "refuse" \in Hazards
     /\ Exit("raw") /\ NoGit
  /\ Same

\* local changes go to the autostash and the files become upstream's
GitBegin ==
  /\ pc = "start" /\ ~lock /\ ~cancelled
  /\ rebasing' = TRUE /\ next' = 1 /\ files' = "between"
  /\ Goto("git")
  /\ UNCHANGED <<ref, picked, unmerged, edited, lock>> /\ Same

GitPick ==
  /\ pc = "git" /\ next <= Len(local) /\ ~lock
  /\ Conflicts(next) = {}
  /\ picked' = Append(picked, next) /\ next' = next + 1
  /\ UNCHANGED <<ref, rebasing, unmerged, files, edited, lock, code>> /\ Same

\* a conflict, or files and lock in the way of the checkout
GitStop ==
  /\ pc = "git"
  /\ \/ lock /\ UNCHANGED unmerged
     \/ next <= Len(local) /\ edited /\ UNCHANGED unmerged
     \/ next <= Len(local) /\ ~lock /\ Conflicts(next) # {} /\ unmerged' = Conflicts(next)
  /\ Exit("stop")
  /\ UNCHANGED <<ref, picked, next, rebasing, files, edited, lock>> /\ Same

\* the branch moves and the autostash is applied; git succeeds even when the
\* stash conflicts
Complete ==
  /\ pc = "git" /\ next > Len(local) /\ ~lock
  /\ ref' = picked /\ picked' = <<>> /\ next' = 0 /\ rebasing' = FALSE
  /\ unmerged' \in SUBSET Paths
  /\ UNCHANGED edited

GitFinish ==
  /\ Complete /\ files' = "after" /\ UNCHANGED lock
  /\ Exit("nil") /\ Same

\* `rebase --continue` records what was staged.  A patch that became empty is
\* dropped, or stops the rebase and says so, as the version of git has it.
GitContinue ==
  /\ pc = "continue"
  /\ \/ cancelled /\ Exit("raw") /\ UNCHANGED <<picked, next>>
     \/ ~cancelled /\ (edited \/ lock) /\ Exit("stop") /\ UNCHANGED <<picked, next>>
     \/ /\ ~cancelled /\ ~edited /\ ~lock
        /\ \/ next \notin dropped /\ picked' = Append(picked, next) /\ next' = next + 1 /\ Goto("git")
           \/ next \in dropped /\ next' = next + 1 /\ UNCHANGED picked /\ Goto("git")
           \/ next \in dropped /\ UNCHANGED <<picked, next>> /\ Exit("empty")
  /\ UNCHANGED <<ref, rebasing, unmerged, files, edited, lock>> /\ Same

\* `rebase --skip` throws away the commit that stopped and what is in the files
GitSkip ==
  /\ pc = "skip"
  /\ \/ (cancelled \/ lock) /\ Goto("abort") /\ NoGit
     \/ /\ ~cancelled /\ ~lock
        /\ next' = next + 1 /\ unmerged' = {} /\ edited' = FALSE
        /\ Goto("git")
        /\ UNCHANGED <<ref, picked, rebasing, files, lock>>
  /\ skipped' = TRUE /\ UNCHANGED <<case, disturbed>>

-----------------------------------------------------------------------------
(* Rebase.                                                                 *)

\* slip: the bound is tested before the error
LoopBoundFirst ==
  /\ pc = "loop"
  /\ \/ steps = MaxSteps /\ Goto("abort")
     \/ err = "nil" /\ steps < MaxSteps /\ Return("nil")
     \/ err # "nil" /\ steps < MaxSteps /\ (cancelled \/ ~rebasing) /\ Return("raw")
     \/ /\ err # "nil" /\ steps < MaxSteps /\ ~cancelled /\ rebasing
        /\ steps' = steps + 1 /\ pc' = "status"
        /\ UNCHANGED <<err, left, cancelled, outcome>>
  /\ NoGit /\ Same

\* slip: no bound
LoopUnbounded ==
  /\ pc = "loop"
  /\ \/ err = "nil" /\ Return("nil")
     \/ err # "nil" /\ (cancelled \/ ~rebasing) /\ Return("raw")
     \/ /\ err # "nil" /\ ~cancelled /\ rebasing
        /\ steps' = steps + 1 /\ pc' = "status"
        /\ UNCHANGED <<err, left, cancelled, outcome>>
  /\ NoGit /\ Same

\* the loop's condition, then InProgress, whose own git fails when cancelled
Loop ==
  /\ pc = "loop"
  /\ \/ err = "nil" /\ Return("nil")
     \/ err # "nil" /\ steps = MaxSteps /\ Goto("abort")
     \/ err # "nil" /\ steps < MaxSteps /\ (cancelled \/ ~rebasing) /\ Return("raw")
     \/ /\ err # "nil" /\ steps < MaxSteps /\ ~cancelled /\ rebasing
        /\ steps' = steps + 1 /\ pc' = "status"
        /\ UNCHANGED <<err, left, cancelled, outcome>>
  /\ NoGit /\ Same

\* slip: whatever leaves no path unmerged is skipped
StatusSkipsAll ==
  /\ pc = "status"
  /\ \/ cancelled /\ Goto("abort")
     \/ ~cancelled /\ unmerged = {} /\ Goto("skip")
     \/ /\ ~cancelled /\ unmerged # {}
        /\ left' = unmerged /\ pc' = "resolve"
        /\ UNCHANGED <<steps, err, cancelled, outcome>>
  /\ NoGit /\ Same

Status ==
  /\ pc = "status"
  /\ \/ cancelled /\ Goto("abort")
     \/ ~cancelled /\ unmerged = {} /\ Goto(IF err = "empty" THEN "skip" ELSE "abort")
     \/ /\ ~cancelled /\ unmerged # {}
        /\ left' = unmerged /\ pc' = "resolve"
        /\ UNCHANGED <<steps, err, cancelled, outcome>>
  /\ NoGit /\ Same

\* slip: resolved as soon as one path is
ResolveOne ==
  /\ pc = "resolve"
  /\ \/ ~enabled /\ Goto("abort")
     \/ enabled /\ left # {} /\ \E p \in left :
          IF clash[next][p] = "real" THEN Goto("abort") ELSE Goto("stage")
  /\ NoGit /\ Same

\* resolveTimestamps takes the paths in turn and gives up on the first that
\* is no note or conflicts in more than timestamps, or that was saved over
Resolve ==
  /\ pc = "resolve"
  /\ \/ ~enabled /\ Goto("abort")
     \/ enabled /\ left = {} /\ Goto("stage")
     \/ /\ enabled
        /\ \E p \in left :
             \/ (clash[next][p] = "real" \/ edited) /\ Goto("abort")
             \/ /\ clash[next][p] = "stamps"
                /\ left' = left \ {p}
                /\ UNCHANGED <<pc, steps, err, cancelled, outcome>>
  /\ NoGit /\ Same

\* AddPaths, all of them at once
Stage ==
  /\ pc = "stage"
  /\ \/ (cancelled \/ lock) /\ Goto("abort") /\ UNCHANGED unmerged
     \/ ~cancelled /\ ~lock /\ unmerged' = {} /\ Goto("continue")
  /\ UNCHANGED <<ref, picked, next, rebasing, files, edited, lock>> /\ Same

\* slip: the abort is tried until it works
AbortUntilDone ==
  /\ pc = "abort" /\ ~lock /\ rebasing
  /\ Return("conflict")
  /\ rebasing' = FALSE /\ picked' = <<>> /\ next' = 0 /\ unmerged' = {}
  /\ files' = "before"
  /\ UNCHANGED <<ref, edited, lock>> /\ Same

\* abortRebase, on a context that is not cancelled
Abort ==
  /\ pc = "abort"
  /\ Return("conflict")
  /\ \/ (lock \/ ~rebasing) /\ NoGit
     \/ /\ ~lock /\ rebasing
        /\ rebasing' = FALSE /\ picked' = <<>> /\ next' = 0 /\ unmerged' = {}
        /\ files' = "before"
        /\ UNCHANGED <<ref, edited, lock>>
  /\ Same

-----------------------------------------------------------------------------
(* The environment.                                                        *)

\* git is killed when its context ends: wherever it was, even done
Killed ==
  /\ pc = "git"
  /\ lock' \in {lock, TRUE}
  /\ \/ Complete /\ files' = "between"
     \/ UNCHANGED <<ref, picked, next, rebasing, unmerged, files, edited>>
  /\ Exit("raw")

KilledByCancel == cancelled /\ Killed /\ Same

\* a command runs into run's timeout; one that cannot look or stage leads to
\* the abort, except InProgress
Timeout ==
  /\ "timeout" \in Hazards /\ ~cancelled
  /\ \/ Killed
     \/ pc = "loop" /\ err # "nil" /\ steps < MaxSteps /\ Return("raw") /\ NoGit
     \/ pc \in {"status", "stage"} /\ Goto("abort") /\ NoGit
     \/ pc = "abort" /\ Return("conflict") /\ NoGit
  /\ disturbed' = TRUE /\ UNCHANGED <<case, skipped>>

Signal ==
  /\ "signal" \in Hazards /\ pc # "returned" /\ ~cancelled
  /\ cancelled' = TRUE /\ disturbed' = TRUE
  /\ UNCHANGED <<case, git, pc, steps, err, left, outcome, skipped>>

\* another git in the same repository takes the lock, or releases it
OtherGit ==
  /\ "lock" \in Hazards /\ pc # "returned"
  /\ lock' = ~lock /\ disturbed' = TRUE
  /\ UNCHANGED <<case, ref, picked, next, rebasing, unmerged, files, edited, code, skipped>>

Save ==
  /\ "save" \in Hazards /\ rebasing /\ pc # "returned" /\ ~edited
  /\ edited' = TRUE
  /\ UNCHANGED <<case, ref, picked, next, rebasing, unmerged, files, lock, code, skipped, disturbed>>

-----------------------------------------------------------------------------
Run == \/ GitRefuse \/ GitBegin \/ GitPick \/ GitStop \/ GitFinish \/ GitContinue \/ GitSkip
       \/ Loop \/ Status \/ Resolve \/ Stage \/ Abort
       \/ KilledByCancel

Next == Run \/ Timeout \/ Signal \/ OtherGit \/ Save

Spec == Init /\ [][Next]_vars

\* the call keeps running: git ends, at the latest by its timeout
FairSpec == Spec /\ WF_vars(Run)

-----------------------------------------------------------------------------
PCs == {"start", "git", "loop", "status", "resolve", "stage", "continue", "skip", "abort", "returned"}

\* Every variable keeps to its values, a call that has returned has an
\* outcome, and steps never passes maxRebaseSteps (repo.go Rebase).
TypeOK ==
  /\ ref \in Seq(1..Commits) /\ picked \in Seq(1..Commits) /\ next \in 0..(Commits + 1)
  /\ rebasing \in BOOLEAN /\ unmerged \subseteq Paths /\ left \subseteq Paths
  /\ files \in {"before", "between", "after"} /\ edited \in BOOLEAN /\ lock \in BOOLEAN
  /\ pc \in PCs /\ steps \in 0..MaxSteps
  /\ err \in {"nil", "stop", "empty", "raw"} /\ cancelled \in BOOLEAN
  /\ outcome \in {"pending", "nil", "conflict", "raw"}
  /\ pc = "returned" <=> outcome # "pending"

\* The branch and the files as the caller sees them: while the call runs, a
\* rebase in progress counts as nothing done.
Completed == ~rebasing /\ files # "before"
Result == CASE outcome # "pending" -> outcome
            [] outcome = "pending" /\ ~Completed -> "pending"
            [] outcome = "pending" /\ Completed ->
                 IF err = "nil" THEN "nil"
                 ELSE IF pc = "abort" \/ steps = MaxSteps THEN "conflict" ELSE "raw"

Atomic == INSTANCE AtomicRebase WITH
  branch <- ref, result <- Result,
  files <- IF Result = "pending" THEN "before" ELSE files

\* Whatever stops, fails or is killed, Rebase replays all the local commits
\* but empty ones, or none; only a disturbed call leaves the files between
\* (repo.go Rebase, abortRebase, isEmptyPatch).
ImplementsAtomic == Atomic!ASpec

\* No commit with a conflict beyond timestamps is ever replayed, nor any
\* conflict at all when resolving is off (conflict.go resolveTimestamps).
RealConflictsAreLeft ==
  outcome = "nil" => \A c \in 1..Len(local) : ~Real(c) /\ (Conflicts(c) # {} => enabled)

\* what else than timestamps can be in the way of a rebase
Obstructed ==
  \/ ~enabled \/ disturbed \/ edited
  \/ \E c \in 1..Len(local) : Real(c)
  \/ Cardinality({c \in 1..Len(local) : Conflicts(c) # {}}) + Cardinality(dropped) > MaxSteps

\* Timestamp conflicts alone do not make Rebase give up, as long as the stops,
\* those for an empty patch included, fit the bound (repo.go maxRebaseSteps)
\* and no stop follows a `--skip`.
GivesUpForAReason == outcome = "conflict" => Obstructed \/ skipped

\* The call returns, whatever git does (repo.go Rebase, git.go run).
Returns == <>(outcome # "pending")

\* "A SIGTERM arriving mid-rebase must not be what leaves the user's worktree
\* half-rebased" (repo.go abortRebase).  It does not hold: a SIGTERM while git
\* runs also fails InProgress, and Rebase returns without the abort.
NeverLeftMidRebase == outcome # "pending" => ~rebasing
=============================================================================
