------------------------------ MODULE SyncCycle ------------------------------
(***************************************************************************)
(* One note vault: the daemon's sync cycle (Syncer.Sync: stamp, commit,    *)
(* fetch, rebase, push), the user who edits and runs git in the same       *)
(* worktree, and another machine that pushes to the same remote branch.    *)
(*                                                                         *)
(* The cycle is a sequence of git subprocesses.  Each subprocess is one    *)
(* atomic step (git serialises on its own lock files), except the rebase,  *)
(* which holds the worktree for several steps; anybody may act between two *)
(* steps.  The loop inside gitx.Rebase has a module of its own.            *)
(*                                                                         *)
(* Data.  A save is an element of Edits and belongs to one note.  A file   *)
(* tree is the set of the saves it contains, a commit is the set of saves  *)
(* it adds, a branch is the sequence of its commits above a common root.   *)
(* A save is never taken back: deleting text or a note is a save too.      *)
(***************************************************************************)
EXTENDS Naturals, FiniteSets, SequencesExt

CONSTANTS
  Notes,        \* the paths of the worktree
  ScratchPaths, \* those of them with the prefix of writeAtomic's temp files
  Mine,         \* the saves made in this worktree
  Foreign,      \* the saves the other machine publishes, perhaps some of Mine
  NoteOf,       \* the note a save belongs to
  Configs,      \* the configurations a daemon may be started with
  Hazards,      \* which disturbances the environment may cause
  MaxHazards    \* how many of them in one behaviour (a bound of the model)

Edits == Mine \cup Foreign

Upstreams == {"none", "unresolved", "missing", "present"}

ConfigSet ==
  [pull : BOOLEAN, push : BOOLEAN, dryRun : BOOLEAN, stamp : BOOLEAN,
   author : BOOLEAN, message : BOOLEAN, upstream : Upstreams]

\* what the other machine publishes has passed a filter like ours
ASSUME SyncAssumption ==
  /\ ScratchPaths \subseteq Notes
  /\ NoteOf \in [Edits -> Notes] /\ \A e \in Foreign : NoteOf[e] \notin ScratchPaths
  /\ Configs \subseteq ConfigSet
  /\ Hazards \subseteq {"race", "kill", "crash", "network", "refuse"}
  /\ MaxHazards \in Nat

VARIABLES
  cfg,       \* syncer.Config, and whether the branch has an upstream
  \* the repository
  wt,        \* the worktree, a tree
  index,     \* the index, a tree
  marked,    \* notes whose worktree file holds conflict markers
  staged,    \* notes whose staged copy holds conflict markers
  unmerged,  \* notes the index lists as unmerged
  stash,     \* what `rebase --autostash` has put aside
  op,        \* the multi-step operation the .git directory shows
  lock,      \* a stale .git/index.lock
  tip,       \* the commits of the branch, and of a detached HEAD
  head,      \* which of the two HEAD is
  tracking,  \* the remote-tracking branch
  \* the other side
  remote,    \* the branch on the remote
  \* the daemon
  pc,        \* the next step of the cycle, "idle" between cycles
  paths,     \* the paths the cycle's first status listed
  retry,     \* the cycle is in the pull of a rejected push
  res,       \* syncer.Result
  err,       \* the class of the error the last cycle returned
  term,      \* SIGTERM has been received
  \* history
  saved,     \* every save made here so far
  safe,      \* the saves nobody but the daemon could have lost
  raced,     \* somebody used git on the worktree since the cycle began
  hazards    \* disturbances so far

tree    == <<wt, index, marked, staged, unmerged, stash, op, lock>>
refs    == <<tip, head, tracking>>
daemon  == <<pc, paths, retry, res, err, term>>
history == <<saved, safe, raced, hazards>>
vars    == <<cfg, tree, refs, remote, daemon, history>>

-----------------------------------------------------------------------------
(* Trees, branches and what `git status` says of them.                     *)

TreeOf(commits) == UNION Range(commits)
HeadTree == TreeOf(tip[head])
BranchTree == TreeOf(tip["branch"])
On(t, ns) == {e \in t : NoteOf[e] \in ns}
NotesOf(t) == {NoteOf[e] : e \in t}

\* Status.Changed: the paths that differ between HEAD, index and worktree
Changed == NotesOf((wt \ HeadTree) \cup (HeadTree \ wt)
                   \cup (index \ HeadTree) \cup (HeadTree \ index)) \ unmerged

\* how many commits two branches share
Shared(s, t) == Cardinality({n \in 1..Len(s) : n <= Len(t) /\ \A i \in 1..n : s[i] = t[i]})

\* git reports ahead and behind only when the upstream's ref exists, and the
\* parser leaves both at zero otherwise
Counted == head = "branch" /\ cfg.upstream = "present"
Ahead == IF Counted THEN Len(tip[head]) - Shared(tip[head], tracking) ELSE 0
Behind == IF Counted THEN Len(tracking) - Shared(tip[head], tracking) ELSE 0

Unshared(s, t) == SubSeq(s, Shared(s, t) + 1, Len(s))

\* the commits that have more than the saves of t
Sift(kept, commit, t) == IF commit \subseteq t THEN kept ELSE Append(kept, commit)
Beyond(s, t) ==
  LET kept[n \in 0..Len(s)] == IF n = 0 THEN <<>> ELSE Sift(kept[n - 1], s[n], t)
  IN kept[Len(s)]

\* slip: every commit that stops the rebase is skipped
SkipStops(s, onto, emptied) ==
  onto \o Beyond(Unshared(s, onto), {e \in Edits : NoteOf[e] \in {NoteOf[x] : x \in TreeOf(onto)}})

\* the local commits replayed onto another branch.  Those whose patch is empty
\* there are dropped; "emptied" has the saves the upstream has as well, stamps
\* included.
Replayed(s, onto, emptied) == onto \o Beyond(Unshared(s, onto), emptied)

NoResult == [committed |-> {}, fetched |-> FALSE, rebased |-> FALSE, pushed |-> FALSE]

Hazard(kind) == /\ kind \in Hazards
                /\ hazards < MaxHazards
                /\ hazards' = hazards + 1

Init ==
  /\ cfg \in Configs
  /\ wt = {} /\ index = {} /\ stash = {}
  /\ marked = {} /\ staged = {} /\ unmerged = {}
  /\ op = "none" /\ lock = FALSE
  /\ tip = [h \in {"branch", "detached"} |-> <<>>] /\ head = "branch"
  /\ tracking = <<>> /\ remote = <<>>
  /\ pc = "idle" /\ paths = {} /\ retry = FALSE
  /\ res = NoResult /\ err = "none" /\ term = FALSE
  /\ saved = {} /\ safe = {} /\ raced = FALSE /\ hazards = 0

-----------------------------------------------------------------------------
(* The cycle.  At(p) is the guard of step p: a process that has received   *)
(* SIGTERM starts no further git command, Interrupted takes its place.     *)

At(p) == pc = p /\ ~term

Goto(p) == pc' = p /\ UNCHANGED <<paths, retry, res, err, term>>

Return(class) == /\ pc' = "idle" /\ paths' = {} /\ retry' = FALSE /\ err' = class
                 /\ UNCHANGED <<res, term>>

Quiet == UNCHANGED <<cfg, history>>
Untouched == UNCHANGED <<tree, refs, remote>>

BeginSync ==
  /\ At("idle")
  /\ pc' = "inprogress" /\ res' = NoResult /\ raced' = FALSE
  /\ UNCHANGED <<cfg, tree, refs, remote, paths, retry, err, term, saved, safe, hazards>>

\* slip: the operation's name is returned without the ErrBusy wrapping
NameInProgress ==
  /\ At("inprogress")
  /\ IF op # "none" THEN Return(op) ELSE Goto("status")
  /\ Quiet /\ Untouched

\* slip: a leftover operation is cleared away for the next cycle
ClearInProgress ==
  /\ At("inprogress")
  /\ IF op # "none" THEN Return("busy") ELSE Goto("status")
  /\ op' = "none"
  /\ Quiet /\ UNCHANGED <<wt, index, marked, staged, unmerged, stash, lock, refs, remote>>

\* slip: no InProgress check
SkipInProgress ==
  /\ At("inprogress")
  /\ Goto("status")
  /\ Quiet /\ Untouched

\* InProgress: the state files of a rebase, merge, cherry-pick, revert, bisect
CheckInProgress ==
  /\ At("inprogress")
  /\ IF op # "none" THEN Return("busy") ELSE Goto("status")
  /\ Quiet /\ Untouched

CheckStatus ==
  /\ At("status")
  /\ \/ unmerged # {} /\ Return("busy")
     \/ unmerged = {} /\ head = "detached" /\ Return("detached")
     \/ /\ unmerged = {} /\ head = "branch"
        /\ paths' = Changed
        /\ pc' = IF cfg.stamp THEN "stamp" ELSE "commit"
        /\ UNCHANGED <<retry, res, err, term>>
  /\ Quiet /\ Untouched

\* stampFiles adds no save of the user's: it rewrites notes that are dirty
\* already, and its errors are logged and dropped
StampFiles ==
  /\ pc = "stamp"
  /\ Goto("commit")
  /\ Quiet /\ Untouched

\* commit up to AddPaths: drop our scratch, then dry run, then the author;
\* HasAuthor takes any failure of git, its timeout too, for a missing author
PickPaths ==
  /\ pc = "commit"
  /\ LET picked == paths \ ScratchPaths IN
     \/ picked = {} /\ Goto("upstream") /\ UNCHANGED hazards
     \/ /\ picked # {} /\ cfg.dryRun
        /\ res' = [res EXCEPT !.committed = picked] /\ pc' = "upstream"
        /\ UNCHANGED <<paths, retry, err, term, hazards>>
     \/ /\ picked # {} /\ ~cfg.dryRun /\ cfg.author /\ ~term
        /\ Goto("add") /\ UNCHANGED hazards
     \/ /\ picked # {} /\ ~cfg.dryRun /\ Return("config")
        /\ \/ (~cfg.author \/ term) /\ UNCHANGED hazards
           \/ Hazard("kill")
  /\ Untouched /\ UNCHANGED <<cfg, saved, safe, raced>>

\* slip: scratch files are not filtered out
AddEverything ==
  /\ At("add") /\ ~lock
  /\ index' = On(wt, paths) \cup On(index, Notes \ paths)
  /\ staged' = (marked \cap paths) \cup (staged \ paths)
  /\ unmerged' = unmerged \ paths
  /\ Goto("recheck")
  /\ UNCHANGED <<wt, marked, stash, op, lock, refs, remote>>
  /\ Quiet

\* `git add` takes a file as it is, markers included, and thereby declares
\* an unmerged path resolved
AddPaths ==
  /\ At("add")
  /\ LET picked == paths \ ScratchPaths IN
     \/ /\ lock /\ Return("unknown") /\ Untouched
     \/ /\ ~lock
        /\ index' = On(wt, picked) \cup On(index, Notes \ picked)
        /\ staged' = (marked \cap picked) \cup (staged \ picked)
        /\ unmerged' = unmerged \ picked
        /\ Goto("recheck")
        /\ UNCHANGED <<wt, marked, stash, op, lock, refs, remote>>
  /\ Quiet

NothingStaged == index = HeadTree /\ staged = {}

\* the second status of commit: nothing staged, nothing to commit
Recheck ==
  /\ At("recheck")
  /\ IF NothingStaged THEN Goto("upstream")
     ELSE IF cfg.message THEN Goto("gitcommit") ELSE Return("config")
  /\ Quiet /\ Untouched

\* `git commit` takes the whole index, refuses while a path is unmerged or
\* when there is nothing to record, and concludes a merge in progress
GitCommit ==
  /\ At("gitcommit")
  /\ \/ /\ lock \/ unmerged # {} \/ NothingStaged
        /\ Return("unknown") /\ Untouched
     \/ /\ ~lock /\ unmerged = {} /\ ~NothingStaged
        /\ tip' = [tip EXCEPT ![head] = Append(@, index \ HeadTree)]
        /\ op' = "none" /\ staged' = {} /\ marked' = marked \ staged
        /\ res' = [res EXCEPT !.committed = paths \ ScratchPaths]
        /\ pc' = "upstream"
        /\ UNCHANGED <<wt, index, unmerged, stash, lock,
                       head, tracking, remote, paths, retry, err, term>>
  /\ Quiet

\* slip: the retry catches up and forgets to push
ForgetPush == IF retry THEN "done" ELSE IF cfg.push THEN "pushstatus" ELSE "done"

AfterPull == IF retry THEN "pushagain" ELSE IF cfg.push THEN "pushstatus" ELSE "done"

\* slip: a cycle that committed nothing stays off the network
OnlyAfterCommit ==
  /\ pc = "upstream"
  /\ \/ (cfg.upstream = "none" \/ res.committed = {}) /\ Return("none")
     \/ /\ cfg.upstream \in {"missing", "present"} /\ ~term /\ res.committed # {}
        /\ Goto(IF cfg.pull THEN "pull" ELSE AfterPull)
  /\ Quiet /\ Untouched

\* HasUpstream, Remotes and SplitUpstream, then the network halves
FindUpstream ==
  /\ pc = "upstream"
  /\ \/ cfg.upstream = "none" /\ Return("none")
     \/ cfg.upstream = "unresolved" /\ ~term /\ Return("none")
     \/ /\ cfg.upstream \in {"missing", "present"} /\ ~term
        /\ Goto(IF cfg.pull THEN "pull" ELSE AfterPull)
  /\ Quiet /\ Untouched

\* slip: a dry run fetches
FetchAlways ==
  /\ At("pull")
  /\ tracking' = remote
  /\ res' = [res EXCEPT !.fetched = TRUE]
  /\ pc' = "behind"
  /\ UNCHANGED <<paths, retry, err, term, tip, head, remote, tree>> /\ Quiet

Fetch ==
  /\ pc = "pull"
  /\ \/ cfg.dryRun /\ Goto(AfterPull) /\ UNCHANGED tracking
     \/ /\ ~cfg.dryRun /\ ~term
        /\ tracking' = remote
        /\ res' = [res EXCEPT !.fetched = TRUE]
        /\ pc' = "behind"
        /\ UNCHANGED <<paths, retry, err, term>>
  /\ UNCHANGED <<tip, head, remote, tree>> /\ Quiet

\* slip: with no commit of its own to replay the pull has nothing to do
OnlyIfAhead ==
  /\ At("behind")
  /\ Goto(IF Behind = 0 \/ Ahead = 0 THEN AfterPull ELSE "rebase")
  /\ Quiet /\ Untouched

CheckBehind ==
  /\ At("behind")
  /\ Goto(IF Behind = 0 THEN AfterPull ELSE "rebase")
  /\ Quiet /\ Untouched

\* git refuses a rebase over somebody else's operation, unmerged paths or a
\* lock, and the error is returned as it is; but Rebase tells by InProgress
\* alone whether its own rebase has started, and takes the user's for it
RebaseRefused ==
  /\ At("rebase")
  /\ Untouched /\ UNCHANGED <<cfg, saved, safe, raced>>
  /\ \/ op = "rebase" /\ Goto("rebasing") /\ UNCHANGED hazards
     \/ op = "merge" /\ Return("unknown") /\ UNCHANGED hazards
     \/ op = "none" /\ (unmerged # {} \/ lock) /\ Return("unknown") /\ UNCHANGED hazards
     \/ op = "none" /\ Return("unknown") /\ Hazard("refuse")

\* the rebase holds the worktree: local changes go to the autostash and the
\* files become those of the upstream
RebaseStart ==
  /\ At("rebase")
  /\ op = "none" /\ unmerged = {} /\ ~lock
  /\ stash' = (wt \cup index) \ HeadTree
  /\ wt' = TreeOf(tracking) /\ index' = TreeOf(tracking)
  /\ marked' = {} /\ staged' = {}
  /\ op' = "rebase"
  /\ Goto("rebasing")
  /\ UNCHANGED <<unmerged, lock, refs, remote>> /\ Quiet

\* notes both sides have changed: git may or may not find the hunks apart
Clashing(t) == NotesOf(t) \cap NotesOf(TreeOf(Unshared(tracking, tip[head])))
LocalTree == TreeOf(Unshared(tip[head], tracking))
Meanwhile == wt \ TreeOf(tracking)   \* saved since the rebase took the files

\* the commits are replayed (a conflict in timestamps only is resolved on the
\* way) and the autostash applied again.  Git exits with success even when
\* the stash conflicts: the notes it clashes on are then left unmerged.
RebaseDone ==
  /\ At("rebasing")
  /\ \E emptied \in SUBSET TreeOf(tracking) :
       tip' = [tip EXCEPT ![head] = Replayed(@, tracking, emptied)]
  /\ index' = TreeOf(tip'[head])
  /\ wt' = index' \cup stash \cup Meanwhile
  /\ \E clash \in SUBSET Clashing(stash) : unmerged' = clash /\ marked' = clash
  /\ stash' = {} /\ op' = "none"
  /\ res' = [res EXCEPT !.rebased = TRUE]
  /\ pc' = AfterPull
  /\ UNCHANGED <<staged, lock, head, tracking, remote, paths, retry, err, term>> /\ Quiet

\* a conflict nobody but the user can resolve, or files changed under the
\* rebase
RebaseStop ==
  /\ At("rebasing")
  /\ Clashing(LocalTree) # {} \/ Meanwhile # {}
  /\ unmerged' = Clashing(LocalTree) /\ marked' = Clashing(LocalTree)
  /\ Goto("stopped")
  /\ UNCHANGED <<wt, index, staged, stash, op, lock, refs, remote>> /\ Quiet

\* Rebase asks InProgress whether the rebase is still there, and decides to
\* abort.  Cancelled or timed out, the question itself fails and Rebase just
\* returns.
Stopped ==
  /\ pc = "stopped"
  /\ \/ Goto("abort") /\ UNCHANGED hazards
     \/ /\ Return("unknown")
        /\ \/ term /\ UNCHANGED hazards
           \/ Hazard("kill")
  /\ Untouched /\ UNCHANGED <<cfg, saved, safe, raced>>

\* slip: a hard reset instead of `rebase --abort` leaves the autostash unapplied
HardReset ==
  /\ pc = "abort" /\ ~lock
  /\ Return("conflict")
  /\ wt' = HeadTree /\ index' = HeadTree /\ stash' = {}
  /\ marked' = {} /\ staged' = {} /\ unmerged' = {}
  /\ op' = "none"
  /\ UNCHANGED <<lock, refs, remote>> /\ Quiet

\* the files are reset to HEAD and the autostash is applied: of what was
\* saved meanwhile, files git does not track survive.  An abort that runs into
\* a lock or its timeout is no other error.
AbortRebase ==
  /\ pc = "abort"
  /\ Return("conflict")
  /\ \/ lock /\ Untouched /\ UNCHANGED hazards
     \/ /\ Hazard("kill") /\ lock' \in {lock, TRUE}
        /\ UNCHANGED <<wt, index, marked, staged, unmerged, stash, op, refs, remote>>
     \/ /\ ~lock
        /\ \E kept \in SUBSET Meanwhile : wt' = HeadTree \cup stash \cup kept
        /\ index' = HeadTree /\ stash' = {}
        /\ marked' = {} /\ staged' = {} /\ unmerged' = {}
        /\ op' = "none"
        /\ UNCHANGED <<lock, refs, remote, hazards>>
  /\ UNCHANGED <<cfg, saved, safe, raced>>

CheckAhead ==
  /\ At("pushstatus")
  /\ IF Ahead = 0 \/ cfg.dryRun THEN Return("none") ELSE Goto("push")
  /\ Quiet /\ Untouched

Accepted == IsPrefix(remote, tip[head])

PushAccepted ==
  /\ At("push") \/ At("pushagain")
  /\ Accepted
  /\ remote' = tip[head] /\ tracking' = tip[head]
  /\ res' = [res EXCEPT !.pushed = TRUE]
  /\ pc' = "done"
  /\ UNCHANGED <<tip, head, tree, paths, retry, err, term>> /\ Quiet

\* the first rejection pulls, whatever cfg.pull says, the second is final
PushRejected ==
  /\ \/ At("push") /\ pc' = "pull" /\ retry' = TRUE /\ UNCHANGED <<paths, res, err, term>>
     \/ At("pushagain") /\ Return("remote")
  /\ Untouched
  /\ UNCHANGED <<cfg, saved, safe, raced>>
  /\ \/ ~Accepted /\ UNCHANGED hazards
     \/ Hazard("refuse")

Finish ==
  /\ pc = "done"
  /\ Return("none")
  /\ Quiet /\ Untouched

-----------------------------------------------------------------------------
(* What can go wrong with a step.                                          *)

Locking == {"add", "gitcommit", "rebase", "rebasing"}
Pushing == {"push", "pushagain"}
GitSteps == Locking \cup Pushing
            \cup {"inprogress", "status", "recheck", "upstream", "pull", "behind", "pushstatus"}

\* what a git process that did not end well may have done before
MaybeLock == lock' \in IF pc \in Locking THEN {lock, TRUE} ELSE {lock}
MaybePushed == remote' \in {remote} \cup (IF pc \in Pushing /\ Accepted THEN {tip[head]} ELSE {})

\* the context of the command ends -- SIGTERM, or the timeout of this one
\* command -- and git is killed
Interrupted ==
  /\ pc \in GitSteps
  /\ pc = "upstream" => cfg.upstream # "none"
  /\ pc = "pull" => ~cfg.dryRun
  /\ \/ term /\ UNCHANGED hazards
     \/ ~term /\ Hazard("kill")
  /\ MaybeLock /\ MaybePushed
  /\ CASE pc \in Pushing \cup {"pull"} -> Return("remote")
       [] pc = "rebasing" /\ ~term -> Goto("stopped")
       [] OTHER -> Return("unknown")
  /\ UNCHANGED <<cfg, wt, index, marked, staged, unmerged, stash, op, refs, saved, safe, raced>>

\* no answer from the remote, or the answer to a push is lost
NetworkDown ==
  /\ At("pull") \/ At("push") \/ At("pushagain")
  /\ ~cfg.dryRun
  /\ Hazard("network")
  /\ MaybePushed
  /\ Return("remote")
  /\ UNCHANGED <<cfg, tree, refs, saved, safe, raced>>

\* git add takes no path at all when one of them, untracked, has vanished since
\* the status; git commit runs a hook that fails
GitRefuses ==
  /\ At("add") \/ At("gitcommit")
  /\ Hazard("refuse")
  /\ Return("unknown") /\ Untouched
  /\ UNCHANGED <<cfg, saved, safe, raced>>

Signal ==
  /\ ~term /\ Hazard("kill")
  /\ term' = TRUE
  /\ UNCHANGED <<cfg, tree, refs, remote, pc, paths, retry, res, err, saved, safe, raced>>

\* after SIGTERM the process ends with the cycle; the service manager starts
\* it again
Restart ==
  /\ pc = "idle" /\ term
  /\ term' = FALSE
  /\ UNCHANGED <<cfg, tree, refs, remote, pc, paths, retry, res, err, history>>

\* daemon and git disappear together.  Between CreateTemp and the rename of
\* writeAtomic that leaves the temp file in the vault.
Crash ==
  /\ pc # "idle" /\ Hazard("crash")
  /\ MaybeLock /\ MaybePushed
  /\ wt' \in IF pc = "stamp" /\ ~cfg.dryRun THEN {wt, wt \cup On(Mine, ScratchPaths)} ELSE {wt}
  /\ pc' = "idle" /\ paths' = {} /\ retry' = FALSE
  /\ res' = NoResult /\ err' = "crash" /\ term' = FALSE
  /\ UNCHANGED <<cfg, index, marked, staged, unmerged, stash, op, refs, saved, safe, raced>>

-----------------------------------------------------------------------------
(* The user, in the same worktree, and the other machine.                  *)

Rebasing == pc \in {"rebasing", "stopped", "abort"}

\* a save under a running rebase is at git's mercy (see Meanwhile)
Save(e) ==
  /\ e \in Mine \ saved /\ NoteOf[e] \notin ScratchPaths
  /\ wt' = wt \cup {e}
  /\ saved' = saved \cup {e}
  /\ safe' = IF op = "rebase" THEN safe ELSE safe \cup {e}
  /\ UNCHANGED <<cfg, index, marked, staged, unmerged, stash, op, lock, refs, remote,
                 daemon, raced, hazards>>

ByHand == /\ raced' = (raced \/ pc # "idle")
          /\ UNCHANGED <<cfg, remote, daemon, saved>>

UserCommit ==
  /\ Hazard("race")
  /\ op = "none" /\ unmerged = {} /\ ~lock
  /\ LET all == On(wt, Notes \ ScratchPaths) IN
     /\ all # HeadTree
     /\ index' = all
     /\ tip' = [tip EXCEPT ![head] = Append(@, all \ HeadTree)]
  /\ staged' = {}
  /\ ByHand /\ UNCHANGED <<wt, marked, unmerged, stash, op, lock, head, tracking, safe>>

\* a merge of some other branch that conflicts in one note
UserMerge(n) ==
  /\ Hazard("race")
  /\ op = "none" /\ unmerged = {} /\ ~lock /\ n \notin NotesOf(wt \ HeadTree) \cup ScratchPaths
  /\ op' = "merge" /\ unmerged' = {n} /\ marked' = marked \cup {n}
  /\ ByHand /\ UNCHANGED <<wt, index, staged, stash, lock, refs, safe>>

\* the user starts a rebase that stops on a conflict.  (Only between the
\* daemon's guards and its own rebase, and where there is one to resolve.)
UserStartRebase ==
  /\ Hazard("race")
  /\ pc = "rebase" /\ op = "none" /\ unmerged = {} /\ ~lock /\ Clashing(LocalTree) # {}
  /\ stash' = (wt \cup index) \ HeadTree
  /\ wt' = TreeOf(tracking) /\ index' = TreeOf(tracking)
  /\ unmerged' = Clashing(LocalTree) /\ marked' = Clashing(LocalTree) /\ staged' = {}
  /\ op' = "rebase"
  /\ ByHand /\ UNCHANGED <<lock, refs, safe>>

UserDetach ==
  /\ Hazard("race")
  /\ head = "branch" /\ op = "none" /\ unmerged = {} /\ ~lock
  /\ head' = "detached" /\ tip' = [tip EXCEPT !["detached"] = tip["branch"]]
  /\ ByHand /\ UNCHANGED <<tree, tracking, safe>>

\* back to the branch: commits made on the detached HEAD stay behind,
\* uncommitted changes come along
UserReattach ==
  /\ head = "detached" /\ op = "none" /\ unmerged = {} /\ ~lock
  /\ head' = "branch"
  /\ LET behind == HeadTree \ BranchTree IN
     /\ wt' = (wt \ behind) \cup BranchTree
     /\ index' = (index \ behind) \cup BranchTree
     /\ safe' = safe \ behind
  /\ tip' = [tip EXCEPT !["detached"] = <<>>]
  /\ ByHand /\ UNCHANGED <<marked, staged, unmerged, stash, op, lock, tracking, hazards>>

\* the user edits the markers away and stages the result, ...
UserResolve ==
  /\ op \in {"none", "merge"} /\ ~lock
  /\ unmerged # {} \/ marked # {}
  /\ unmerged' = {} /\ marked' = {} /\ staged' = {}
  /\ index' = HeadTree
  /\ ByHand /\ UNCHANGED <<wt, stash, op, lock, refs, safe, hazards>>

\* ... and ends the merge
UserConclude ==
  /\ op = "merge" /\ unmerged = {} /\ marked = {} /\ ~lock
  /\ op' = "none" /\ staged' = {}
  /\ ByHand /\ UNCHANGED <<wt, index, marked, unmerged, stash, lock, refs, safe, hazards>>

UserAbortRebase ==
  /\ op = "rebase" /\ ~Rebasing /\ ~lock
  /\ wt' = HeadTree \cup stash /\ index' = HeadTree /\ stash' = {}
  /\ op' = "none" /\ unmerged' = {} /\ marked' = {} /\ staged' = {}
  /\ ByHand /\ UNCHANGED <<lock, refs, safe, hazards>>

\* told to "resolve by hand", the user runs and finishes the rebase
UserRebase ==
  /\ err = "conflict"
  /\ op = "none" /\ unmerged = {} /\ ~lock /\ Behind > 0
  /\ \E emptied \in SUBSET TreeOf(tracking) :
       tip' = [tip EXCEPT ![head] = Replayed(@, tracking, emptied)]
  /\ index' = TreeOf(tip'[head])
  /\ wt' = wt \cup index'
  /\ staged' = {}
  /\ ByHand /\ UNCHANGED <<marked, unmerged, stash, op, lock, head, tracking, safe, hazards>>

UserUnlock ==
  /\ lock /\ lock' = FALSE
  /\ ByHand /\ UNCHANGED <<wt, index, marked, staged, unmerged, stash, op, refs, safe, hazards>>

OtherPush(e) ==
  /\ cfg.upstream = "present"
  /\ e \in Foreign \ TreeOf(remote)
  /\ remote' = Append(remote, {e})
  /\ UNCHANGED <<cfg, tree, refs, daemon, history>>

-----------------------------------------------------------------------------
Sync ==
  \/ BeginSync \/ CheckInProgress \/ CheckStatus \/ StampFiles
  \/ PickPaths \/ AddPaths \/ Recheck \/ GitCommit
  \/ FindUpstream \/ Fetch \/ CheckBehind
  \/ RebaseRefused \/ RebaseStart \/ RebaseDone \/ RebaseStop \/ Stopped \/ AbortRebase
  \/ CheckAhead \/ PushAccepted \/ PushRejected \/ Finish

Failure == Interrupted \/ NetworkDown \/ GitRefuses \/ Signal \/ Restart \/ Crash

Recovery == UserReattach \/ UserResolve \/ UserConclude \/ UserAbortRebase \/ UserRebase \/ UserUnlock

User == \/ \E e \in Mine : Save(e)
        \/ \E n \in Notes : UserMerge(n)
        \/ UserCommit \/ UserStartRebase \/ UserDetach \/ Recovery

Next == Sync \/ Failure \/ User \/ \E e \in Foreign : OtherPush(e)

Spec == Init /\ [][Next]_vars

(* The daemon keeps running its cycle: every command ends (run gives each  *)
(* a timeout) and the poll ticker starts a cycle when nothing else does.   *)
(* A restarted unit comes up again, and a user who is told "resolve by     *)
(* hand" does so in the end.                                               *)
Fairness == /\ WF_vars(Sync) /\ WF_vars(Interrupted /\ term) /\ WF_vars(Restart)
            /\ WF_vars(UserReattach) /\ WF_vars(UserResolve) /\ WF_vars(UserConclude)
            /\ WF_vars(UserAbortRebase) /\ WF_vars(UserUnlock)
            /\ SF_vars(UserRebase)

FairSpec == Spec /\ Fairness

-----------------------------------------------------------------------------
PCs == GitSteps \cup {"idle", "stamp", "commit", "stopped", "abort", "done"}
Errors == {"none", "busy", "detached", "config", "conflict", "remote", "unknown", "crash"}

TreeType ==
  /\ wt \subseteq Edits /\ index \subseteq Edits /\ stash \subseteq Edits
  /\ marked \subseteq Notes /\ staged \subseteq Notes /\ unmerged \subseteq Notes
  /\ op \in {"none", "rebase", "merge"} /\ lock \in BOOLEAN
RefsType ==
  /\ tip \in [{"branch", "detached"} -> Seq(SUBSET Edits)]
  /\ head \in {"branch", "detached"}
  /\ tracking \in Seq(SUBSET Edits) /\ remote \in Seq(SUBSET Edits)
DaemonType ==
  /\ cfg \in Configs
  /\ pc \in PCs /\ paths \subseteq Notes /\ retry \in BOOLEAN
  /\ res \in [committed : SUBSET Notes, fetched : BOOLEAN, rebased : BOOLEAN, pushed : BOOLEAN]
  /\ err \in Errors /\ term \in BOOLEAN
HistoryType ==
  /\ saved \subseteq Mine /\ safe \subseteq saved
  /\ raced \in BOOLEAN /\ hazards \in 0..MaxHazards

\* Every variable keeps to the values the code gives it (the types of Config,
\* Status and Result, and the classes of kind.go).
TypeOK == TreeType /\ RefsType /\ DaemonType /\ HistoryType

\* Who owns the worktree, and where the saves are then.  Between rebases it
\* holds everything that HEAD and the index hold; a rebase in progress, or one
\* left behind by a kill, has put the rest into the autostash.
RebaseOwnsTree ==
  /\ op = "rebase" => Rebasing \/ pc \in {"idle", "inprogress", "rebase"}
  /\ Rebasing => op = "rebase"
TreeIsWhole ==
  op # "rebase" => /\ stash = {}
                   /\ HeadTree \cup index \subseteq wt
                   /\ safe \subseteq wt \cup BranchTree
StashIsWhole ==
  op = "rebase" => safe \subseteq stash \cup HeadTree \cup BranchTree

\* Whatever the user saved is still somewhere in the repository: in the
\* files, the index, a branch or the autostash, whichever commits a rebase
\* drops because their patch is empty upstream.  Saves under a running rebase
\* and commits the user left behind on a detached HEAD are not promised
\* (repo.go Rebase, abortRebase; syncer.go commit).
NothingLost == safe \subseteq wt \cup index \cup stash \cup BranchTree \cup HeadTree

\* A dry run changes neither files, index, branches nor the remote, along
\* every path of the cycle (Config.DryRun, syncer.go).
DryRunTouchesNothing ==
  [][cfg.dryRun /\ pc' # pc => UNCHANGED <<tree, refs, remote>>]_vars

\* The daemon commits conflict markers, concludes the user's merge or commits
\* on a detached HEAD only when the user began that after the checks at the
\* start of the cycle (syncer.go Sync, repo.go InProgress).
CommitsWhatItChecked ==
  [][pc = "gitcommit" /\ pc' = "upstream" =>
       raced \/ (head = "branch" /\ op = "none" /\ staged = {})]_vars

\* A cycle that returns no error, with push on and an upstream that exists,
\* leaves no commit of the branch unpublished (syncer.go Sync, push).
SuccessMeansPublished ==
  [][pc # "idle" /\ pc' = "idle" /\ err' = "none"
     /\ cfg.push /\ ~cfg.dryRun /\ cfg.upstream = "present" /\ ~raced
     => BranchTree \subseteq TreeOf(remote)]_vars

\* A branch whose upstream is configured is pushed "if ahead" (README), and an
\* upstream branch that does not exist yet lacks every commit.  It does not
\* hold: git prints no branch.ab line then, and parseStatus leaves Ahead zero.
PushesIfAhead ==
  [][pc # "idle" /\ pc' = "idle" /\ err' = "none"
     /\ cfg.push /\ ~cfg.dryRun /\ cfg.upstream \in {"missing", "present"} /\ ~raced
     => BranchTree \subseteq TreeOf(remote)]_vars

\* With --no-pull the daemon does not fetch (root.go).  It does not hold: the
\* retry of a rejected push pulls without looking at Config.Pull.
NoPullHolds == res.fetched => cfg.pull

\* writeAtomic's temp file, which a crash can leave among the notes, reaches
\* no commit (noise.go IsScratch, syncer.go commit).
ScratchStaysOut ==
  NotesOf(BranchTree \cup HeadTree \cup TreeOf(remote)) \cap ScratchPaths = {}

\* Once user and network are left alone, everything saved here is published:
\* after crashes, kills, rejected pushes and conflicts the user resolved
\* (syncer.go Sync, retried by the poll of watcher.go).
EventuallyPublished == <>[](safe \subseteq TreeOf(remote))

\* And what the other machine has published arrives here, through the same
\* failures, also when nothing is ever saved here (syncer.go pull).
EventuallyCaughtUp == <>[](TreeOf(remote) \subseteq BranchTree)
=============================================================================
