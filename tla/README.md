# A TLA+ model of gitnotesync

gitnotesync watches a git repository of notes, maintains `created:` and
`modified:` timestamps in their frontmatter, commits what changes, rebases onto
the upstream branch and pushes.  It does this in the same worktree the user is
editing, so nearly everything that can go wrong is an interleaving: of its git
commands with the user's, of its file writes with an editor's, of its pushes
with another machine's, and of all of these with signals, timeouts and crashes.
The modules here model those interleavings, and the text processing that decides
what two machines' timestamps become.  TLC checks them on small instances, and
TLAPS proves nearly all of the safety properties for every size.

## The system

| Part | Code (`src/`) | State | Operations | Hard because |
|---|---|---|---|---|
| Sync cycle | `internal/syncer/syncer.go` | none between cycles; reads and writes the repository | `Sync`, `commit`, `pull`, `push` | a guard is read once and used many commands later; each step may fail |
| Rebase loop | `internal/gitx/repo.go` | the step counter; git's own state on disk | `Rebase`, `abortRebase` | holds the worktree over many commands; must be all or nothing |
| Conflict resolver | `internal/syncer/conflict.go` | none | `resolveTimestamps` | decides per path, git continues per commit |
| git runner | `internal/gitx/git.go`, `status.go` | a timeout | `run`, `Status` | cancellation kills git in mid-air; status leaves out what it does not know |
| Stamping | `internal/syncer/stamp.go` | none | `stampFile`, `writeAtomic` | an editor writes the same file, without locks |
| Watcher | `internal/watcher/watcher.go` | event buffer, window, timer, watches | `Run`, `absorb`, `addTree`, `wakeChan` | events are bounded and lossy, inotify is not recursive |
| Ignore rules, noise | `internal/gitx/ignore.go`, `internal/noise` | none | `Unignored`, `UnignoredDirs`, `IsScratch` | the answer may change or fail |
| Frontmatter rewriting | `internal/frontmatter/frontmatter.go` | none | `Apply`, `findBlock`, `findKey` | a line scanner over YAML it does not parse |
| Conflict merge | `internal/frontmatter/conflict.go` | none | `ResolveConflict`, `splitConflict`, `reconcile` | a wrong answer is committed and pushed unseen |
| Daemon, reporting | `cmd/watch.go` | `lastErr`, `failingSince`, `lastStatus`, `ready` | the closure in `runWatch` | what is remembered has to survive failures and be dropped by successes |
| Journal, sd_notify | `cmd/journal*.go`, `cmd/notify*.go` | none | formatting, one datagram | pure output |
| Command line | `cmd/root.go`, `cmd/sync.go`, `main.go` | flags | `open`, `applyGitConfig`, signals | - |

How they interact: `main` cancels one context on SIGINT/SIGTERM; `watcher.Run`
calls `Syncer.Sync` on its own goroutine, so cycles never overlap; `Sync` calls
`stampFiles` and a sequence of git subprocesses through `Runner.run`; `Rebase`
calls back into `resolveTimestamps`.  Everything else that acts on the worktree
(the user, an editor, another git) is outside and acts at any time.  The rename
that ends a stamp is itself an event for the watcher.  After each cycle the
closure in `runWatch` turns the result into a status line and a journal entry.

## The modules

| Module | Models | Correspondence |
|---|---|---|
| `SyncCycle` | one vault: the cycle, the user, another machine, failures | one action per step of `Sync`/`commit`/`pull`/`push`; `pc` names the next one |
| `Daemon` | `runWatch` around the cycle | every step is a step of `SyncCycle` joined with what the closure makes of it (`Report`) |
| `AtomicRebase` | what `gitx.Rebase` promises | four actions: disturb, replay, refuse, give up |
| `Rebase` | `gitx.Rebase` with `resolveTimestamps` and git from the outside | `pc` follows the loop: command, `InProgress`, `Status`, resolve, stage, `--continue`/`--skip`, abort |
| `Stamp` | one note, an editor, `stampFile` + `writeAtomic` + `commit` | `pc` is the next file-system call or git command |
| `Watcher` | `watcher.Run` and the directories it watches | one action per branch of the select, one for each step of `addTree` |
| `Frontmatter` | `frontmatter.Apply` | operators named for the Go functions, on sequences of lines |
| `ConflictMerge` | `frontmatter.ResolveConflict` | `splitConflict` as a recursive function of one-line steps, `Reconcile`, `ResolveConflict` |
| `SharedNote` | one note on two machines that edit, stamp, rebase and push | a cycle's commit, pull and push are a step each; what git merges is computed |
| `SyncCycleProofs`, `DaemonProofs`, `RebaseProofs`, `StampProofs`, `WatcherProofs` | | theorems about the module of that name |
| `NoteProofs`, `LayoutProofs`, `SharedNoteProofs` | | theorems about the operators on notes: which lines they keep; in which order, with which times; and about `SharedNote` |
| `MC*` | small instances for TLC | constants only |

How they fit together:

- `Daemon` EXTENDS `SyncCycle` and implies its specification (`RunsSyncCycle`).
- `Rebase` implements `AtomicRebase` (`ImplementsAtomic`).  `SyncCycle` takes a
  whole rebase as start, then done or stopped, then aborted; which commits have
  become empty, and are dropped, is a free choice there.  `Rebase` opens that up;
  in `SharedNote` a rebase is one step, computed commit by commit.
- `Rebase` takes the resolver's verdict on a path as given (`clash` says whether a
  conflict is about timestamps only); `SharedNote` computes it from the text with
  `ConflictMerge`.
- `SyncCycle` takes stamping as a step that changes nothing, for it adds no save
  of the user's; `Stamp` opens it up in time, `Frontmatter` in content.
- `Stamp` and `Watcher` each see the other as "an event leads to a cycle, and so
  does the poll" and "a sync reads the worktree".

Definitions marked *slip* are plausible mistakes (a dropped guard, a missing
reset, a swapped order).  Nothing uses them; each shows, put in the place of the
definition it resembles, that some property would notice.

### The data

`SyncCycle`: a save is a model value and belongs to one note.  A tree (worktree,
index, commit, autostash) is the set of saves it contains; a branch is the
sequence of its commits above a common root, each the set of saves it adds.  That
is what the properties need: whether a save is still somewhere, whether a commit
is on a branch.  Conflict markers are kept apart (`marked` in files, `staged` in
the index) because committing them is one of the things the guards are there to
prevent.  A merge of changes to the same note may or may not conflict.  A save may
be one that the other machine makes too; a commit of such saves only has become
empty when it is replayed.

`Daemon`: an error's text is its class and the step that failed; of times it
counts whether they lie in the present run of failures.  `lastStatus` is the line
the closure remembers, `shown` the one the service manager has; a line is sent
only if it differs from the first, and it is taken to arrive.  `outcome`,
`logged` and `attended` are history.

`Stamp`: of a note, the save its text is from and whether it is stamped, plain or
`unfit` (binary, above the size limit, malformed: what `stampFile` leaves alone).

`Frontmatter`, `ConflictMerge`, `SharedNote`: a note is a sequence of lines; a
line has a kind (fence, key, text, or the kind of conflict marker it looks like),
a key, a value and the parity of its quotes.  A value is the time of the save
that wrote it, or empty, or no time.  `id` says which lines of two versions are
the same line to a reader, which is what a three-way merge goes by.

### What git is taken to do

Behaviour of git the code relies on, modelled from outside and marked external
where no line of the repository stands for it: `rebase --autostash` exits with
success although applying the stash conflicts, and leaves the notes unmerged;
`rebase --abort` resets tracked files, so what was saved to them meanwhile is
lost, and reapplies the autostash; `git add` stages a file with its markers and
clears the unmerged entry; `git commit` takes the whole index and refuses while a
path is unmerged; status prints `branch.ab` only when the upstream's ref exists;
a killed git can leave `index.lock`.  `Merge` in `SharedNote` is a line-based
three-way merge: changed lines that touch form a hunk, a hunk both sides have a
part in conflicts where they differ, and the markers are written around the
smallest run of differing lines, with the base between them if git is told to.

## The runs

| Run | Question | Result |
|---|---|---|
| `sync_safety` | Is anything lost, committed unchecked, published that should not be, or reported done when it is not? | holds |
| `sync_live` | Is everything published in the end, and received, and does the daemon say truly how it goes? | holds |
| `rebase` | Does `Rebase` implement all-or-nothing, resolve timestamps only, and return? | holds |
| `stamp` | Does stamping respect an editor's saves, stamp what was settled, and come to rest? | holds |
| `watcher` | Are changes and new directories noticed in time? | holds |
| `notes` | Do the stamps of two machines merge as promised, and the user's lines survive? | holds |
| `sync_nopull` | Does `--no-pull` keep the daemon from fetching? | **no**: the retry of a rejected push pulls |
| `sync_missing` | Is a branch pushed if it is ahead? | **no**, if its upstream ref does not exist: ahead reads 0, and the cycle reports success |
| `rebase_sigterm` | Does SIGTERM leave the worktree whole? | **no**: it kills git, `InProgress` then fails on the cancelled context, and `Rebase` returns without the abort |
| `stamp_loop` | Is "it cannot loop" true without a commit identity? | **no**: stamped, not committed, stamped again |
| `notes_quotes` | Is a `created` that is there always found? | **no**: a quotation mark in a plain value above hides it, and a second one is inserted |
| `notes_markers` | Does the resolver refuse what it cannot take apart? | **no**: a line of the note that looks like `>>>>>>>` ends a section early; a line is lost, git's marker is committed |

The properties of each are defined, with what they say of the code, at the end of
its module.  The ones that carry most:

- `NothingLost`: every save is in the files, the index, a branch or the
  autostash, also when a rebase drops commits that have become empty.  Two
  exceptions are built into `safe`, and named there: a save made while a rebase
  holds the worktree (git resets it), and a commit the user leaves behind on a
  detached HEAD.
- `CommitsWhatItChecked`: markers, somebody else's merge or a detached HEAD are
  committed only if the user began that after the guards (`raced`).  The window
  is real: the guards are evaluated once, and nothing the code does closes it.
- `SuccessMeansPublished`: a cycle that returns nil has published the branch, if
  the upstream exists; `sync_missing` shows what happens if it does not.
- `ScratchStaysOut`: the temp file a crash leaves behind reaches no commit.
- `StatusIsHonest`, `LoggedOnce`, `PersistsUntilAttended`, `RecoveryIsShown`: the
  status line that is shown, though a line is sent only if it differs from the
  one remembered, is right after every cycle; a failure is logged when it is
  news; what "persists until someone attends to it" is not ended by the daemon.
- `ImplementsAtomic`: `Rebase` as a refinement of `AtomicRebase`.  While a call
  runs, a rebase in progress counts as nothing done; a call that is disturbed (a
  killed git, another git's lock, a timeout) may leave the files in between but
  never the branch.
- `GivesUpForAReason`: timestamp conflicts alone do not stop a rebase, within
  the bound.  Two exceptions show in it: a stop for an emptied patch costs one of
  the steps, and a conflict right after a `--skip` is not offered to the resolver.
- `SavesSurvive`: a save is overwritten only if it began between the second stat
  and the rename.  `SettledIsStamped`: a note nobody wrote to since its last
  settled state is committed with its stamp, unless it is empty or unfit or a call
  of `stampFile` fails, which is logged, and the note committed as it is.  One that
  changes while it is stamped may be committed without, and is clean afterwards.
- `NewDirsAreWatched`, `ChangesAreScheduled`: what lets the daemon do without
  the poll, as long as no event is dropped.  Directories that were ignored when
  they were noticed, that could not be watched, or that are in one that could not
  be read, are `omitted` until they are removed or walked again;
  `EventuallySynced` needs the poll and no such condition.
- `NoEditLost`: after a rebase, every line one side changed is as that side left
  it.  `BlockedIsBehind`: a blocked machine is blocked by something it has not
  got, so what the remote had once never comes back.  `ModifiedIsOfLatestEdit`,
  `CreatedNeverLater`: what the timestamps of the merged note say.  A save that
  was committed without its stamp (still settling, changed meanwhile, an error) is
  in `modified` only with the next one that is stamped, so such edits are excepted
  by the time they were made.
  `BlocksOnlyOnRealConflicts`: timestamps alone stop nobody.
  Its exceptions are what the code does: a change to another line of the
  frontmatter can share a hunk with the timestamps, a note without frontmatter
  gets two different blocks, machines with different options do not agree on
  which keys may be merged, more commits are replayed than a rebase has steps, and
  a commit that only repeats what the remote has is skipped, which must not stop
  again.

### Bounds

`SyncCycle`: three notes, one of them a scratch file; two saves here and two by
the other machine, a pair on the same note and one save that both make, so that
conflicts, clean merges and emptied commits all occur; nine configurations (each
flag off in one, author and message along with pull or push, and each kind of
upstream); two disturbances
(`race`, `kill`, `crash`, `network`, `refuse`) per behaviour, which is enough for
a kill during the recovery from a kill, or a rejected push whose retry is cut
off.  The user starts a rebase only between the guards and the daemon's own,
where it matters.  An abort that is killed has not begun; it may leave the lock.
`Daemon` has the same bound with one save in the default configuration, since
liveness and the pairs of consecutive cycles it is about multiply the states.
The violation runs need no disturbance.

`Rebase`: two commits, two paths, every combination of conflicts, a bound of two
steps in place of 100, so that the bound is met exactly and exceeded.
Disturbances are unbounded there.  `Stamp`: two saves of either kind, one failing
call or crash, settle time 2, which lets a save begin in every window and a
second one follow.  `Watcher`: a directory inside another that is excluded or
not, the rules file and a note, a buffer of two, four changes: enough to create a
directory inside a new one during the walk, to change the rules in between, or to
overflow the buffer; and one watch or read that fails.

`SharedNote`: two machines, nine notes (without frontmatter, with both
timestamps, neither, one, an empty or meaningless `created`, an unclosed block, a
quoted scalar over two lines, an inch sign), five choices of options alike on
both machines and four that differ; two saves in all, each stamped or not, three
where the stamps conflict most.  Two saves are one by each or two by one, so that
one commit and two are replayed over a foreign one.  With three, one machine's git
stops where resolving has emptied a commit, or its rebase has one step only, where
it is two elsewhere in place of 100.

The longest runs are `notes` (259,508 states, two to three minutes), `sync_safety`
(3,964,529 states, two minutes) and `watcher` (215,297 states, a minute).

### Fairness

`SyncCycle`: the cycle's steps, because every git command ends, at the latest by
`run`'s timeout; a restart after SIGTERM, because the unit in `contrib/systemd`
has `Restart=always`; the user's reactions to `ErrBusy`, `ErrDetached` and
`ErrConflict`, which are what the hints in `kind.go` ask for (resolve, conclude,
abort, switch back, rebase by hand, remove the lock).  Strong fairness only for
the rebase by hand, which the daemon's own cycles keep interrupting.  None for
disturbances or saves.  `Daemon` adds none: its part of a step is determined by
the cycle's.  `Rebase`: the call's own steps.  `Stamp`: the cycle, its two
triggers, time, and an editor that finishes a save it began.  `Watcher`: the
goroutine's steps; the branches of the select strongly, since Go chooses among
ready cases at random; time and the ticker (`PollInterval` > 0, the default).
`SharedNote` has safety properties only.

## The proofs

Every invariant and action property of `sync_safety`, `sync_live`, `rebase`,
`stamp` and `watcher` is a theorem for every value of the constants that meets
the module's assumption (`SyncAssumption`, `RebaseAssumption`, `StampAssumption`,
`WatcherAssumption`): any notes and saves, any configurations, any number of
commits, steps, changes and disturbances, any buffer and periods.  Of `notes`
five of eight are, for any number of machines, commits and lines.

- `SyncCycleProofs`: `TypeCorrect`, `NothingLostEver`,
  `DryRunAlwaysTouchesNothing`, `CommitsOnlyWhatItChecked`.  `NothingLost` is not
  inductive: that a save in the autostash is not thrown away depends on who may
  have started the rebase. `SyncInv` adds `RebaseOwnsTree` (a rebase in progress
  is the cycle's, in its rebase steps, or one a kill left behind, which the guard
  of the next cycle meets, or one the user began just before the cycle's),
  `TreeIsWhole` (without a rebase, the worktree contains HEAD and index, the
  autostash is empty, and every safe save is in the worktree or on the branch)
  and `StashIsWhole` (during one, it is in the autostash or committed).
  `SharedIsPrefix`, `BeyondTree` and `ReplayedTree` say that replaying the
  unshared commits keeps every save of the branch, whichever commits are dropped
  because their saves are upstream.  `DryInv` says which steps a dry run can
  reach; `CheckedInv` what the guards have established while nobody raced, and
  that markers are only where something is unmerged.
- Also in `SyncCycleProofs`: `ScratchAlwaysStaysOut`, from `CleanInv`: index,
  branches and remote are clean, and every add filters;
  `SuccessAlwaysMeansPublished`, from `PublishInv` over `CheckedInv`, and the
  lemma that a branch with nothing ahead is a prefix of what it tracks
  (`NoneAhead`).
- `DaemonProofs`: `RunsSyncCycle` carries everything above over to the daemon.
  `StatusIsAlwaysHonest` and `AlwaysLoggedOnce` rest on `MemoryInv`, which
  relates what the closure remembers, and what is shown, to what the last cycle
  came to, through restarts and cancelled cycles; `AlwaysPersistsUntilAttended`
  on `BlockedInv`, which says that a cycle that follows such a report has not got
  past the guards.
- `RebaseProofs`: `RebaseInvariant` says, step by step, how branch, files, rebase
  in progress and the last error go together; `Picks` says that what has been
  replayed is a subsequence of the commits that leaves out only emptied ones.
  From it `RefinesAtomicRebase`, `RebaseTypeCorrect`, `RealConflictsAreAlwaysLeft`.
  `AlwaysGivesUpForAReason` needs an account of the steps: `PatienceInv` relates
  the step counter to the commits that are left and to the stops for emptied
  patches so far, so that a call without a reason to give up cannot run out of
  them.
- `StampProofs`: `SaveInv` says that while the mtime is the one seen first, the
  note is the one read, that the second stat carries this to the rename unless a
  save begins there, and that an editor is left with a replaced file only in that
  case.  From it `StampsOnlyWholeNotes`, `SavesSurviveAlways`,
  `NeverHalfWrittenAlways`; `SettledIsStampedAlways` from `QuietInv`, for runs in
  which calls of `stampFile` fail as well.
- `WatcherProofs`: `WatchInv` adds what the walk has left to do, that the root
  comes first, and how far timer and window may differ.  From it
  `ChangesAreAlwaysScheduled`, `NewDirsAreAlwaysWatched` (with watches and reads
  that fail), `AlwaysDueByMaxDebounce`.
- `NoteProofs` is about the operators, without a state machine.  `splitConflict`,
  git's weaving of lines and its writing of conflicts are recursive functions, and
  what they compute for a note of any length is proved by induction on the
  argument, from the existence of a least counterexample (`LeastElement`, `UpTo`)
  and of the function itself (`FoldExists`).  `SplitsAsWritten`: a file with any
  number of conflicts, taken apart, gives back its two sides.  `MergeLaw`: a merge
  that ends well, resolver included, has of each line but the timestamps what the
  side that changed it has, and nothing else.  `StampLaw`: `Apply` leaves every
  line but the timestamps.
- `LayoutProofs` is about the same operators: where a line is, and what becomes of
  a time.  Whether `findKey` finds a key depends on what is above it, so one has to
  say in which order lines occur in every version, whatever git weaves together
  and wherever `Apply` inserts.  The order itself is not the same everywhere (two
  machines with different options put `modified` at different places).  A layout
  therefore gives each line a rank only: 0 above all odd quotes (there are
  `created` and `modified`), 1 for the first line with odd quotes, 2 for what may
  follow it, 3 for the end of the block, 4 for the body.  A version is `Laid` if
  its lines are in the order of their ranks, each once, and those the ranks hang
  on are still there.  `MergeLaid`, `SaveLaid` and `ApplyLaid`: merges, saves and
  stamps keep a layout, so findKey never meets a quote above an own key
  (`Quiet`), and a reader finds exactly one line (`LaidSaysOnce`, `ValueIsVal`).
  `TidyLaid`: what a `Tidy` note has to be for there to be a layout.  `Aged` says
  what can have become of the two times; `MergeAges`, `SaveAges` and `StampAges`:
  merges, saves and stamps do no more than that.
- `SharedNoteProofs`: `NoEditIsLost`, `NoCommitIsEmpty`,
  `KeysStayUnique`, `CreatedSurvives`, `ModifiedStaysOfLatestEdit`.
  `MergeLaw` speaks of one merge of versions that are well-formed and that differ
  from their base in certain ways only; a pull replays many commits, each on what
  the merges before have made.  The invariant (`VersionsStaySound`) has four parts.
  `NotesInv`: every version can be merged and stamped (`Regular`), and no line is
  younger than the clock.  `ChainInv`: from commit to commit, and from where they
  begin to the remote, a line becomes only what it can become (`Grew`).
  `MineInv`: what a machine wrote and has not pushed, nobody else has; without it
  a line both sides had changed alike, and that one of them then changed again,
  would be taken for a line only one of them changed.  `ShapeInv`: types.  The
  invariant was checked on `notes`' instance before it was proved.  `Replays` is
  the loop invariant of a pull: after the first commits, each line of the tip
  `Fits` what it was at first, on the remote, and after those commits.

  The last three need a second invariant (`VersionsStayTidy`): there is one
  layout that fits every version, no version has a time to come, and `Aged` holds
  along each chain of commits and from where they begin to the remote.  It is the
  chain that makes a merge safe, since the resolver's choice between two times
  means little unless both go on from the base; `Tracks` carries it through a
  pull, and `TipFits` along the commits of a push, where other machines' bases
  fall further behind.  `CreatedSurvives` is then a step of the chain.  For
  `ModifiedStaysOfLatestEdit`, `TimesInv` adds that each version's `modified` is
  that of its latest line that was stamped (`RecentInv`), or that no version has
  frontmatter and no machine gives it any: a pull never brings frontmatter, or
  loses it.

  These theorems suppose `Quoting = FALSE` (nobody pastes a line that looks like
  a conflict marker; `notes_markers` shows that they fail otherwise), and that the
  first note is `Ordinary`: a line reads like `created` or `modified` only if it
  is that key, every other line occurs once, and a fence is the first line or
  closes the block it opens.  The last three suppose besides that it is `Tidy`: own
  keys are there once, written as `Apply` writes them, above any line with odd
  quotes and inside the block (`notes_quotes` shows a second `created` where a
  quote is above the first), and no paragraph that may be deleted has odd quotes,
  since what is open below it would then change; and for `modified`, that it is
  `Current`, no line being later than it at first.  Eight of the nine notes of the
  instance are all of that (`MostAreOrdinary`, which TLC evaluates), among them
  one with an odd quote below `created` and one that is malformed; the ninth has a
  quoted scalar with something that looks like a key in it.  The options, the
  machines and the rest of the note are free.

Model-checked only:

- liveness (`EventuallyPublished`, `EventuallyCaughtUp`, `RecoveryIsShown`,
  `Returns`, `CannotLoop`, `EventuallyCommitted`, `EventuallySynced`), which
  needs fairness and ENABLED;
- `BlockedIsBehind`, that the remote never returns to a version it had.  `Follows`
  and `Aged` say that lines and times only advance, which leaves a commit that
  changes nothing but the order of lines.  Where machines differ in whether they
  maintain `created`, they put `modified` at different places, and a pull may take
  over the order of either side; a proof has to show that this cannot go back and
  forth, for any number of machines;
- `StampsOnlyOwnKeys`, that a stamp touches nothing that merely reads like an own
  key: the theorems about stamps suppose `Ordinary` notes, which have no such line
  (`StampLaw` says so), and the run has one inside a quoted scalar;
- `BlocksOnlyOnRealConflicts`, an action property that relates what a whole pull
  made of a note to a merge of the same notes without their timestamps: its proof
  needs the hunks of both merges side by side.

## Not modelled

- Bytes: line ends, the byte order mark, letter case, comments, time formats and
  equal times; commit messages, log and status wording, path quoting, the parser
  of porcelain output, the pipe to `check-ignore`.
- `reconcile` reads the two versions of a line without regard to quoted scalars
  around it, and so does the model; clocks of two machines that disagree, or go
  backwards, are not modelled.
- The numbers of exit codes, flags and git-config lookup; their result is the
  set of configurations.  Journal and sd_notify: when something is sent is in
  `Daemon`, how is not.
- `AddedAt`: the dates in the history come from `git log` alone.
- Symlinks and permissions; why a note is unfit for a stamp; the shell's terminal
  sending SIGINT to git as well; submodules; more than one remote.
- `git rebase`'s last moments (moving the branch, applying the stash, removing
  its state) are one step.

What the models show and no run singles out:

- a rebase the user begins after the guards is taken for the daemon's own, and
  resolved, continued, skipped or aborted: `Rebase` asks what is in progress, not
  who began it (`repo.go:184`, against its comment "it failed before the rebase
  even started"; `RebaseRefused` and `UserStartRebase`);
- where a `--skip` stops again the rebase is aborted, and the conflict not offered
  to the resolver (`repo.go:204`, against `repo.go:165`; `skipped` in
  `GivesUpForAReason`);
- a note that changes while it is stamped is not left to the next cycle: this one
  commits it unstamped, and the next finds it clean (`stamp.go:147`, against
  `stamp.go:142` and `README.md:78`; `quiet` in `SettledIsStamped`);
- a directory that a changed `.gitignore` no longer excludes gets no watch, on the
  next cycle or any other (`watcher.go:295`, against `README.md:255`; `omitted` in
  `NewDirsAreWatched`);
- a SIGTERM or timeout that kills git can leave `index.lock` (`git.go:107`,
  against `main.go:17`); it is in `MaybeLock`, and `EventuallyPublished` relies on
  the user to remove it;
- a note an editor has truncated is skipped by the stamp and taken by the commit
  (`stamp.go:94`);
- an error in stamping one note is logged, and the note is committed as it is, to
  be stamped with its next change (`stamp.go:54`);
- a directory that cannot be watched, for want of inotify watches, is left to the
  poll for good (`watcher.go:268`);
- an event that is dropped behind a buffer full of ignored paths waits for the
  poll (`watcher.go:89`), which is why `ChangesAreScheduled` excepts what was
  `missed`;
- a rebase that a timeout has killed, or that stopped because files changed under
  it, is reported as a conflict, "BLOCKED", though the next cycle may clear it
  (`kind.go:66`);
- `failingSince` starts again when the error's text changes (`watch.go:78`), so
  the status line may understate how long syncing has failed;
- `HasAuthor` that fails because it was cancelled, or timed out, is reported as a
  missing identity (`syncer.go:187`).

## What could follow

`BlockedIsBehind` for machines that agree on what to stamp, from an invariant on
the exact order of lines; `Stamp` composed with `Watcher`'s window, with the
versions of committed notes told apart; a cycle of `SyncCycle` with the notes of
`SharedNote`, so that a blocked pull is seen by the daemon that reports it.
