------------------------------- MODULE Watcher -------------------------------
(***************************************************************************)
(* watcher.Run: file-system events, the debounce timer and the poll ticker *)
(* coalesced into syncs, while directories come and go and inotify, which  *)
(* is not recursive, has to be told of each.  All branches of the select   *)
(* run on one goroutine, so that nothing is noticed while a sync or a walk *)
(* of the tree is under way; a second goroutine moves events into a        *)
(* bounded buffer and drops what does not fit.                             *)
(*                                                                         *)
(* A sync is what the watcher relies on: it reads the whole worktree once. *)
(* Events that candidate drops (.git, scratch, chmod) are not modelled.    *)
(* Which paths git ignores may change while the watcher runs.              *)
(***************************************************************************)
EXTENDS Naturals, SequencesExt

CONSTANTS
  Root,         \* the worktree
  Dirs,         \* the directories there may be below it
  Files,        \* the files there may be
  In,           \* the directory a file or directory is in
  RulesFile,    \* the .gitignore of the worktree
  Rules,        \* the sets of paths it may exclude
  Buffer,       \* the capacity of the events channel
  Debounce, MaxDebounce,
  MaxChanges,   \* how often the user changes something (a bound of the model)
  MaxFails      \* how often a directory cannot be watched or read (a bound of the model)

Paths == Dirs \cup Files
Places == Dirs \cup {Root}

\* an ignored directory takes what is in it with it; .gitignore itself is read
ASSUME WatcherAssumption ==
  /\ Root \notin Dirs /\ Dirs \cap Files = {}
  /\ In \in [Paths -> Places]
  /\ RulesFile \in Files /\ In[RulesFile] = Root
  /\ Rules \subseteq SUBSET (Paths \ {RulesFile})
  /\ \A rule \in Rules : \A p \in Paths : In[p] \in rule => p \in rule
  /\ Buffer \in Nat \ {0} /\ Debounce \in Nat /\ MaxDebounce \in Nat
  /\ MaxChanges \in Nat /\ MaxFails \in Nat

VARIABLES
  \* the file system
  exists,   \* the directories there are
  ignored,  \* the paths git ignores
  dirty,    \* the files changed since a sync last read them
  watched,  \* the directories inotify watches
  \* Run
  events,   \* the buffered channel
  pending,  \* the paths of this window, and those that may be new directories
  created,
  since,    \* the time since pendingSince, or Never
  timer,    \* the time left on the debounce timer, or Never
  pc,       \* "walk", "list", "sync" or "select"
  level,    \* addTree: the directories of this level still to do,
  children, \* and of the next
  dir,      \* the one that is being read
  \* history
  missed,   \* the files whose event was dropped, and which no sync has read
  omitted,  \* the directories passed over: ignored when they were noticed, or a call failed
  dropped,  \* some event was dropped
  changes,  \* the changes so far
  fails     \* and the failed calls

world  == <<exists, ignored, dirty, watched>>
window == <<pending, created, since, timer>>
tree   == <<level, children, dir>>
vars   == <<world, events, window, pc, tree, missed, omitted, dropped, changes, fails>>

Never == MaxDebounce + Debounce + 1   \* later than any time that is measured

Lesser(m, n) == IF m < n THEN m ELSE n

\* Run begins with addTree(""), then the first sync
Init ==
  /\ exists \in {S \in SUBSET Dirs : \A d \in S : In[d] \in S \cup {Root}}
  /\ ignored \in Rules
  /\ dirty \in SUBSET {f \in Files : In[f] \in exists \cup {Root}}
  /\ watched = {} /\ events = <<>>
  /\ pending = {} /\ created = {} /\ since = Never /\ timer = Never
  /\ pc = "walk" /\ level = {Root} /\ children = {} /\ dir = Root
  /\ missed = {} /\ omitted = {} /\ dropped = FALSE /\ changes = 0 /\ fails = 0

-----------------------------------------------------------------------------
(* The event buffer.                                                       *)

\* an event for p, if its directory is watched and the buffer has room
Notify(p, create) ==
  IF In[p] \notin watched THEN UNCHANGED <<events, missed, dropped>>
  ELSE IF Len(events) < Buffer
       THEN /\ events' = Append(events, [path |-> p, create |-> create])
            /\ UNCHANGED <<missed, dropped>>
       ELSE /\ dropped' = TRUE
            /\ missed' = missed \cup ({p} \cap Files)
            /\ UNCHANGED events

\* git's answer to check-ignore, or everything if it fails
Unignored(ps) == {ps \ ignored, ps}

PathsOf(evs) == {evs[i].path : i \in 1..Len(evs)}
NewOf(evs) == {evs[i].path : i \in {j \in 1..Len(evs) : evs[j].create}}

-----------------------------------------------------------------------------
(* Run.                                                                    *)

\* slip: every event starts the quiet period again
PlainDebounce(age) == Debounce

\* the quiet period, cut short so that the window ends by MaxDebounce
Wait(age) == Lesser(Debounce, IF age < MaxDebounce THEN MaxDebounce - age ELSE 0)

OnEvent ==
  /\ pc = "select" /\ events # <<>>
  /\ LET ev == Head(events) IN
     /\ pending' = pending \cup {ev.path}
     /\ created' = IF ev.create THEN created \cup {ev.path} ELSE created
  /\ events' = Tail(events)
  /\ since' = IF since = Never THEN 0 ELSE since
  /\ timer' = Wait(since')
  /\ UNCHANGED <<world, pc, tree, missed, omitted, dropped, changes, fails>>

\* slip: what arrived while the timer was firing is not absorbed
OnDebounceAlone ==
  /\ pc = "select" /\ timer = 0
  /\ \E live \in Unignored(pending) :
       /\ pc' = IF live = {} THEN "select" ELSE "walk"
       /\ level' = created \cap live \cap exists
       /\ omitted' = omitted \cup ((created \cap exists) \ live)
  /\ events' = <<>> /\ pending' = {} /\ created' = {} /\ since' = Never /\ timer' = Never
  /\ UNCHANGED <<world, children, dir, missed, dropped, changes, fails>>

\* slip: pendingSince is not reset
OnDebounceKeepsSince ==
  /\ pc = "select" /\ timer = 0
  /\ LET seen == pending \cup PathsOf(events)
         new  == created \cup NewOf(events) IN
     \E live \in Unignored(seen) :
       /\ pc' = IF live = {} THEN "select" ELSE "walk"
       /\ level' = new \cap live \cap exists
       /\ omitted' = omitted \cup ((new \cap exists) \ live)
  /\ events' = <<>> /\ pending' = {} /\ created' = {} /\ timer' = Never
  /\ UNCHANGED <<world, since, children, dir, missed, dropped, changes, fails>>

\* the window ends: absorb, ask git which paths matter (all of them do when it
\* fails), watch new directories, and sync unless everything was ignored
OnDebounce ==
  /\ pc = "select" /\ timer = 0
  /\ LET seen == pending \cup PathsOf(events)
         new  == created \cup NewOf(events) IN
     \E live \in Unignored(seen) :
       /\ pc' = IF live = {} THEN "select" ELSE "walk"
       /\ level' = new \cap live \cap exists
       /\ omitted' = omitted \cup ((new \cap exists) \ live)
  /\ events' = <<>> /\ pending' = {} /\ created' = {} /\ since' = Never /\ timer' = Never
  /\ UNCHANGED <<world, children, dir, missed, dropped, changes, fails>>

\* slip: no poll
NoPoll == FALSE /\ UNCHANGED vars

OnPoll ==
  /\ pc = "select" /\ pc' = "sync"
  /\ UNCHANGED <<world, events, window, tree, missed, omitted, dropped, changes, fails>>

OnWake ==
  /\ pc = "select" /\ pc' = "sync"
  /\ UNCHANGED <<world, events, window, tree, missed, omitted, dropped, changes, fails>>

Subdirs(d) == {c \in exists : In[c] = d}
MayFail == fails < MaxFails /\ fails' = fails + 1

\* slip: read the directory, then watch it
WalkReadFirst ==
  /\ \/ /\ pc = "walk" /\ level # {}
        /\ \E d \in level :
             /\ level' = level \ {d} /\ dir' = d
             /\ pc' = IF d \in exists \cup {Root} THEN "list" ELSE "walk"
             /\ children' = children \cup Subdirs(d)
        /\ UNCHANGED <<watched, omitted>>
     \/ /\ pc = "list" /\ pc' = "walk"
        /\ watched' = watched \cup {dir}
        /\ UNCHANGED <<level, children, dir, omitted>>
     \/ /\ pc = "walk" /\ level = {}
        /\ level' \in Unignored(children) /\ children' = {}
        /\ pc' = IF level' = {} THEN "sync" ELSE "walk"
        /\ omitted' = omitted \cup (children \ level')
        /\ UNCHANGED <<watched, dir>>
  /\ UNCHANGED <<exists, ignored, dirty, events, window, missed, dropped, changes, fails>>

\* addTree: watch a directory and then read it, level by level; git is asked
\* which children to leave out
Walk ==
  /\ \/ /\ pc = "walk" /\ level # {}
        /\ \E d \in level :
             /\ level' = level \ {d} /\ dir' = d
             /\ IF d \in exists \cup {Root}
                THEN watched' = watched \cup {d} /\ omitted' = omitted \ {d} /\ pc' = "list"
                ELSE UNCHANGED <<watched, omitted, pc>>
        /\ UNCHANGED children
     \/ /\ pc = "list" /\ pc' = "walk"
        /\ children' = children \cup Subdirs(dir)
        /\ UNCHANGED <<watched, level, dir, omitted>>
     \/ /\ pc = "walk" /\ level = {}
        /\ level' \in Unignored(children) /\ children' = {}
        /\ pc' = IF level' = {} THEN "sync" ELSE "walk"
        /\ omitted' = omitted \cup (children \ level')
        /\ UNCHANGED <<watched, dir>>
  /\ UNCHANGED <<exists, ignored, dirty, events, window, missed, dropped, changes, fails>>

\* a directory that is there cannot be watched (or stat fails in watchIfDir): it
\* is not read either, and the walk goes on
WatchFails ==
  /\ pc = "walk" /\ MayFail
  /\ \E d \in level \cap (exists \cup {Root}) :
       level' = level \ {d} /\ dir' = d /\ omitted' = omitted \cup (Dirs \cap {d})
  /\ UNCHANGED <<world, events, window, pc, children, missed, dropped, changes>>

\* it is watched and cannot be read: what is in it is not seen
ReadDirFails ==
  /\ pc = "list" /\ pc' = "walk" /\ MayFail
  /\ omitted' = omitted \cup Subdirs(dir)
  /\ UNCHANGED <<world, events, window, tree, missed, dropped, changes>>

\* the sync reads what git does not ignore; what changes during the rest of it
\* waits
Sync ==
  /\ pc = "sync" /\ pc' = "select"
  /\ dirty' = dirty \cap ignored /\ missed' = missed \cap ignored
  /\ UNCHANGED <<exists, ignored, watched, events, window, tree, omitted, dropped, changes, fails>>

-----------------------------------------------------------------------------
(* The user, and time.                                                     *)

May == changes < MaxChanges /\ changes' = changes + 1

Change(f) ==
  /\ May /\ In[f] \in exists \cup {Root}
  /\ dirty' = dirty \cup {f}
  /\ Notify(f, FALSE)
  /\ UNCHANGED <<exists, ignored, watched, window, pc, tree, omitted, fails>>

\* the user edits .gitignore: what it has omitted until now may have changed
\* long ago
ChangeRules ==
  /\ May
  /\ ignored' \in Rules \ {ignored}
  /\ dirty' = dirty \cup {RulesFile}
  /\ Notify(RulesFile, FALSE)
  /\ UNCHANGED <<exists, watched, window, pc, tree, omitted, fails>>

Mkdir(d) ==
  /\ May /\ d \notin exists /\ In[d] \in exists \cup {Root}
  /\ exists' = exists \cup {d}
  /\ Notify(d, TRUE)
  /\ UNCHANGED <<ignored, dirty, watched, window, pc, tree, omitted, fails>>

\* the watch goes with its directory; the notes in it are gone already
Rmdir(d) ==
  /\ May /\ d \in exists /\ \A c \in exists : In[c] # d
  /\ exists' = exists \ {d} /\ watched' = watched \ {d} /\ omitted' = omitted \ {d}
  /\ Notify(d, FALSE)
  /\ UNCHANGED <<ignored, dirty, window, pc, tree, fails>>

Tick ==
  /\ since # Never /\ ~(since >= MaxDebounce /\ timer = 0)
  /\ since' = Lesser(since + 1, Never - 1)
  /\ timer' = IF timer > 0 THEN timer - 1 ELSE 0
  /\ UNCHANGED <<world, events, pending, created, pc, tree, missed, omitted, dropped, changes, fails>>

-----------------------------------------------------------------------------
Run == OnEvent \/ OnDebounce \/ Walk \/ Sync

User == (\E f \in Files : Change(f)) \/ ChangeRules \/ (\E d \in Dirs : Mkdir(d) \/ Rmdir(d))

Next == Run \/ WatchFails \/ ReadDirFails \/ OnPoll \/ OnWake \/ User \/ Tick

Spec == Init /\ [][Next]_vars

(* The goroutine runs, time passes, and the ticker goes on ticking.        *)
(* select chooses among its ready cases at random, so none waits for ever. *)
Fairness == WF_vars(Walk \/ Sync) /\ SF_vars(OnEvent) /\ SF_vars(OnDebounce) /\ SF_vars(OnPoll)
            /\ WF_vars(Tick)

FairSpec == Spec /\ Fairness

-----------------------------------------------------------------------------
\* Every variable keeps to its values; timer and window go together.
TypeOK ==
  /\ exists \subseteq Dirs /\ ignored \in Rules /\ dirty \subseteq Files /\ watched \subseteq Places
  /\ events \in Seq([path : Paths, create : BOOLEAN]) /\ Len(events) <= Buffer
  /\ pending \subseteq Paths /\ created \subseteq pending
  /\ since \in 0..Never /\ timer \in 0..Never
  /\ (since = Never) <=> (timer = Never)
  /\ pc \in {"walk", "list", "sync", "select"}
  /\ level \subseteq Places /\ children \subseteq Dirs /\ dir \in Places
  /\ missed \subseteq dirty /\ omitted \subseteq Dirs
  /\ dropped \in BOOLEAN /\ changes \in 0..MaxChanges /\ fails \in 0..MaxFails

Coming == pc \in {"walk", "list", "sync"}   \* a sync that has not read yet
Noted == PathsOf(events) \cup pending

\* A change whose event was taken up is not forgotten: until a sync has read
\* it, its path is buffered or pending, or the sync is coming.  A file that was
\* ignored when it changed waits for the change to .gitignore, which is noted
\* itself.  What is pending has a timer that ends its window (watcher.go Run,
\* absorb, unignored).
ChangesAreScheduled ==
  /\ \A f \in dirty \ (missed \cup ignored) :
       In[f] \in watched => Coming \/ f \in Noted \/ RulesFile \in Noted \cup missed
  /\ pending # {} => timer # Never

\* Every directory in one that is watched is watched too, or about to be,
\* however mkdir, rmdir, the walk and changes to .gitignore interleave --
\* until an event has been dropped; and unless, when it was noticed, it was
\* ignored or a call failed on it, which is not made good before it is removed
\* or walked again (watcher.go addTree, watchIfDir).
NewDirsAreWatched ==
  \A d \in exists \ omitted :
    In[d] \in watched =>
      \/ d \in watched \/ dropped
      \/ d \in NewOf(events) \cup created \cup level \cup children
      \/ pc = "list" /\ dir = In[d]

\* However often an event starts the quiet period again, the timer is due
\* when MaxDebounce has passed since the first (watcher.go Config.MaxDebounce).
DueByMaxDebounce == since # Never /\ since >= MaxDebounce => timer = 0

\* Every change git does not ignore is read by a sync in the end, noticed or
\* not, in a directory that is watched or in one that never will be, by the
\* poll if nothing else (watcher.go Run).
EventuallySynced == \A f \in Files : (f \in dirty \ ignored) ~> (f \notin dirty \ ignored)
=============================================================================
