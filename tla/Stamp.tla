-------------------------------- MODULE Stamp --------------------------------
(***************************************************************************)
(* One note between an editor, which saves it, and the daemon, which       *)
(* rewrites its frontmatter and commits it.  The daemon's cycle is broken  *)
(* into the file-system calls of stampFile and writeAtomic and the two git *)
(* commands of commit; the editor acts between any two of them.            *)
(*                                                                         *)
(* Every write of the editor gives the file another mtime: one that could  *)
(* go unseen would have to fall on the mtime of a file that has been quiet *)
(* for --settle, here at least one unit of time.  For the same reason      *)
(* Apply always finds another `modified:` to write.  stampFile's other ways  *)
(* to leave a note alone are `unfit` notes, which are binary, above MaxSize *)
(* or malformed, and the calls that fail.                                   *)
(***************************************************************************)
EXTENDS Naturals

CONSTANTS
  Configs,    \* the configurations to check
  Settle,     \* StampConfig.Settle
  MaxSaves,   \* how often the editor saves (a bound of the model)
  MaxFails    \* how many crashes and failed commands (a bound of the model)

ConfigSet == [modified : BOOLEAN,  \* Options.ModifiedKey is set
              author : BOOLEAN]    \* git has a commit identity

ASSUME StampAssumption ==
  /\ Configs \subseteq ConfigSet
  /\ Settle \in Nat \ {0} /\ MaxSaves \in Nat /\ MaxFails \in Nat

VARIABLES
  cfg,
  file,     \* the note: the save its text is from, and its form
  size,     \* "zero" between the truncation and the write of an editor
  mtime,    \* the number of writes by the editor
  age,      \* the time since the last write, up to Settle
  index, head, \* the note as staged and as committed
  editor,   \* "closed", "saving" in place, or "orphan": its inode is replaced
  event,    \* the watcher has seen a write
  pc,       \* the next step of the cycle, "idle" between cycles
  quiet,    \* the note was settled when the cycle took the time
  before,   \* the mtime stampFile saw first
  src,      \* what it read, its size included
  erred,    \* stampFile has returned an error in this cycle
  last,     \* the latest save
  late,     \* a save began between the second stat and the rename
  fails     \* failures so far

disk == <<file, size, mtime, age>>
repo == <<index, head>>
loop == <<pc, quiet, before, src, erred>>
vars == <<cfg, disk, repo, editor, event, loop, last, late, fails>>

Forms == {"plain", "stamped", "unfit"}
Contents == [save : 0..MaxSaves, form : Forms]
Blank == [save |-> 0, form |-> "plain"]

Init ==
  /\ cfg \in Configs
  /\ file = Blank /\ size = "some" /\ mtime = 0 /\ age = Settle
  /\ index = Blank /\ head = Blank
  /\ editor = "closed" /\ event = FALSE
  /\ pc = "idle" /\ quiet = FALSE /\ before = 0 /\ src = [note |-> Blank, size |-> "some"]
  /\ erred = FALSE /\ last = 0 /\ late = FALSE /\ fails = 0

-----------------------------------------------------------------------------
(* The daemon.                                                             *)

Goto(p) == pc' = p /\ UNCHANGED <<quiet, before, src, erred>>
Same == UNCHANGED <<cfg, editor, last, late, fails>>

Dirty == size = "zero" \/ file # head

\* slip: every note is looked at, changed or not
LookAtAll == /\ pc' = "stat"
             /\ quiet' = (age = Settle) /\ erred' = FALSE
             /\ UNCHANGED <<before, src, disk, repo>> /\ Same

\* the status of the cycle; a clean note is not opened
Look == /\ pc' = IF Dirty THEN "stat" ELSE "idle"
        /\ quiet' = (age = Settle) /\ erred' = FALSE
        /\ UNCHANGED <<before, src, disk, repo>> /\ Same

SyncOnChange == pc = "idle" /\ event /\ event' = FALSE /\ Look

\* slip: no poll
NoPoll == FALSE /\ UNCHANGED vars

SyncOnPoll == pc = "idle" /\ Look /\ UNCHANGED event

\* slip: a truncated note is stamped
StatAnySize ==
  /\ pc = "stat"
  /\ IF quiet
     THEN pc' = "read" /\ before' = mtime /\ UNCHANGED <<quiet, src, erred>>
     ELSE Goto("add")
  /\ UNCHANGED <<disk, repo, event>> /\ Same

\* the first stat: neither empty nor still settling
Stat ==
  /\ pc = "stat"
  /\ IF quiet /\ size # "zero"
     THEN pc' = "read" /\ before' = mtime /\ UNCHANGED <<quiet, src, erred>>
     ELSE Goto("add")
  /\ UNCHANGED <<disk, repo, event>> /\ Same

\* slip: a note that is to get no modified gets no created either
ReadForModified ==
  /\ pc = "read"
  /\ src' = [note |-> file, size |-> size]
  /\ pc' = IF cfg.modified /\ file.form # "unfit" THEN "restat" ELSE "add"
  /\ UNCHANGED <<quiet, before, erred, disk, repo, event>> /\ Same

\* read the note and rewrite it in memory; it may be unfit or need no change
Read ==
  /\ pc = "read"
  /\ src' = [note |-> file, size |-> size]
  /\ pc' = IF file.form = "plain" \/ (file.form = "stamped" /\ cfg.modified)
           THEN "restat" ELSE "add"
  /\ UNCHANGED <<quiet, before, erred, disk, repo, event>> /\ Same

\* slip: no second stat
RestatTrusts ==
  /\ pc = "restat"
  /\ Goto("rename")
  /\ UNCHANGED <<disk, repo, event>> /\ Same

Restat ==
  /\ pc = "restat"
  /\ Goto(IF mtime = before THEN "rename" ELSE "add")
  /\ UNCHANGED <<disk, repo, event>> /\ Same

\* slip: truncate and write instead of a rename
WriteInPlace ==
  /\ pc = "rename"
  /\ \/ size # "zero" /\ size' = "zero" /\ Goto("rename") /\ UNCHANGED file
     \/ size = "zero" /\ size' = "some" /\ file' = [src.note EXCEPT !.form = "stamped"] /\ Goto("add")
  /\ age' = 0 /\ event' = TRUE
  /\ UNCHANGED <<mtime, repo>> /\ Same

\* slip: the note is removed to make room for the rename
RemoveFirst ==
  /\ pc = "rename"
  /\ \/ size # "gone" /\ size' = "gone" /\ Goto("rename") /\ UNCHANGED file
     \/ size = "gone" /\ size' = "some" /\ file' = [src.note EXCEPT !.form = "stamped"] /\ Goto("add")
  /\ age' = 0 /\ event' = TRUE
  /\ UNCHANGED <<mtime, repo>> /\ Same

\* writeAtomic: the temp file takes the note's place.  An editor that has the
\* old file open goes on writing to it.
Rename ==
  /\ pc = "rename"
  /\ file' = [src.note EXCEPT !.form = "stamped"] /\ size' = "some" /\ age' = 0
  /\ editor' = IF editor = "saving" THEN "orphan" ELSE editor
  /\ event' = TRUE
  /\ Goto("add")
  /\ UNCHANGED <<cfg, mtime, repo, last, late, fails>>

\* a stat, the read or writeAtomic fails: stampFiles logs it and goes on, with
\* the note as it is
StampError ==
  /\ fails < MaxFails /\ fails' = fails + 1
  /\ pc \in {"stat", "read", "restat", "rename"}
  /\ pc' = "add" /\ erred' = TRUE
  /\ UNCHANGED <<cfg, disk, repo, editor, event, quiet, before, src, last, late>>

\* HasAuthor, then `git add`, which takes the note as it is, empty or not
Add ==
  /\ pc = "add"
  /\ \/ ~cfg.author /\ Goto("idle") /\ UNCHANGED index
     \/ /\ cfg.author
        /\ index' = IF size = "zero" THEN Blank ELSE file
        /\ Goto("commit")
  /\ UNCHANGED <<disk, head, event>> /\ Same

\* `git commit`, unless nothing is staged
Commit ==
  /\ pc = "commit"
  /\ head' = index
  /\ Goto("idle")
  /\ UNCHANGED <<disk, index, event>> /\ Same

-----------------------------------------------------------------------------
(* Failures, time and the editor.                                          *)

\* the command fails, and with it the cycle
Fail ==
  /\ fails < MaxFails /\ fails' = fails + 1
  /\ pc \in {"add", "commit"} /\ Goto("idle")
  /\ UNCHANGED <<cfg, disk, repo, editor, event, last, late>>

\* the process dies and is restarted, which begins with a cycle
Crash ==
  /\ fails < MaxFails /\ fails' = fails + 1
  /\ pc # "idle" /\ Goto("idle")
  /\ event' = TRUE
  /\ UNCHANGED <<cfg, disk, repo, editor, last, late>>

Tick ==
  /\ age < Settle /\ age' = age + 1
  /\ UNCHANGED <<cfg, file, size, mtime, repo, editor, event, loop, last, late, fails>>

\* a write by the editor; the cycle's time is older than its mtime
Touch == /\ mtime' = mtime + 1 /\ age' = 0 /\ event' = TRUE /\ quiet' = FALSE
         /\ late' = (late \/ pc = "rename")

\* a save that replaces the file, from a buffer that may predate the stamp
Save ==
  /\ editor = "closed" /\ last < MaxSaves
  /\ last' = last + 1
  /\ \E f \in Forms : file' = [save |-> last', form |-> f]
  /\ size' = "some"
  /\ Touch
  /\ UNCHANGED <<cfg, repo, editor, pc, before, src, erred, fails>>

\* a save that truncates the file and then writes it
Truncate ==
  /\ editor = "closed" /\ last < MaxSaves
  /\ size' = "zero" /\ editor' = "saving" /\ last' = last + 1
  /\ Touch
  /\ UNCHANGED <<cfg, file, repo, pc, before, src, erred, fails>>

Write ==
  /\ editor = "saving"
  /\ \E f \in Forms : file' = [save |-> last, form |-> f]
  /\ size' = "some" /\ editor' = "closed"
  /\ Touch
  /\ UNCHANGED <<cfg, repo, pc, before, src, erred, last, fails>>

\* what is written to the replaced file reaches nobody
WriteOrphan ==
  /\ editor = "orphan" /\ editor' = "closed"
  /\ UNCHANGED <<cfg, disk, repo, event, loop, last, late, fails>>

-----------------------------------------------------------------------------
Cycle == Stat \/ Read \/ Restat \/ Rename \/ Add \/ Commit
Editor == Save \/ Truncate \/ Write \/ WriteOrphan

Next == SyncOnChange \/ SyncOnPoll \/ Cycle \/ StampError \/ Fail \/ Crash \/ Tick \/ Editor

Spec == Init /\ [][Next]_vars

(* The daemon carries a cycle through and starts one after an event and at *)
(* every poll; time passes; an editor that has truncated a note writes it. *)
Fairness ==
  /\ WF_vars(Cycle) /\ WF_vars(SyncOnChange) /\ WF_vars(SyncOnPoll) /\ WF_vars(Tick)
  /\ WF_vars(Write) /\ WF_vars(WriteOrphan)

FairSpec == Spec /\ Fairness

-----------------------------------------------------------------------------
NoteType ==
  /\ file \in Contents /\ index \in Contents /\ head \in Contents
  /\ src \in [note : Contents, size : {"zero", "some"}]
TimeType ==
  /\ mtime \in Nat /\ before \in Nat /\ age \in 0..Settle
  /\ last \in 0..MaxSaves /\ fails \in 0..MaxFails
FlagType ==
  /\ cfg \in Configs /\ size \in {"zero", "some"}
  /\ editor \in {"closed", "saving", "orphan"} /\ event \in BOOLEAN
  /\ pc \in {"idle", "stat", "read", "restat", "rename", "add", "commit"}
  /\ quiet \in BOOLEAN /\ late \in BOOLEAN /\ erred \in BOOLEAN

\* Every variable keeps to its values (stamp.go stampFile).
TypeOK == NoteType /\ TimeType /\ FlagType

\* What stampFile writes was read from a note that was whole, even if the
\* editor truncates it between stat and read (stamp.go:93-98, 140-151).
StampsWholeNotes == pc = "rename" => src.size # "zero"

\* No save is overwritten by the stamp, unless it began in the one window the
\* code leaves, between the second stat and the rename (stamp.go:140-153).
SavesSurvive == late \/ (editor = "closed" => file.save = last)

\* Only an editor ever leaves the note empty, and only while it saves: a
\* crash of the daemon does not (stamp.go writeAtomic).
NeverHalfWritten == size = "zero" => editor = "saving"

\* The daemon's own write does not keep it going: once the editor is done the
\* note is not rewritten (README "It cannot loop", stamp.go:47-49).  It does not
\* hold without a commit identity: the note stays dirty, and each cycle
\* writes it again and so starts the next.
CannotLoop == <>[](pc # "rename")

\* What the note holds in the end is committed, whatever failed before
\* (syncer.go commit, watcher.go poll).
EventuallyCommitted == <>[](head = file /\ size = "some")

\* A note without a stamp is committed only if it is empty or unfit, was still
\* settling, was written to while the cycle was at it, or could not be stamped
\* for an error (stamp.go:54-68, 83-155, syncer.go commit).
SettledIsStamped ==
  [][pc = "add" /\ pc' = "commit" /\ quiet /\ size # "zero" /\ ~erred
     => index'.form # "plain"]_vars
=============================================================================
