------------------------------ MODULE SharedNote ------------------------------
(***************************************************************************)
(* One note on two machines.  Each machine's daemon stamps what its user   *)
(* saves (frontmatter.Apply), commits it, and on the way to the remote     *)
(* replays its commits onto what the other one pushed; where git leaves    *)
(* conflict markers, resolveTimestamps asks frontmatter.ResolveConflict.   *)
(* When these steps happen within a cycle is the matter of SyncCycle and   *)
(* Rebase: here a cycle's commit, pull and push are one step each, and     *)
(* what counts is the text.                                                *)
(*                                                                         *)
(* The clock advances with every save, so a line's "val" says when it was  *)
(* written and no two saves are simultaneous; the machines' clocks agree.  *)
(***************************************************************************)
EXTENDS ConflictMerge, FiniteSets

CONSTANTS
  Machines,
  Starts,     \* the note as both have it at first, the options of each, and
              \* how often the note is saved then (a bound of the model)
  Quoting     \* a user may paste a line that looks like a conflict marker

\* frontmatter.Options and StampConfig.BackfillCreated of the daemon; whether
\* git is told to write the base into its conflicts, and whether this git stops
\* where a resolved commit has become empty; and maxRebaseSteps
OptionSet ==
  [created : BOOLEAN, modified : BOOLEAN, create : BOOLEAN, backfill : BOOLEAN, diff3 : BOOLEAN,
   stops : BOOLEAN, steps : Nat]

ASSUME NoteAssumption ==
  /\ \A s \in Starts : s.opts \in [Machines -> OptionSet] /\ s.edits \in Nat
  /\ Quoting \in BOOLEAN

VARIABLES
  opts,
  remote,   \* the note on the remote branch
  base,     \* per machine: the note where its local commits begin
  local,    \* per machine: the note after each local commit
  blocked,  \* per machine: the last pull ended in a conflict
  clock,
  edits,    \* saves to come
  unstamped \* the times of the saves that were committed without a stamp
vars == <<opts, remote, base, local, blocked, clock, edits, unstamped>>

Tip(m) == IF local[m] = <<>> THEN base[m] ELSE Last(local[m])

Init ==
  /\ \E s \in Starts : opts = s.opts /\ remote = s.note /\ edits = s.edits
  /\ base = [m \in Machines |-> remote]
  /\ local = [m \in Machines |-> <<>>]
  /\ blocked = [m \in Machines |-> FALSE]
  /\ clock = 1 /\ unstamped = {}

-----------------------------------------------------------------------------
(* What the user does to the note.                                         *)

Born == 1
Users == {"title", "tag", "b1", "b2"}

\* the line of that id, if there is one: <<>> or <<line>>
At(note, id) ==
  LET at == {i \in DOMAIN note : note[i].id = id}
  IN IF at = {} THEN <<>> ELSE <<note[CHOOSE i \in at : \A j \in at : i <= j]>>
Ids(note) == [i \in DOMAIN note |-> note[i].id]
Rewritten(note, id, t) ==
  [i \in DOMAIN note |-> IF note[i].id = id THEN [note[i] EXCEPT !.val = t] ELSE note[i]]

Saves(note, t) ==
  {Rewritten(note, id, t) : id \in Range(Ids(note)) \cap {"title", "b1", "b2"}}
  \cup {RemoveAt(note, i) : i \in {j \in DOMAIN note : note[j].id = "b1"}}
  \cup (IF Close(note) # 0 /\ At(note, "tag") = <<>>
        THEN {InsertAt(note, Close(note), Line("tag", "key", "tag", t))} ELSE {})
  \cup (IF Quoting THEN {[i \in DOMAIN note |-> IF note[i].id = "b1" THEN Line("b1", "end", "", t)
                                               ELSE note[i]]} ELSE {})

\* stampFile with the time of the save
WithStamp(m, note) ==
  Apply(note, IF opts[m].backfill THEN Born ELSE clock + 1, clock + 1, opts[m])

\* the commit of a save: with its stamp, or as it is if stampFile leaves it
\* alone (still settling, changed meanwhile, a call failed)
EditAndCommit(m, note) ==
  /\ edits > 0 /\ edits' = edits - 1
  /\ clock' = clock + 1
  /\ note # Tip(m)
  /\ \/ local' = [local EXCEPT ![m] = Append(@, WithStamp(m, note))] /\ UNCHANGED unstamped
     \/ local' = [local EXCEPT ![m] = Append(@, note)] /\ unstamped' = unstamped \cup {clock'}
  /\ UNCHANGED <<opts, remote, base, blocked>>

-----------------------------------------------------------------------------
(* git's three-way merge of lines, as `git rebase` applies it to a commit  *)
(* ("theirs") on top of the upstream ("ours").                             *)

\* an id of t that s lacks, below the one it follows in t
Woven(acc, t, i) ==
  IF Contains(acc, t[i]) THEN acc
  ELSE InsertAt(acc, IF i = 1 THEN 1 ELSE SelectInSeq(acc, LAMBDA x : x = t[i - 1]) + 1, t[i])

Weave(s, t) ==
  LET woven[i \in 0..Len(t)] == IF i = 0 THEN s ELSE Woven(woven[i - 1], t, i)
  IN woven[Len(t)]

\* what each row of the woven note is in one version of it, <<>> or a line
Rows(note, ids) == [r \in DOMAIN ids |-> At(note, ids[r])]

\* Changes that touch are one hunk.  Where both sides have a part in a hunk
\* the rows in which they end up different conflict.
Clashes(f, o, t) ==
  LET changed(r) == f[r] # o[r] \/ f[r] # t[r]
      hunk(r) == {s \in DOMAIN f : \A x \in (r..s) \cup (s..r) : changed(x)}
  IN {r \in DOMAIN f : /\ o[r] # t[r]
                       /\ \E s \in hunk(r) : f[s] # o[s]
                       /\ \E s \in hunk(r) : f[s] # t[s]}

\* adjoining rows that conflict are written as one conflict: "open" has the
\* three versions of the one that is being gathered
NoHunk == [from |-> <<>>, ours |-> <<>>, theirs |-> <<>>]
Hunk(open, diff3) ==
  IF open.ours = <<>> /\ open.theirs = <<>> THEN <<>>
  ELSE <<Mark("ours")>> \o open.ours
       \o (IF diff3 THEN <<Mark("base")>> \o open.from ELSE <<>>)
       \o <<Mark("theirs")>> \o open.theirs \o <<Mark("end")>>

WriteRow(acc, clashes, from, ours, theirs, diff3) ==
  IF clashes
  THEN [acc EXCEPT !.open = [from |-> @.from \o from, ours |-> @.ours \o ours,
                             theirs |-> @.theirs \o theirs]]
  ELSE [file |-> acc.file \o Hunk(acc.open, diff3) \o (IF from = theirs THEN ours ELSE theirs),
        open |-> NoHunk]

Written(f, o, t, clash, diff3) ==
  LET rows[r \in 0..Len(f)] ==
        IF r = 0 THEN [file |-> <<>>, open |-> NoHunk]
        ELSE WriteRow(rows[r - 1], r \in clash, f[r], o[r], t[r], diff3)
  IN rows[Len(f)].file \o Hunk(rows[Len(f)].open, diff3)

MergeRows(f, o, t, diff3) ==
  [clash |-> Clashes(f, o, t) # {}, file |-> Written(f, o, t, Clashes(f, o, t), diff3)]

Merge(from, ours, theirs, diff3) ==
  LET ids == Weave(Weave(Ids(from), Ids(ours)), Ids(theirs))
  IN MergeRows(Rows(from, ids), Rows(ours, ids), Rows(theirs, ids), diff3)

\* a file with conflicts stops the rebase and is resolved, or left to a human;
\* where a --skip has led to it or the steps have run out, nobody is asked
Resolved(merged, o) ==
  IF merged.clash THEN ResolveConflict(merged.file, o) ELSE {merged.file}
Offered(acc, merged, o) ==
  IF merged.clash /\ (acc.skipped \/ acc.steps >= o.steps) THEN {} ELSE Resolved(merged, o)

\* slip: a commit that adds nothing any more is kept
EvenEmpty(acc, clash, results, o) ==
  IF acc.stopped \/ results = {} THEN [acc EXCEPT !.stopped = TRUE]
  ELSE LET note == CHOOSE n \in results : TRUE
       IN [acc EXCEPT !.tip = note, !.local = Append(@, note)]

\* the rebase has stopped at a commit that has become empty, one more step
Skipped(acc, o) ==
  IF acc.steps >= o.steps THEN [acc EXCEPT !.stopped = TRUE]
  ELSE [acc EXCEPT !.steps = @ + 1, !.skipped = TRUE]

\* a commit that adds nothing to what is there already is dropped: by git, or
\* by a --skip if it was resolving that made it so
Committed(acc, clash, results, o) ==
  IF acc.stopped \/ results = {} THEN [acc EXCEPT !.stopped = TRUE]
  ELSE LET note == CHOOSE n \in results : TRUE
           after == [acc EXCEPT !.steps = IF clash THEN @ + 1 ELSE @]
       IN IF note # acc.tip THEN [after EXCEPT !.tip = note, !.local = Append(@, note)]
          ELSE IF clash /\ o.stops THEN Skipped(after, o)
          ELSE after

\* one commit of the rebase
Pick(acc, from, commit, o) ==
  LET merged == Merge(from, acc.tip, commit, o.diff3)
  IN Committed(acc, merged.clash, Offered(acc, merged, o), o)

Before(m, i) == IF i = 1 THEN base[m] ELSE local[m][i - 1]

Rebased(m) ==
  LET replayed[i \in 0..Len(local[m])] ==
        IF i = 0 THEN [tip |-> remote, local |-> <<>>, stopped |-> FALSE, steps |-> 0, skipped |-> FALSE]
        ELSE Pick(replayed[i - 1], Before(m, i), local[m][i], opts[m])
  IN replayed[Len(local[m])]

\* slip: a rebase that stopped is taken for one that is done
Onto(m, stopped) == remote

\* a rebase that stops is aborted
Origin(m, stopped) == IF stopped THEN base[m] ELSE remote

PullAs(m, rebased) ==
  /\ blocked' = [blocked EXCEPT ![m] = rebased.stopped]
  /\ base' = [base EXCEPT ![m] = Origin(m, rebased.stopped)]
  /\ local' = [local EXCEPT ![m] = IF rebased.stopped THEN @ ELSE rebased.local]

\* the pull of a cycle
Pull(m) ==
  /\ base[m] # remote
  /\ PullAs(m, Rebased(m))
  /\ UNCHANGED <<opts, remote, clock, edits, unstamped>>

\* accepted only on top of what the remote has
Push(m) ==
  /\ base[m] = remote /\ local[m] # <<>>
  /\ remote' = Tip(m) /\ base' = [base EXCEPT ![m] = Tip(m)]
  /\ local' = [local EXCEPT ![m] = <<>>]
  /\ UNCHANGED <<opts, blocked, clock, edits, unstamped>>

Next == \E m \in Machines :
          \/ \E note \in Saves(Tip(m), clock + 1) : EditAndCommit(m, note)
          \/ Pull(m) \/ Push(m)

Spec == Init /\ [][Next]_vars

-----------------------------------------------------------------------------
Versions == {remote} \cup {base[m] : m \in Machines} \cup {Tip(m) : m \in Machines}
OwnKeys == {"created", "modified"}
Others(note) == {note[i].id : i \in DOMAIN note} \ OwnKeys

\* The notes the theorems are about, which Apply, the merges and the resolver
\* keep as they are: a line that defines created or modified is called that,
\* so no scalar holds what reads like one; every other line is there once;
\* fences are the ends of a block, which begins the note.
Words == STRING \cup {"", "mark", "even", "odd", "open", "close", "gap", "created", "modified",
                      "title", "tag", "b1", "b2"}
Kinds == {"fence", "key", "text"}
NoteLines == [id : Words, kind : Kinds, key : Words, val : Int, quote : Words]
FineLines ==
  {l \in NoteLines : /\ l.kind = "key" /\ l.key \in OwnKeys <=> l.id \in OwnKeys
                     /\ l.kind = "fence" <=> l.id \in {"open", "close"}}
Unique(note) ==
  \A i, k \in DOMAIN note : note[i].id = note[k].id /\ note[i].id \notin OwnKeys => i = k
BlockIds == {"open", "close", "gap"}
Has(s, x) == \E k \in DOMAIN s : s[k] = x
Headed(note) ==
  IF Has(Ids(note), "open") THEN note[1].id = "open"
  ELSE \A i \in DOMAIN note : note[i].id \notin OwnKeys \cup BlockIds \cup {"tag"}
Regular(note) == note \in Seq(FineLines) /\ Unique(note) /\ Headed(note)
Dated(note, t) == \A i \in DOMAIN note : note[i].id \in Users => note[i].val <= t
Ordinary(note) == Regular(note) /\ Dated(note, 1)

\* What KeysAreUnique and CreatedNeverLater need besides: each own key is there
\* at most once, above all quotes that may be open and above the end of the
\* block, and has no time to come; neither the fence nor the paragraph that may
\* be deleted opens quotes, and the line that goes with a new block is below
\* its end.
Tidy(note) ==
  /\ \A i, k \in DOMAIN note : note[i].id = note[k].id => i = k
  /\ \A i \in DOMAIN note : note[i].id \in OwnKeys =>
       /\ note[i].key = note[i].id /\ note[i].val \in Junk..1
       /\ \A k \in 1..i : ~OddQuotes(note[k]) /\ note[k].id # "close"
  /\ \A i \in DOMAIN note : note[i].id \in {"open", "b1"} => ~OddQuotes(note[i])
  /\ \A i, k \in DOMAIN note : note[i].id = "gap" /\ note[k].id = "close" => k < i

\* no line was written after the time the note says it was modified, except at
\* these times
Current(note, except) ==
  \A i \in DOMAIN note :
    note[i].id \in Users /\ note[i].val > 0 /\ note[i].val \notin except
      => note[i].val <= ValueOf(note, "modified")

\* The options stay, the clock goes with the saves, versions are notes, and
\* nobody's commit is empty (syncer.go commit, gitx Rebase).
TypeOK ==
  /\ \E s \in Starts : opts = s.opts /\ edits \in Nat /\ clock = s.edits - edits + 1
  /\ remote \in Seq(NoteLines) /\ base \in [Machines -> Seq(NoteLines)]
  /\ local \in [Machines -> Seq(Seq(NoteLines))] /\ blocked \in [Machines -> BOOLEAN]
  /\ \A m \in Machines : \A i \in DOMAIN local[m] : local[m][i] # Before(m, i)
  /\ unstamped \subseteq Nat

\* Nobody is blocked by a remote that has not moved since its own history
\* left it: what the remote had once never comes back (gitx Rebase).
BlockedIsBehind == \A m \in Machines : blocked[m] => base[m] # remote

\* No note gets a second created or modified: an own key that is there is
\* found, wherever it is and whatever quotes come before it (frontmatter.go
\* findKey, and where Apply inserts).
KeysAreUnique ==
  \A note \in Versions, key \in OwnKeys : Cardinality(Said(note, key)) <= 1

\* The time a note says it was modified is not before any edit in it that was
\* stamped, after clean merges and resolved conflicts of any number of commits,
\* if both machines maintain it and agree on notes without frontmatter
\* (frontmatter.go Apply, conflict.go reconcile).  An edit that was committed
\* without its stamp (stamp.go:97-112, 144-155; syncer_test.go:372-397) is not in
\* modified before the next one that is stamped.
ModifiedIsOfLatestEdit ==
  (\A x, y \in Machines : opts[x].modified /\ opts[x].create = opts[y].create) =>
    \A note \in Versions : Close(note) # 0 => Current(note, unstamped)

\* A created that is there survives, whichever machine wrote it: a merge may
\* put an earlier one in its place, nothing a later one, and what is no time
\* stays (frontmatter.go:80, conflict.go:36).
NotLater(was, now) ==
  LET x == ValueOf(was, "created")
      y == ValueOf(now, "created")
  IN x = Empty \/ y = x \/ (Empty < y /\ y < x)
CreatedNeverLater ==
  [][NotLater(remote, remote') /\ \A m \in Machines : NotLater(Tip(m), Tip(m)')]_vars

\* A stamp changes created and modified and nothing else: of the lines the
\* note had, a save and its stamp change one, the user's (frontmatter.go).
StampsOnlyOwnKeys ==
  [][clock' # clock => \A m \in Machines :
       Cardinality({id \in Others(Tip(m)) : At(Tip(m), id)' # At(Tip(m), id)}) <= 1]_vars

\* A rebase that ends well has every line that either side wrote, changed or
\* deleted exactly as that side left it, and never one of the two that both
\* wrote differently (conflict.go, "a wrong projection would silently discard
\* one side's work").
NoEditLost ==
  [][\A m \in Machines : base[m]' # base[m] =>
       \A id \in Others(base[m]) \cup Others(remote) \cup Others(Tip(m)) :
         LET was == At(base[m], id)
             now == At(Tip(m)', id)
         IN /\ At(remote, id) # was => now = At(remote, id)
            /\ At(Tip(m), id) # was => now = At(Tip(m), id)]_vars

\* Timestamps alone block nobody: if a pull ends in a conflict, a commit of
\* this side conflicts with the other side without the timestamps, or one
\* touched another line of the frontmatter, or the note had none; given
\* machines that agree on what to stamp (conflict.go ResolveConflict).  But
\* they do where there are more commits than maxRebaseSteps (repo.go:172), and
\* behind a commit that only repeats what the remote has: its --skip must not
\* stop again (repo.go:204-206).
Bare(note) == SelectSeq(note, LAMBDA l : l.id \notin OwnKeys)
Matter(note) == SubSeq(Bare(note), 1, Close(Bare(note)))
Repeats(m, i) ==
  \A id \in Others(Before(m, i)) \cup Others(local[m][i]) :
    At(local[m][i], id) \in {At(Before(m, i), id), At(remote, id)}
BlocksOnlyOnRealConflicts ==
  [][\A m \in Machines : blocked[m]' /\ ~blocked[m] =>
       \/ \E note \in Range(local[m]) :
            \/ Merge(Bare(base[m]), Bare(remote), Bare(note), FALSE).clash
            \/ Matter(note) # Matter(base[m])
       \/ Matter(remote) # Matter(base[m])
       \/ Close(base[m]) = 0
       \/ Len(local[m]) > opts[m].steps
       \/ opts[m].stops /\ \E i \in DOMAIN local[m] : Repeats(m, i)
       \/ \E x, y \in Machines, k \in OwnKeys : opts[x][k] # opts[y][k]]_vars
=============================================================================
