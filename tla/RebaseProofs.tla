---------------------------- MODULE RebaseProofs ----------------------------
(* Theorems about Rebase, for every number of commits, paths and steps,    *)
(* every pattern of conflicts and every disturbance.                       *)
EXTENDS Rebase, FiniteSetTheorems, TLAPS

N == Len(local)

\* s is what has been replayed of the first k commits: in order, and all of
\* them but those left empty.
Picks(s, k) ==
  /\ s \in Seq(1..N)
  /\ \A i \in 1..Len(s) : s[i] <= k
  /\ \A i, j \in 1..Len(s) : i < j => s[i] < s[j]
  /\ \A c \in (1..k) \ dropped : \E i \in 1..Len(s) : s[i] = c

\* Of the first k commits, none needed the user.
Settled(c) == ~Real(c) /\ (Conflicts(c) # {} => enabled)
Clean(k) == \A c \in 1..k : Settled(c)

\* The case at hand.
CaseOK ==
  /\ local \in Seq(1..Commits) /\ N \in 0..Commits
  /\ clash \in [1..N -> [Paths -> Kinds]]
  /\ dropped \subseteq {c \in 1..N : ~Real(c)}
  /\ enabled \in BOOLEAN

\* What git holds while a rebase is in progress, and after it.
GitInv ==
  /\ rebasing => /\ next \in 1..(N + 1)
                 /\ Picks(picked, next - 1) /\ Clean(next - 1)
                 /\ ref = local /\ files = "between"
                 /\ unmerged # {} => next \in 1..N /\ unmerged = Conflicts(next)
  /\ files = "before" => ref = local
  /\ Completed => Picks(ref, N) /\ Clean(N)
  /\ lock \/ cancelled => disturbed

\* What each step of Rebase may rely on.
StepInv ==
  /\ pc = "start" => ~rebasing /\ files = "before" /\ picked = <<>> /\ unmerged = {}
  /\ pc \in {"git", "status", "resolve", "stage", "continue", "skip"} => rebasing
  /\ pc \in {"git", "continue"} => unmerged = {}
  /\ pc \in {"resolve", "stage", "continue"} => next \in 1..N
  /\ pc = "resolve" => \A p \in Conflicts(next) \ left : clash[next][p] = "stamps"
  /\ pc \in {"stage", "continue"} => ~Real(next) /\ enabled
  /\ pc = "skip" => err = "empty"
  /\ err = "empty" /\ pc \in {"loop", "status", "skip"} => rebasing /\ next \in dropped /\ enabled
  /\ pc \in {"status", "resolve", "stage", "skip", "abort"} => err # "nil"
  /\ pc = "loop" /\ err = "nil" => ~rebasing /\ files = "after"
  /\ outcome = "nil" => ~rebasing /\ files = "after"

RebaseInv == CaseOK /\ TypeOK /\ GitInv /\ StepInv

-----------------------------------------------------------------------------
(* Replaying commits.                                                      *)

\* Nothing has been replayed of nothing.
LEMMA PicksNone == Picks(<<>>, 0) /\ Clean(0)
  BY DEF Picks, Clean

\* The next commit is replayed.
LEMMA PicksOneMore ==
  ASSUME NEW s, NEW k \in 1..N, N \in Nat, Picks(s, k - 1)
  PROVE  Picks(Append(s, k), k)
<1> DEFINE t == Append(s, k)
<1>1. /\ s \in Seq(1..N) /\ Len(s) \in Nat
      /\ \A i \in 1..Len(s) : s[i] \in 1..N /\ s[i] <= k - 1
      /\ \A i, j \in 1..Len(s) : i < j => s[i] < s[j]
      /\ \A c \in (1..(k - 1)) \ dropped : \E i \in 1..Len(s) : s[i] = c
  BY DEF Picks
<1>2. /\ t \in Seq(1..N) /\ Len(t) = Len(s) + 1 /\ t[Len(s) + 1] = k
      /\ \A i \in 1..Len(s) : t[i] = s[i]
  BY <1>1
<1> HIDE DEF t
<1>3. \A i \in 1..Len(t) : i \in 1..Len(s) \/ i = Len(s) + 1
  BY <1>1, <1>2
<1>4. ASSUME NEW i \in 1..Len(t)  PROVE t[i] <= k
  <2>1. CASE i \in 1..Len(s)
    <3>1. t[i] = s[i] /\ s[i] \in Nat /\ s[i] <= k - 1
      BY <1>1, <1>2, <2>1
    <3> QED  BY <3>1
  <2>2. CASE i = Len(s) + 1
    BY <1>2, <2>2
  <2> QED  BY <1>3, <2>1, <2>2
<1>5. ASSUME NEW i \in 1..Len(t), NEW j \in 1..Len(t), i < j  PROVE t[i] < t[j]
  <2>1. i \in 1..Len(s)
    BY <1>1, <1>2, <1>5
  <2>2. CASE j \in 1..Len(s)
    BY <1>1, <1>2, <1>5, <2>1, <2>2
  <2>3. CASE j = Len(s) + 1
    BY <1>1, <1>2, <2>1, <2>3
  <2> QED  BY <1>3, <2>2, <2>3
<1>6. ASSUME NEW c \in (1..k) \ dropped  PROVE \E i \in 1..Len(t) : t[i] = c
  <2>1. CASE c = k
    BY <1>1, <1>2, <2>1
  <2>2. CASE c # k
    <3>1. c \in (1..(k - 1)) \ dropped
      BY <2>2
    <3>2. PICK i \in 1..Len(s) : s[i] = c
      BY <3>1, <1>1
    <3> QED  BY <3>2, <1>1, <1>2
  <2> QED  BY <2>1, <2>2
<1> QED  BY <1>2, <1>4, <1>5, <1>6 DEF Picks, t

\* A commit left empty is passed over.
LEMMA PicksAllButEmpty ==
  ASSUME NEW s, NEW k \in 1..N, N \in Nat, Picks(s, k - 1), k \in dropped
  PROVE  Picks(s, k)
<1>1. (1..k) \ dropped = (1..(k - 1)) \ dropped
  OBVIOUS
<1>2. \A i \in 1..Len(s) : s[i] \in Nat /\ s[i] <= k
  <2>1. s \in Seq(1..N) /\ \A i \in 1..Len(s) : s[i] <= k - 1
    BY DEF Picks
  <2> QED  BY <2>1
<1> QED  BY <1>1, <1>2 DEF Picks

\* One more commit needed nobody.
LEMMA CleanOneMore ==
  ASSUME NEW k \in Nat \ {0}, Clean(k - 1), Settled(k)
  PROVE  Clean(k)
  BY DEF Clean

-----------------------------------------------------------------------------
(* Every step keeps the invariant.                                         *)

\* Nothing changes the case.
LEMMA CaseStays == [Next]_vars => UNCHANGED case
  BY DEF Next, Run, GitRefuse, GitBegin, GitPick, GitStop, GitFinish, GitContinue, GitSkip,
         Loop, Status, Resolve, Stage, Abort, KilledByCancel, Timeout, Killed,
         Signal, OtherGit, Save, Same, vars, case

\* The operators on the case, when it does not change.
LEMMA CaseOperators ==
  ASSUME UNCHANGED case
  PROVE  /\ N' = N
         /\ \A c : Conflicts(c)' = Conflicts(c) /\ (Real(c)' <=> Real(c)) /\ (Settled(c)' <=> Settled(c))
         /\ \A k : Clean(k)' <=> Clean(k)
         /\ \A s, k : Picks(s, k)' <=> Picks(s, k)
  BY DEF case, N, Conflicts, Real, Settled, Clean, Picks

\* A step that leaves git and the context alone keeps what git holds.
LEMMA GitFrame ==
  ASSUME GitInv, UNCHANGED <<case, git, cancelled>>, disturbed => disturbed'
  PROVE  GitInv'
<1>1. UNCHANGED case
  OBVIOUS
<1> QED
  BY <1>1 DEF GitInv, git, Completed, case, N, Picks, Clean, Settled, Real, Conflicts

LEMMA RefuseHolds ==
  ASSUME RebaseInv, GitRefuse
  PROVE  TypeOK' /\ GitInv' /\ StepInv'
<1>1. UNCHANGED case
  BY DEF GitRefuse, Same
<1>2. TypeOK'
  BY DEF RebaseInv, GitRefuse, NoGit, git, Exit, TypeOK, PCs
<1>3. GitInv'
  BY <1>1, GitFrame DEF RebaseInv, GitRefuse, NoGit, Exit, Same
<1>4. StepInv'
  BY <1>1, CaseOperators DEF RebaseInv, GitRefuse, NoGit, git, Exit, Same, StepInv, TypeOK
<1> QED  BY <1>2, <1>3, <1>4

LEMMA BeginHolds ==
  ASSUME RebaseInv, GitBegin
  PROVE  TypeOK' /\ GitInv' /\ StepInv'
<1>1. UNCHANGED case
  BY DEF GitBegin, Same
<1>2. TypeOK'
  BY RebaseAssumption DEF RebaseInv, GitBegin, Goto, TypeOK, PCs
<1>3. N \in Nat /\ Picks(picked, 0) /\ Clean(0)
  BY PicksNone DEF RebaseInv, CaseOK, GitBegin, StepInv
<1>4. GitInv'
  <2>1. next' = 1 /\ next' \in 1..(N + 1) /\ next' - 1 = 0
    BY <1>3 DEF GitBegin
  <2>2. /\ picked' = picked /\ unmerged' = {} /\ ref' = local /\ files' = "between" /\ rebasing'
        /\ ~lock' /\ ~cancelled' /\ UNCHANGED disturbed
    BY DEF RebaseInv, GitBegin, Goto, Same, StepInv, GitInv
  <2>3. Picks(picked, 0)' /\ Clean(0)' /\ N' = N /\ local' = local
    BY <1>1, <1>3, <2>2, CaseOperators DEF case, Picks
  <2> QED  BY <1>3, <2>1, <2>2, <2>3 DEF GitInv, Completed
<1>5. StepInv'
  BY <1>1 DEF RebaseInv, GitBegin, Goto, StepInv, TypeOK
<1> QED  BY <1>2, <1>4, <1>5

\* What is left when no rebase is in progress.
LEMMA Emptied == <<>> \in Seq(1..Commits) /\ 0 \in 0..(Commits + 1) /\ 0 \in 0..MaxSteps
  BY RebaseAssumption

\* A stop leaves the conflicts of its commit.
LEMMA StopHolds ==
  ASSUME RebaseInv, GitStop
  PROVE  TypeOK' /\ GitInv' /\ StepInv'
<1>1. /\ UNCHANGED case /\ UNCHANGED <<ref, picked, next, rebasing, files, edited, lock, cancelled, disturbed>>
      /\ pc = "git"
  BY DEF GitStop, Same, Exit
<1>2. TypeOK'
  <2>1. Conflicts(next) \subseteq Paths
    BY DEF Conflicts
  <2> QED  BY <2>1 DEF RebaseInv, GitStop, Exit, TypeOK, PCs
<1>3. unmerged' # {} => next \in 1..N /\ unmerged' = Conflicts(next)
  <2>1. unmerged = {} /\ next \in 1..(N + 1) /\ N \in Nat
    BY <1>1 DEF RebaseInv, StepInv, GitInv, CaseOK
  <2>2. unmerged' # {} => next <= N /\ unmerged' = Conflicts(next)
    BY <2>1 DEF GitStop, N
  <2> QED  BY <2>1, <2>2
<1>4. GitInv'
  BY <1>1, <1>3, CaseOperators DEF RebaseInv, GitInv, Completed, case
<1>5. StepInv'
  BY <1>1 DEF RebaseInv, GitStop, Exit, StepInv, TypeOK
<1> QED  BY <1>2, <1>4, <1>5

\* A commit applies, is continued or passed over: the next one is up.
LEMMA OnwardHolds ==
  ASSUME RebaseInv, GitPick \/ GitContinue \/ GitSkip
  PROVE  TypeOK' /\ GitInv' /\ StepInv'
<1>0. /\ UNCHANGED <<ref, rebasing, files, lock, cancelled, case, disturbed>>
      /\ UNCHANGED case /\ unmerged' \in {unmerged, {}}
  BY DEF GitPick, GitContinue, GitSkip, Same, Goto, Exit, NoGit, git, code
<1>1. rebasing /\ N \in Nat /\ N <= Commits /\ Commits \in Nat /\ next \in 1..(N + 1)
      /\ local \in Seq(1..Commits) /\ Picks(picked, next - 1) /\ Clean(next - 1)
  BY RebaseAssumption DEF RebaseInv, CaseOK, StepInv, GitInv, GitPick, GitContinue, GitSkip
<1>2. dropped \subseteq 1..N /\ \A c \in dropped : ~Real(c)
  BY DEF RebaseInv, CaseOK
<1>3. \/ UNCHANGED <<picked, next, unmerged>>
      \/ /\ next \in 1..N /\ unmerged' = {} /\ next' = next + 1
         /\ Picks(picked', next) /\ Clean(next)
  <2>1. CASE GitPick
    <3>1. next \in 1..N /\ Conflicts(next) = {} /\ unmerged' = {}
      BY <1>0, <1>1, <2>1 DEF GitPick, N, RebaseInv, StepInv
    <3>2. Settled(next)
      BY <3>1 DEF Settled, Real, Conflicts
    <3>3. picked' = Append(picked, next) /\ next' = next + 1
      BY <2>1 DEF GitPick
    <3> QED  BY <1>1, <3>1, <3>2, <3>3, PicksOneMore, CleanOneMore
  <2>2. CASE GitContinue
    <3>1. /\ next \in 1..N /\ unmerged = {} /\ unmerged' = {} /\ Settled(next)
      BY <1>0, <2>2 DEF GitContinue, RebaseInv, StepInv, Settled
    <3>2. CASE picked' = Append(picked, next) /\ next' = next + 1
      BY <1>1, <3>1, <3>2, PicksOneMore, CleanOneMore
    <3>3. CASE next \in dropped /\ next' = next + 1 /\ UNCHANGED picked
      BY <1>1, <3>1, <3>3, PicksAllButEmpty, CleanOneMore
    <3> QED  BY <2>2, <3>1, <3>2, <3>3 DEF GitContinue
  <2>3. CASE GitSkip
    <3>1. next \in dropped /\ enabled
      BY <2>3 DEF GitSkip, RebaseInv, StepInv
    <3>2. next \in 1..N /\ Settled(next)
      BY <1>2, <3>1 DEF Settled
    <3>3. \/ UNCHANGED <<picked, next, unmerged>>
          \/ next' = next + 1 /\ UNCHANGED picked /\ unmerged' = {}
      BY <2>3 DEF GitSkip, NoGit, git
    <3>4. Picks(picked, next) /\ Clean(next)
      BY <1>1, <3>1, <3>2, PicksAllButEmpty, CleanOneMore
    <3> QED  BY <3>2, <3>3, <3>4
  <2> QED  BY <2>1, <2>2, <2>3
<1>4. TypeOK'
  <2>1. picked' \in Seq(1..Commits) /\ next' \in 0..(Commits + 1)
    <3>1. CASE UNCHANGED <<picked, next, unmerged>>
      BY <3>1 DEF RebaseInv, TypeOK
    <3>2. CASE next \in 1..N /\ next' = next + 1 /\ Picks(picked', next)
      <4>1. picked' \in Seq(1..N) /\ 1..N \subseteq 1..Commits
        BY <1>1, <3>2 DEF Picks
      <4> QED  BY <1>1, <3>2, <4>1
    <3> QED  BY <1>3, <3>1, <3>2
  <2>2. /\ unmerged' \subseteq Paths /\ edited' \in BOOLEAN
        /\ ref' \in Seq(1..Commits) /\ rebasing' \in BOOLEAN /\ lock' \in BOOLEAN
        /\ files' \in {"before", "between", "after"} /\ cancelled' \in BOOLEAN
    BY <1>0 DEF RebaseInv, TypeOK, GitPick, GitContinue, GitSkip, NoGit, git
  <2>3. /\ pc' \in PCs \ {"returned"} /\ steps' = steps /\ left' = left /\ outcome' = outcome
        /\ pc # "returned" /\ err' \in {"nil", "stop", "empty", "raw"}
    BY DEF RebaseInv, TypeOK, GitPick, GitContinue, GitSkip, Goto, Exit, code, PCs
  <2> QED  BY <2>1, <2>2, <2>3 DEF RebaseInv, TypeOK
<1>5. GitInv'
  <2>1. next' \in 1..(N + 1) /\ Picks(picked', next' - 1) /\ Clean(next' - 1)
        /\ (unmerged' # {} => next' \in 1..N /\ unmerged' = Conflicts(next'))
    <3>1. CASE UNCHANGED <<picked, next, unmerged>>
      BY <1>1, <3>1 DEF RebaseInv, GitInv
    <3>2. CASE next \in 1..N /\ unmerged' = {} /\ next' = next + 1 /\ Picks(picked', next) /\ Clean(next)
      BY <1>1, <3>2
    <3> QED  BY <1>3, <3>1, <3>2
  <2>2. ref = local /\ files = "between"
    BY <1>1 DEF RebaseInv, GitInv
  <2>3. N' = N /\ local' = local /\ Conflicts(next)' = Conflicts(next')
    BY <1>0 DEF case, N, Conflicts
  <2>4. Picks(picked, next - 1)'
    BY <1>0, <2>1 DEF case, N, Picks
  <2>5. Clean(next - 1)'
    <3>1. \A c : Settled(c)' <=> Settled(c)
      BY <1>0, CaseOperators
    <3> QED  BY <2>1, <3>1 DEF Clean
  <2> QED  BY <1>0, <1>1, <2>1, <2>2, <2>3, <2>4, <2>5 DEF RebaseInv, GitInv, Completed
<1>6. StepInv'
  <2>1. CASE GitPick
    BY <1>0, <1>1, <2>1, CaseOperators DEF RebaseInv, GitPick, StepInv, code, case, TypeOK
  <2>2. CASE GitContinue
    BY <1>0, <1>1, <2>2, CaseOperators DEF RebaseInv, GitContinue, StepInv, Goto, Exit, case, TypeOK
  <2>3. CASE GitSkip
    BY <1>0, <1>1, <2>3, CaseOperators DEF RebaseInv, GitSkip, StepInv, Goto, NoGit, git, case, TypeOK
  <2> QED  BY <2>1, <2>2, <2>3
<1> QED  BY <1>4, <1>5, <1>6

\* The end of the rebase: everything has been replayed.
LEMMA CompleteHolds ==
  ASSUME RebaseInv, pc = "git", Complete, files' \in {"between", "after"},
         UNCHANGED <<case, cancelled>>, disturbed => disturbed',
         lock' => disturbed'
  PROVE  GitInv' /\ Picks(ref', N)
<1>1. UNCHANGED case
  OBVIOUS
<1>2. rebasing /\ next = N + 1 /\ N \in Nat
  BY DEF Complete, RebaseInv, StepInv, GitInv, CaseOK, N
<1>3. Picks(picked, N) /\ Clean(N)
  <2>1. next - 1 = N
    BY <1>2
  <2> QED  BY <1>2, <2>1 DEF RebaseInv, GitInv
<1>4. ref' = picked /\ ~rebasing'
  BY DEF Complete
<1>5. Picks(ref, N)' /\ Clean(N)'
  <2>1. Picks(ref, N)'
    BY <1>1, <1>3, <1>4 DEF case, N, Picks
  <2>2. \A c : Settled(c)' <=> Settled(c)
    BY <1>1, CaseOperators
  <2>3. Clean(N)'
    BY <1>1, <1>3, <2>2 DEF case, N, Clean
  <2> QED  BY <2>1, <2>3
<1> QED  BY <1>1, <1>3, <1>4, <1>5 DEF RebaseInv, GitInv, Completed

LEMMA FinishHolds ==
  ASSUME RebaseInv, GitFinish
  PROVE  TypeOK' /\ GitInv' /\ StepInv'
<1>1. /\ UNCHANGED <<case, cancelled, disturbed, lock, edited, steps, left, outcome>> /\ UNCHANGED case
      /\ files' = "after" /\ pc = "git" /\ Complete /\ err' = "nil" /\ pc' = "loop"
      /\ unmerged' \subseteq Paths /\ ref' = picked /\ picked' = <<>> /\ next' = 0 /\ ~rebasing'
      /\ rebasing' \in BOOLEAN
  BY DEF GitFinish, Complete, Exit, Same
<1>2. TypeOK'
  BY <1>1, Emptied DEF RebaseInv, TypeOK, PCs
<1>3. GitInv'
  BY <1>1, CompleteHolds DEF RebaseInv, GitInv
<1>4. StepInv'
  BY <1>1 DEF RebaseInv, StepInv, TypeOK
<1> QED  BY <1>2, <1>3, <1>4

\* git is killed: somewhere on the way, or at the end.
LEMMA KilledHolds ==
  ASSUME RebaseInv, Killed, UNCHANGED <<case, skipped>>, disturbed'
  PROVE  TypeOK' /\ GitInv' /\ StepInv'
<1>1. /\ UNCHANGED case /\ UNCHANGED <<edited, cancelled, steps, left, outcome>>
      /\ pc = "git" /\ err' = "raw" /\ pc' \in {"loop", "abort"} /\ lock' \in {lock, TRUE}
  BY DEF Killed, Exit, Complete
<1>2. CASE Complete /\ files' = "between"
  <2>1. /\ unmerged' \subseteq Paths /\ ref' = picked /\ picked' = <<>> /\ next' = 0 /\ ~rebasing'
        /\ rebasing' \in BOOLEAN
    BY <1>2 DEF Complete
  <2>2. TypeOK'
    BY <1>1, <1>2, <2>1, Emptied DEF RebaseInv, TypeOK, PCs
  <2>3. GitInv'
    BY <1>1, <1>2, CompleteHolds
  <2>4. StepInv'
    BY <1>1, <2>1 DEF RebaseInv, StepInv, TypeOK
  <2> QED  BY <2>2, <2>3, <2>4
<1>3. CASE UNCHANGED <<ref, picked, next, rebasing, unmerged, files, edited>>
  <2>1. TypeOK'
    BY <1>1, <1>3 DEF RebaseInv, TypeOK, PCs
  <2>2. GitInv'
    BY <1>1, <1>3 DEF RebaseInv, GitInv, Completed, case, N, Picks, Clean, Settled, Real, Conflicts
  <2>3. StepInv'
    BY <1>1, <1>3 DEF RebaseInv, StepInv, TypeOK
  <2> QED  BY <2>1, <2>2, <2>3
<1> QED  BY <1>2, <1>3 DEF Killed

\* The loop, the questions it asks and the resolver leave git alone.
LEMMA AskHolds ==
  ASSUME RebaseInv, Loop \/ Status \/ Resolve
  PROVE  TypeOK' /\ GitInv' /\ StepInv'
<1>1. UNCHANGED <<case, git, cancelled, disturbed>> /\ UNCHANGED case /\ UNCHANGED git
  BY DEF Loop, Status, Resolve, Goto, Return, Same, NoGit
<1>2. TypeOK'
  <2>1. CASE Loop
    BY RebaseAssumption, <1>1, <2>1 DEF RebaseInv, TypeOK, Loop, Goto, Return, git, PCs
  <2>2. CASE Status
    BY <1>1, <2>2 DEF RebaseInv, TypeOK, Status, Goto, git, PCs
  <2>3. CASE Resolve
    BY <1>1, <2>3 DEF RebaseInv, TypeOK, Resolve, Goto, git, PCs
  <2> QED  BY <2>1, <2>2, <2>3
<1>3. GitInv'
  BY <1>1, GitFrame DEF RebaseInv
<1>4. StepInv'
  <2>1. Conflicts(next)' = Conflicts(next) /\ (Real(next)' <=> Real(next))
    BY <1>1 DEF case, git, Conflicts, Real
  <2>2. CASE Loop
    BY <1>1, <2>1, <2>2 DEF RebaseInv, StepInv, TypeOK, Loop, Goto, Return, git, case
  <2>3. CASE Status
    <3>1. pc' = "resolve" =>
            /\ next \in 1..N /\ left' = Conflicts(next)
      BY <2>3 DEF Status, Goto, RebaseInv, StepInv, GitInv
    <3>2. next \in 1..N => next' \in 1..N'
      BY <1>1 DEF git, case, N
    <3> QED  BY <1>1, <2>1, <2>3, <3>1, <3>2 DEF RebaseInv, StepInv, TypeOK, Status, Goto, git, case
  <2>4. CASE Resolve
    <3>1. next \in 1..N /\ next' \in 1..N' /\ UNCHANGED <<clash, next, enabled, err, outcome, rebasing, files>>
      BY <1>1, <2>4 DEF RebaseInv, StepInv, Resolve, Goto, git, case, N
    <3>2. \/ pc' = "abort"
          \/ pc' = "stage" /\ enabled /\ left = {}
          \/ pc' = "resolve" /\ \E p \in left : clash[next][p] = "stamps" /\ left' = left \ {p}
      BY <2>4 DEF Resolve, Goto
    <3>3. \A p \in Conflicts(next) \ left : clash[next][p] = "stamps"
      BY <2>4 DEF RebaseInv, StepInv, Resolve
    <3>4. pc' = "stage" => ~Real(next)
      BY <3>2, <3>3 DEF Real, Conflicts
    <3>5. pc' = "resolve" => \A p \in Conflicts(next) \ left' : clash[next][p] = "stamps"
      BY <3>2, <3>3
    <3>6. pc = "resolve" /\ pc' \in {"abort", "stage", "resolve"} /\ rebasing /\ err # "nil" /\ outcome # "nil"
      BY <2>4, <3>2 DEF Resolve, RebaseInv, StepInv, TypeOK
    <3> QED  BY <2>1, <3>1, <3>2, <3>4, <3>5, <3>6 DEF StepInv
  <2> QED  BY <2>2, <2>3, <2>4
<1> QED  BY <1>2, <1>3, <1>4

LEMMA StageHolds ==
  ASSUME RebaseInv, Stage
  PROVE  TypeOK' /\ GitInv' /\ StepInv'
<1>1. /\ UNCHANGED case /\ UNCHANGED <<ref, picked, next, rebasing, files, edited, lock, cancelled, disturbed>>
      /\ UNCHANGED <<steps, err, left, outcome>> /\ unmerged' \in {unmerged, {}} /\ pc = "stage"
      /\ (pc' = "abort" \/ (pc' = "continue" /\ unmerged' = {}))
  BY DEF Stage, Same, Goto
<1>2. TypeOK'
  BY <1>1 DEF RebaseInv, TypeOK, PCs
<1>3. GitInv'
  BY <1>1 DEF RebaseInv, GitInv, Completed, case, N, Picks, Clean, Settled, Real, Conflicts
<1>4. StepInv'
  BY <1>1 DEF RebaseInv, StepInv, TypeOK, case, N, Real
<1> QED  BY <1>2, <1>3, <1>4

LEMMA AbortHolds ==
  ASSUME RebaseInv, Abort
  PROVE  TypeOK' /\ GitInv' /\ StepInv'
<1>1. /\ UNCHANGED case /\ UNCHANGED <<ref, edited, lock, cancelled, disturbed, steps, err, left>>
      /\ pc = "abort" /\ pc' = "returned" /\ outcome' = "conflict"
      /\ \/ UNCHANGED git
         \/ /\ rebasing /\ rebasing' = FALSE /\ picked' = <<>> /\ next' = 0 /\ unmerged' = {}
            /\ files' = "before"
  BY DEF Abort, Same, Return, NoGit, git
<1>2. TypeOK'
  BY <1>1, Emptied DEF RebaseInv, TypeOK, PCs, git
<1>3. GitInv'
  <2>1. CASE UNCHANGED git
    BY <1>1, <2>1, GitFrame DEF RebaseInv
  <2>2. CASE rebasing /\ ~rebasing' /\ files' = "before"
    BY <1>1, <2>2 DEF RebaseInv, GitInv, Completed, case
  <2> QED  BY <1>1, <2>1, <2>2
<1>4. StepInv'
  BY <1>1 DEF RebaseInv, StepInv
<1> QED  BY <1>2, <1>3, <1>4

LEMMA EnvironmentHolds ==
  ASSUME RebaseInv, Timeout \/ Signal \/ OtherGit \/ Save
  PROVE  TypeOK' /\ GitInv' /\ StepInv'
<1>1. UNCHANGED case
  BY CaseStays DEF Next
<1>2. CASE Timeout /\ Killed
  BY <1>2, KilledHolds DEF Timeout
<1>3. CASE Timeout /\ ~Killed
  <2>1. /\ UNCHANGED git /\ UNCHANGED <<case, cancelled, err, steps, left>> /\ disturbed' = TRUE
        /\ \/ pc = "loop" /\ err # "nil" /\ pc' = "returned" /\ outcome' = "raw"
           \/ pc \in {"status", "stage"} /\ pc' = "abort" /\ outcome' = outcome
           \/ pc = "abort" /\ pc' = "returned" /\ outcome' = "conflict"
    BY <1>1, <1>3 DEF Timeout, Return, Goto, NoGit
  <2>2. TypeOK'
    BY <2>1 DEF RebaseInv, TypeOK, PCs, git
  <2>3. GitInv'
    BY <1>1, <2>1, GitFrame DEF RebaseInv
  <2>4. StepInv'
    BY <2>1 DEF RebaseInv, StepInv, TypeOK, git
  <2> QED  BY <2>2, <2>3, <2>4
<1>4. CASE Signal \/ OtherGit \/ Save
  <2>1. /\ UNCHANGED <<ref, picked, next, rebasing, unmerged, files, pc, steps, err, left, outcome>>
        /\ lock' \in BOOLEAN /\ edited' \in BOOLEAN /\ cancelled' \in BOOLEAN
        /\ \/ disturbed'
           \/ UNCHANGED <<lock, cancelled, disturbed>>
    BY <1>4 DEF Signal, OtherGit, Save, git, code, RebaseInv, TypeOK
  <2>2. TypeOK'
    BY <2>1 DEF RebaseInv, TypeOK
  <2>3. GitInv'
    BY <1>1, <2>1 DEF RebaseInv, GitInv, Completed, case, N, Picks, Clean, Settled, Real, Conflicts
  <2>4. StepInv'
    BY <1>1, <2>1 DEF RebaseInv, StepInv, case, N, Real, Conflicts
  <2> QED  BY <2>2, <2>3, <2>4
<1> QED  BY <1>2, <1>3, <1>4

\* The inductive invariant of the loop: what has been replayed, in order and
\* without a conflict that needed the user, and what each step may rely on.
THEOREM RebaseInvariant == Spec => []RebaseInv
<1>1. Init => RebaseInv
  <2> SUFFICES ASSUME Init  PROVE RebaseInv
    OBVIOUS
  <2>1. PICK n \in 0..Commits : local = [i \in 1..n |-> i]
    BY DEF Init
  <2>2. local \in Seq(1..Commits) /\ N = n
    BY RebaseAssumption, <2>1 DEF N
  <2>3. CaseOK
    BY <2>2 DEF Init, CaseOK, N
  <2>4. TypeOK
    BY Emptied, <2>2 DEF Init, TypeOK, PCs
  <2>5. GitInv
    BY DEF Init, GitInv, Completed
  <2>6. StepInv
    BY DEF Init, StepInv
  <2> QED  BY <2>3, <2>4, <2>5, <2>6 DEF RebaseInv
<1>2. RebaseInv /\ [Next]_vars => RebaseInv'
  <2> SUFFICES ASSUME RebaseInv, [Next]_vars  PROVE RebaseInv'
    OBVIOUS
  <2>1. CaseOK'
    BY CaseStays DEF RebaseInv, CaseOK, case, N, Real, Conflicts
  <2>2. CASE KilledByCancel
    <3>1. disturbed' /\ Killed /\ UNCHANGED <<case, skipped>>
      BY <2>2 DEF KilledByCancel, Same, RebaseInv, GitInv
    <3> QED  BY <2>1, <3>1, KilledHolds DEF RebaseInv
  <2>3. CASE UNCHANGED vars
    <3>1. UNCHANGED <<case, git, cancelled, disturbed>> /\ UNCHANGED case /\ UNCHANGED git /\ UNCHANGED code
      BY <2>3 DEF vars, code
    <3>2. TypeOK'
      BY <3>1 DEF RebaseInv, TypeOK, git, code
    <3>3. StepInv'
      BY <3>1 DEF RebaseInv, StepInv, git, code, case, N, Real, Conflicts
    <3> QED  BY <2>1, <3>1, <3>2, <3>3, GitFrame DEF RebaseInv
  <2> QED
    BY <2>1, <2>2, <2>3, RefuseHolds, BeginHolds, StopHolds, OnwardHolds, FinishHolds, AskHolds,
       StageHolds, AbortHolds, EnvironmentHolds
    DEF Next, Run, RebaseInv
<1> QED  BY <1>1, <1>2, PTL DEF Spec

-----------------------------------------------------------------------------
(* The refinement.                                                         *)

\* The result and the files as the caller sees them.
Files == IF Result = "pending" THEN "before" ELSE files

\* While a call runs and a rebase is in progress, or nothing has been touched
\* yet, the caller sees nothing.
LEMMA ResultPending ==
  ASSUME outcome = "pending", ~Completed
  PROVE  Result = "pending" /\ Files = "before"
  BY DEF Result, Files

\* Once git is through, the rest of the call decides nothing any more.
LEMMA ResultDecided ==
  ASSUME RebaseInv, outcome = "pending", Completed
  PROVE  /\ pc \in {"loop", "abort"} /\ (pc = "abort" => err # "nil")
         /\ Result = IF err = "nil" THEN "nil"
                     ELSE IF pc = "abort" \/ steps = MaxSteps THEN "conflict" ELSE "raw"
         /\ Result # "pending" /\ Files = files
<1>1. pc \in {"loop", "abort"} /\ (pc = "abort" => err # "nil")
  BY DEF RebaseInv, StepInv, TypeOK, PCs, Completed
<1> QED  BY <1>1 DEF Result, Files

LEMMA ResultReturned ==
  ASSUME outcome # "pending"
  PROVE  Result = outcome /\ Files = files
  BY DEF Result, Files

\* What has been replayed at the end is worth keeping.
LEMMA PicksAreWorth ==
  ASSUME NEW s, Picks(s, N)
  PROVE  Atomic!Worth(s)
  BY DEF Picks, Atomic!Worth, N

\* A step the caller does not see.
LEMMA StepUnseen ==
  ASSUME UNCHANGED <<local, dropped, ref, disturbed>>, Result' = Result, Files' = Files
  PROVE  UNCHANGED Atomic!avars
  BY DEF Atomic!avars, Files

\* A step of which the caller sees at most that something got in the way.
LEMMA StepDisturbs ==
  ASSUME UNCHANGED <<local, dropped, ref>>, disturbed' = TRUE, Result' = Result, Files' = Files
  PROVE  Atomic!ANext
  BY DEF Atomic!ANext, Atomic!Disturb, Files

\* A call that gives up before or after git has touched anything.
LEMMA StepGivesUp ==
  ASSUME UNCHANGED <<local, dropped>>, Result = "pending", Result' \in {"conflict", "raw"},
         disturbed' \in {disturbed, TRUE},
         \/ ref' = ref /\ files' = "before"
         \/ (ref' = ref \/ Picks(ref', N)) /\ files' = "between" /\ disturbed' = TRUE
  PROVE  Atomic!ANext
<1>1. Files = "before" /\ Files' = files'
  BY DEF Files
<1>2. CASE ref' = ref /\ files' = "before"
  BY <1>1, <1>2 DEF Atomic!ANext, Atomic!Refuse, Atomic!Pending, Files
<1>3. CASE (ref' = ref \/ Picks(ref', N)) /\ files' = "between" /\ disturbed' = TRUE
  BY <1>1, <1>3, PicksAreWorth DEF Atomic!ANext, Atomic!GiveUp, Atomic!Pending, Files
<1> QED  BY <1>2, <1>3

LEMMA KilledRefines ==
  ASSUME RebaseInv, RebaseInv', Killed, UNCHANGED case, disturbed' = TRUE
  PROVE  Atomic!ANext
<1>1. /\ pc = "git" /\ rebasing /\ outcome = "pending" /\ outcome' = "pending" /\ err' = "raw"
      /\ UNCHANGED <<local, dropped>>
  BY DEF Killed, Exit, Complete, RebaseInv, StepInv, TypeOK, case
<1>2. Result = "pending" /\ Files = "before"
  BY <1>1, ResultPending DEF Completed
<1>3. CASE Complete /\ files' = "between"
  <2>1. Completed' /\ Result' \in {"conflict", "raw"}
    BY <1>1, <1>3 DEF Complete, Completed, Result
  <2>2. Picks(ref', N)
    <3>1. lock' => disturbed'
      OBVIOUS
    <3>2. UNCHANGED <<case, cancelled>>
      BY DEF Killed, Exit
    <3> QED  BY <1>1, <1>3, <3>1, <3>2, CompleteHolds
  <2> QED  BY <1>1, <1>2, <1>3, <2>1, <2>2, StepGivesUp
<1>4. CASE UNCHANGED <<ref, picked, next, rebasing, unmerged, files, edited>>
  <2>1. Result' = "pending" /\ Files' = "before"
    BY <1>1, <1>4 DEF Completed, Result, Files
  <2> QED  BY <1>1, <1>2, <1>4, <2>1, StepDisturbs
<1> QED  BY <1>3, <1>4 DEF Killed

LEMMA StepRefines ==
  ASSUME RebaseInv, RebaseInv', [Next]_vars
  PROVE  [Atomic!ANext]_(Atomic!avars)
<1>0. UNCHANGED case /\ UNCHANGED <<local, dropped>>
  BY CaseStays DEF case
<1>1. CASE GitRefuse \/ GitBegin \/ GitPick \/ GitStop \/ GitContinue \/ GitSkip
           \/ Status \/ Resolve \/ Stage \/ Save
  <2>1. outcome = "pending" /\ outcome' = "pending" /\ UNCHANGED <<ref, disturbed>>
    BY <1>1 DEF GitRefuse, GitBegin, GitPick, GitStop, GitContinue, GitSkip, Status, Resolve, Stage,
                Save, Goto, Exit, Same, NoGit, git, code, RebaseInv, TypeOK
  <2>2. ~Completed
    BY <1>1 DEF GitRefuse, GitBegin, GitPick, GitStop, GitContinue, GitSkip, Status, Resolve, Stage,
                Save, RebaseInv, StepInv, Completed
  <2>3. ~Completed'
    BY <1>1, <2>2 DEF GitRefuse, GitBegin, GitPick, GitStop, GitContinue, GitSkip, Status, Resolve,
                Stage, Save, Goto, Exit, Same, NoGit, git, Completed
  <2>4. Result = "pending" /\ Files = "before" /\ Result' = "pending" /\ Files' = "before"
    BY <2>1, <2>2, <2>3 DEF Result, Files
  <2> QED  BY <1>0, <2>1, <2>4, StepUnseen
<1>2. CASE GitFinish
  <2>1. /\ outcome = "pending" /\ outcome' = "pending" /\ ~Completed /\ Completed'
        /\ err' = "nil" /\ files' = "after" /\ UNCHANGED disturbed /\ Complete /\ pc = "git"
    BY <1>2 DEF GitFinish, Complete, Exit, Same, RebaseInv, StepInv, TypeOK, Completed
  <2>2. Result = "pending" /\ Result' = "nil"
    BY <2>1 DEF Result
  <2>3. Picks(ref', N)
    <3>1. UNCHANGED <<case, cancelled>> /\ (lock' => disturbed')
      BY <1>2 DEF GitFinish, Exit, Same, RebaseInv, GitInv
    <3> QED  BY <2>1, <3>1, CompleteHolds
  <2>4. Atomic!Worth(ref')
    BY <2>3, PicksAreWorth
  <2>5. Atomic!Replay
    BY <1>0, <2>1, <2>2, <2>4 DEF Atomic!Replay, Atomic!Pending
  <2> QED  BY <2>5 DEF Atomic!ANext
<1>3. CASE Loop
  <2>1. UNCHANGED git /\ UNCHANGED <<ref, files, rebasing, disturbed, lock, err>> /\ outcome = "pending"
        /\ pc = "loop" /\ (Completed' <=> Completed)
    BY <1>3 DEF Loop, NoGit, git, Same, Goto, Return, RebaseInv, TypeOK, Completed
  <2>2. CASE Completed
    <3>0. /\ Result # "pending"
          /\ Result = IF err = "nil" THEN "nil" ELSE IF steps = MaxSteps THEN "conflict" ELSE "raw"
      BY <2>1, <2>2, ResultDecided
    <3>1. Result' = Result /\ Result # "pending"
      <4>1. CASE err = "nil" /\ outcome' = "nil"
        BY <4>1, <3>0 DEF Result
      <4>2. CASE err # "nil" /\ steps = MaxSteps /\ pc' = "abort" /\ outcome' = outcome
        BY <4>2, <2>1, <2>2, <3>0 DEF Result
      <4>3. CASE err # "nil" /\ steps # MaxSteps /\ outcome' = "raw"
        BY <4>3, <3>0 DEF Result
      <4>4. ~rebasing /\ steps <= MaxSteps
        BY <2>2, RebaseAssumption DEF Completed, RebaseInv, TypeOK
      <4> QED  BY <1>3, <4>1, <4>2, <4>3, <4>4, RebaseAssumption DEF Loop, Goto, Return
    <3>2. Files' = Files
      BY <2>1, <3>1 DEF Files
    <3> QED  BY <1>0, <2>1, <3>1, <3>2, StepUnseen
  <2>3. CASE ~Completed /\ outcome' = "pending"
    <3>1. Result' = Result /\ Files' = Files
      BY <2>1, <2>3 DEF Result, Files
    <3> QED  BY <1>0, <2>1, <3>1, StepUnseen
  <2>4. CASE ~Completed /\ outcome' # "pending"
    <3>1. outcome' = "raw" /\ (cancelled \/ ~rebasing)
      BY <1>3, <2>4, <2>1 DEF Loop, Goto, Return, RebaseInv, StepInv, Completed
    <3>2. Result = "pending" /\ Result' = "raw"
      BY <2>1, <2>4, <3>1 DEF Result
    <3>3. \/ files' = "before"
          \/ files' = "between" /\ disturbed' = TRUE
      BY <2>1, <2>4, <3>1 DEF RebaseInv, GitInv, Completed
    <3>4. disturbed' = disturbed
      BY <2>1
    <3> QED  BY <1>0, <2>1, <3>2, <3>3, <3>4, StepGivesUp
  <2> QED  BY <2>2, <2>3, <2>4
<1>4. CASE Abort \/ (Timeout /\ pc = "abort")
  <2>1. /\ pc = "abort" /\ outcome = "pending" /\ outcome' = "conflict" /\ ref' = ref
        /\ disturbed' \in {disturbed, TRUE} /\ err # "nil"
        /\ \/ files' = files /\ (~rebasing \/ disturbed' = TRUE)
           \/ rebasing /\ files' = "before"
    BY <1>4 DEF Abort, Timeout, Killed, Return, Goto, NoGit, git, Same, RebaseInv, StepInv, GitInv, TypeOK
  <2>2. CASE Completed
    <3>1. Result = "conflict" /\ Result' = "conflict" /\ files' = files
      BY <2>1, <2>2 DEF Result, Completed
    <3>2. Files' = Files
      BY <3>1 DEF Files
    <3>3. CASE disturbed' = disturbed
      BY <1>0, <2>1, <3>1, <3>2, <3>3, StepUnseen
    <3>4. CASE disturbed' = TRUE
      BY <1>0, <2>1, <3>1, <3>2, <3>4, StepDisturbs
    <3> QED  BY <2>1, <3>3, <3>4
  <2>3. CASE ~Completed
    <3>1. Result = "pending" /\ Result' = "conflict"
      BY <2>1, <2>3 DEF Result
    <3>2. \/ files' = "before"
          \/ files' = "between" /\ disturbed' = TRUE
      BY <2>1, <2>3 DEF RebaseInv, GitInv, Completed
    <3> QED  BY <1>0, <2>1, <3>1, <3>2, StepGivesUp
  <2> QED  BY <2>2, <2>3
<1>5. CASE KilledByCancel \/ (Timeout /\ Killed)
  <2>1. Killed /\ disturbed' = TRUE
    BY <1>5 DEF KilledByCancel, Timeout, Same, RebaseInv, GitInv, TypeOK
  <2> QED  BY <1>0, <2>1, KilledRefines
<1>6. CASE Timeout /\ ~Killed /\ pc # "abort"
  <2>1. /\ UNCHANGED <<ref, files, rebasing, err, steps>> /\ disturbed' = TRUE /\ outcome = "pending"
        /\ \/ pc \in {"status", "stage"} /\ outcome' = outcome
           \/ pc = "loop" /\ err # "nil" /\ steps < MaxSteps /\ outcome' = "raw"
    BY <1>6 DEF Timeout, Return, Goto, NoGit, git, RebaseInv, TypeOK
  <2>2. CASE pc \in {"status", "stage"}
    <3>1. Result = "pending" /\ Result' = "pending"
      BY <2>1, <2>2 DEF RebaseInv, StepInv, Completed, Result
    <3> QED  BY <1>0, <2>1, <3>1, StepDisturbs DEF Files
  <2>3. CASE pc = "loop" /\ Completed
    <3>1. Result = "raw" /\ Result' = "raw"
      BY <2>1, <2>3, RebaseAssumption DEF Result, RebaseInv, TypeOK
    <3> QED  BY <1>0, <2>1, <3>1, StepDisturbs DEF Files
  <2>4. CASE pc = "loop" /\ ~Completed
    <3>1. Result = "pending" /\ Result' = "raw"
      BY <2>1, <2>4 DEF Result
    <3>2. files' \in {"before", "between"}
      BY <2>1, <2>4 DEF RebaseInv, GitInv, Completed
    <3> QED  BY <1>0, <2>1, <3>1, <3>2, StepGivesUp
  <2> QED  BY <2>1, <2>2, <2>3, <2>4
<1>7. CASE Signal \/ OtherGit
  <2>1. /\ UNCHANGED <<ref, files, rebasing, err, steps, pc, outcome>> /\ disturbed' = TRUE
    BY <1>7 DEF Signal, OtherGit, git, code
  <2>2. Result' = Result /\ Files' = Files
    BY <2>1 DEF Result, Files, Completed
  <2> QED  BY <1>0, <2>1, <2>2, StepDisturbs
<1>8. CASE UNCHANGED vars
  <2>1. Result' = Result /\ Files' = Files /\ UNCHANGED <<ref, disturbed>>
    BY <1>8 DEF vars, git, code, Result, Files, Completed
  <2> QED  BY <1>0, <2>1, StepUnseen
<1> QED
  BY <1>1, <1>2, <1>3, <1>4, <1>5, <1>6, <1>7, <1>8 DEF Next, Run

-----------------------------------------------------------------------------
(* The theorems.                                                           *)

\* Rebase is all or nothing, whatever it is stopped, failed or killed by, and
\* only a call that was disturbed leaves the files in between (repo.go Rebase).
THEOREM RefinesAtomicRebase == Spec => ImplementsAtomic
<1>1. Init => Atomic!AInit
  <2> SUFFICES ASSUME Init  PROVE Atomic!AInit
    OBVIOUS
  <2>1. Result = "pending" /\ Files = "before"
    BY DEF Init, Result, Files, Completed
  <2> QED  BY <2>1 DEF Init, Atomic!AInit
<1>2. RebaseInv /\ RebaseInv' /\ [Next]_vars => [Atomic!ANext]_(Atomic!avars)
  BY StepRefines
<1> QED  BY <1>1, <1>2, RebaseInvariant, PTL DEF Spec, ImplementsAtomic, Atomic!ASpec

\* Type correctness of the rebase; steps stays within maxRebaseSteps.
THEOREM RebaseTypeCorrect == Spec => []TypeOK
<1>1. RebaseInv => TypeOK
  BY DEF RebaseInv
<1> QED  BY <1>1, RebaseInvariant, PTL

\* A rebase that succeeds has replayed no commit that needed the user, for any
\* number of commits and paths (conflict.go resolveTimestamps).
THEOREM RealConflictsAreAlwaysLeft == Spec => []RealConflictsAreLeft
<1>1. RebaseInv => RealConflictsAreLeft
  <2> SUFFICES ASSUME RebaseInv, outcome = "nil", NEW c \in 1..Len(local)
               PROVE  ~Real(c) /\ (Conflicts(c) # {} => enabled)
    BY DEF RealConflictsAreLeft
  <2>1. Clean(N)
    BY DEF RebaseInv, StepInv, GitInv, Completed
  <2> QED  BY <2>1 DEF Clean, Settled, N
<1> QED  BY <1>1, RebaseInvariant, PTL

-----------------------------------------------------------------------------
(* Giving up.                                                              *)

\* The stops among the first k commits that no patch of git's can avoid.
Stops(k) == {c \in 1..k : c <= N /\ Conflicts(c) # {}}

\* Nothing is in the way of this call but timestamps, and they fit the bound.
Smooth ==
  /\ enabled /\ ~disturbed /\ ~edited /\ ~skipped
  /\ \A c \in 1..N : ~Real(c)
  /\ Cardinality(Stops(N)) + Cardinality(dropped) <= MaxSteps

\* Then every pass of the loop has taken a conflicting commit with it, and one
\* that has become empty is the last before the `--skip`.
PatienceInv ==
  Smooth =>
    /\ pc \in {"start", "git", "loop", "status", "resolve", "stage", "continue", "skip", "returned"}
    /\ outcome # "conflict"
    /\ pc = "start" => steps = 0
    /\ pc = "git" => steps <= Cardinality(Stops(next - 1))
    /\ pc = "loop" => \/ err = "nil"
                      \/ err = "raw" /\ ~rebasing /\ steps = 0
                      \/ /\ err = "stop" /\ rebasing /\ next \in Stops(N) /\ unmerged # {}
                         /\ steps <= Cardinality(Stops(next - 1))
                      \/ /\ err = "empty" /\ rebasing /\ next \in dropped /\ unmerged = {}
                         /\ steps <= Cardinality(Stops(next))
    /\ pc = "status" => \/ unmerged # {} /\ steps <= Cardinality(Stops(next))
                        \/ unmerged = {} /\ err = "empty"
    /\ pc \in {"resolve", "stage", "continue"} => steps <= Cardinality(Stops(next))

\* Stops are counted commit by commit.
LEMMA CountStops ==
  ASSUME RebaseInv
  PROVE  /\ IsFiniteSet(dropped) /\ Cardinality(dropped) \in Nat
         /\ \A c \in dropped : Cardinality(dropped) >= 1
         /\ Stops(0) = {} /\ Cardinality(Stops(0)) = 0
         /\ \A k \in 0..N : IsFiniteSet(Stops(k)) /\ Cardinality(Stops(k)) \in Nat
                            /\ Cardinality(Stops(k)) <= Cardinality(Stops(N))
         /\ \A k \in 1..N : /\ Cardinality(Stops(k - 1)) <= Cardinality(Stops(k))
                            /\ k \in Stops(N) => Cardinality(Stops(k)) = Cardinality(Stops(k - 1)) + 1
<1>1. N \in Nat /\ dropped \subseteq 1..N
  BY DEF RebaseInv, CaseOK
<1>2. IsFiniteSet(1..N)
  BY <1>1, FS_Interval
<1>3. IsFiniteSet(dropped) /\ Cardinality(dropped) \in Nat
  BY <1>1, <1>2, FS_Subset, FS_CardinalityType
<1>4. ASSUME NEW c \in dropped  PROVE Cardinality(dropped) >= 1
  BY <1>3, <1>4, FS_EmptySet
<1>5. Stops(0) = {} /\ Cardinality(Stops(0)) = 0
  BY FS_EmptySet DEF Stops
<1>6. \A k \in 0..N : IsFiniteSet(Stops(k)) /\ Cardinality(Stops(k)) \in Nat
  <2> TAKE k \in 0..N
  <2>1. Stops(k) \in SUBSET (1..N)
    BY <1>1 DEF Stops
  <2> QED  BY <2>1, <1>2, FS_Subset, FS_CardinalityType
<1>7. \A k \in 0..N : Cardinality(Stops(k)) <= Cardinality(Stops(N))
  <2> TAKE k \in 0..N
  <2>1. Stops(k) \in SUBSET Stops(N) /\ N \in 0..N
    BY <1>1 DEF Stops
  <2> QED  BY <2>1, <1>6, FS_Subset
<1>8. ASSUME NEW k \in 1..N
      PROVE  /\ Cardinality(Stops(k - 1)) <= Cardinality(Stops(k))
             /\ k \in Stops(N) => Cardinality(Stops(k)) = Cardinality(Stops(k - 1)) + 1
  <2>1. k - 1 \in 0..N /\ k \in 0..N
    BY <1>1
  <2>2. Stops(k - 1) \in SUBSET Stops(k) /\ k \notin Stops(k - 1)
    BY <1>1, <2>1 DEF Stops
  <2>3. k \in Stops(N) => Stops(k) = Stops(k - 1) \cup {k}
    BY <1>1, <2>1 DEF Stops
  <2>4. IsFiniteSet(Stops(k - 1)) /\ IsFiniteSet(Stops(k))
    BY <1>6, <2>1
  <2>5. Cardinality(Stops(k - 1) \cup {k}) = Cardinality(Stops(k - 1)) + 1
    BY <2>2, <2>4, FS_AddElement
  <2> QED  BY <2>2, <2>3, <2>4, <2>5, FS_Subset
<1> QED  BY <1>3, <1>4, <1>5, <1>6, <1>7, <1>8

\* What smooths a step has smoothed the state before it.
LEMMA SmoothBefore ==
  ASSUME RebaseInv, [Next]_vars, Smooth'
  PROVE  Smooth /\ \A k : Stops(k)' = Stops(k)
<1>1. UNCHANGED case
  BY CaseStays
<1>2. N' = N /\ (\A k : Stops(k)' = Stops(k)) /\ dropped' = dropped /\ enabled' = enabled
  BY <1>1 DEF case, Stops, N, Conflicts
<1>3. \A c : Real(c)' = Real(c)
  BY <1>1 DEF case, Real
<1>4. ~disturbed' /\ ~edited' /\ ~skipped'
  BY DEF Smooth
<1>5. ~disturbed /\ ~edited /\ ~skipped
  <2>1. CASE GitRefuse \/ GitBegin \/ GitPick \/ GitStop
    BY <1>4, <2>1 DEF GitRefuse, GitBegin, GitPick, GitStop, NoGit, git, Same
  <2>2. CASE GitFinish \/ GitContinue \/ GitSkip
    BY <1>4, <2>2 DEF GitFinish, Complete, GitContinue, GitSkip, Same
  <2>3. CASE Loop \/ Status \/ Resolve \/ Stage \/ Abort
    BY <1>4, <2>3 DEF Loop, Status, Resolve, Stage, Abort, NoGit, git, Same
  <2>4. CASE KilledByCancel
    BY <1>4, <2>4 DEF KilledByCancel, Killed, Complete, Same
  <2>5. ~Timeout /\ ~Signal /\ ~OtherGit /\ ~Save
    BY <1>4 DEF Timeout, Signal, OtherGit, Save
  <2>6. CASE UNCHANGED vars
    BY <1>4, <2>6 DEF vars, git
  <2> QED  BY <2>1, <2>2, <2>3, <2>4, <2>5, <2>6 DEF Next, Run
<1> QED  BY <1>2, <1>3, <1>5 DEF Smooth

\* No pass of the loop is taken for nothing.
LEMMA PatienceStep ==
  ASSUME RebaseInv, PatienceInv, [Next]_vars
  PROVE  PatienceInv'
<1> SUFFICES ASSUME Smooth'
             PROVE  PatienceInv'
  BY DEF PatienceInv
<1>1. Smooth /\ \A k : Stops(k)' = Stops(k)
  BY SmoothBefore
<1>2. N' = N /\ Cardinality(Stops(N)) + Cardinality(dropped) <= MaxSteps /\ MaxSteps \in Nat \ {0}
  BY <1>1, CaseStays, RebaseAssumption DEF Smooth, case, N
<1>3. /\ next \in Nat /\ steps \in Nat /\ N \in Nat
      /\ rebasing => next \in 1..(N + 1)
  BY DEF RebaseInv, TypeOK, CaseOK, GitInv
<1>4. ~lock /\ ~cancelled /\ ~edited /\ ~skipped /\ enabled
  BY <1>1 DEF Smooth, RebaseInv, GitInv
<1>5. \A c \in 1..N : ~Real(c)
  BY <1>1 DEF Smooth
<1>6. ~disturbed' /\ ~edited' /\ ~skipped'
  BY DEF Smooth
<1> USE <1>1, <1>2, <1>3, <1>4
<1>7. CASE GitRefuse
  BY <1>7 DEF GitRefuse, Exit, NoGit, git, Same, PatienceInv, RebaseInv, StepInv, TypeOK
<1>8. CASE GitBegin
  <2>1. Stops(next' - 1) = {} /\ Cardinality(Stops(next' - 1)) = 0
    BY <1>8, CountStops DEF GitBegin
  <2> QED  BY <1>8, <2>1 DEF GitBegin, Goto, Same, PatienceInv
<1>9. CASE GitPick
  <2>1. next \in 1..N /\ next' - 1 = next
    BY <1>9 DEF GitPick, N, RebaseInv, StepInv
  <2>2. Cardinality(Stops(next - 1)) <= Cardinality(Stops(next))
        /\ Cardinality(Stops(next - 1)) \in Nat /\ Cardinality(Stops(next)) \in Nat
    BY <2>1, CountStops
  <2> QED  BY <1>9, <2>1, <2>2 DEF GitPick, Same, PatienceInv, code, RebaseInv, TypeOK
<1>10. CASE GitStop
  <2>1. next \in Stops(N) /\ rebasing /\ unmerged' # {}
    BY <1>10 DEF GitStop, RebaseInv, StepInv, Stops, N
  <2> QED  BY <1>10, <2>1 DEF GitStop, Exit, Same, PatienceInv, RebaseInv, TypeOK
<1>11. CASE GitFinish
  BY <1>11 DEF GitFinish, Complete, Exit, Same, PatienceInv, RebaseInv, TypeOK
<1>12. CASE GitContinue
  <2>1. next \in 1..N /\ rebasing /\ unmerged = {}
    BY <1>12 DEF GitContinue, RebaseInv, StepInv
  <2>2. steps <= Cardinality(Stops(next))
    BY <1>12 DEF GitContinue, PatienceInv
  <2>3. CASE pc' = "git"
    <3>1. next' - 1 = next
      BY <1>12, <2>3 DEF GitContinue, Exit, Goto
    <3>2. steps' = steps /\ outcome' = outcome
      BY <1>12 DEF GitContinue, Exit, Goto
    <3> QED  BY <1>12, <2>2, <2>3, <3>1, <3>2 DEF GitContinue, PatienceInv
  <2>4. CASE pc' # "git"
    <3>1. pc' = "loop" /\ err' = "empty" /\ next \in dropped /\ next' = next
      BY <1>12, <2>4 DEF GitContinue, Exit, Goto
    <3>2. steps' = steps /\ outcome' = outcome /\ rebasing' = rebasing /\ unmerged' = unmerged /\ dropped' = dropped
      BY <1>12 DEF GitContinue, Exit, Goto, Same, case
    <3> QED  BY <1>12, <2>1, <2>2, <3>1, <3>2 DEF GitContinue, PatienceInv
  <2> QED  BY <2>3, <2>4
<1>13. CASE GitSkip
  BY <1>6, <1>13 DEF GitSkip
<1>14. CASE Loop
  <2>1. CASE err = "nil"
    BY <1>14, <2>1 DEF Loop, Return, NoGit, git, PatienceInv, RebaseInv, TypeOK
  <2>2. CASE err = "raw"
    BY <1>14, <2>2 DEF Loop, Return, Goto, NoGit, git, PatienceInv, RebaseInv, TypeOK
  <2>3. CASE err = "stop"
    <3>1. next \in 1..N /\ next \in Stops(N) /\ rebasing /\ unmerged # {} /\ steps <= Cardinality(Stops(next - 1))
      BY <1>14, <2>3 DEF Loop, PatienceInv, Stops
    <3>2. /\ Cardinality(Stops(next)) = Cardinality(Stops(next - 1)) + 1
          /\ Cardinality(Stops(next)) <= Cardinality(Stops(N)) /\ Cardinality(dropped) \in Nat
          /\ Cardinality(Stops(next)) \in Nat /\ Cardinality(Stops(next - 1)) \in Nat
          /\ Cardinality(Stops(N)) \in Nat
      BY <3>1, CountStops
    <3>3. steps < MaxSteps
      BY <3>1, <3>2
    <3> QED  BY <1>14, <2>3, <3>1, <3>2, <3>3 DEF Loop, Return, Goto, NoGit, git, PatienceInv, RebaseInv, TypeOK
  <2>4. CASE err = "empty"
    <3>1. next \in dropped /\ next \in 1..N /\ rebasing /\ unmerged = {} /\ steps <= Cardinality(Stops(next))
      BY <1>14, <2>4 DEF Loop, PatienceInv, RebaseInv, CaseOK
    <3>2. /\ Cardinality(Stops(next)) <= Cardinality(Stops(N)) /\ Cardinality(dropped) >= 1
          /\ Cardinality(Stops(next)) \in Nat /\ Cardinality(Stops(N)) \in Nat /\ Cardinality(dropped) \in Nat
      BY <3>1, CountStops
    <3>3. steps < MaxSteps
      BY <3>1, <3>2
    <3> QED  BY <1>14, <2>4, <3>1, <3>3 DEF Loop, Return, Goto, NoGit, git, PatienceInv, RebaseInv, TypeOK
  <2> QED  BY <2>1, <2>2, <2>3, <2>4 DEF RebaseInv, TypeOK
<1>15. CASE Status
  BY <1>15 DEF Status, Goto, NoGit, git, Same, PatienceInv, RebaseInv, TypeOK
<1>16. CASE Resolve
  <2>1. \A p \in left : clash[next][p] # "real"
    BY <1>5, <1>16 DEF Resolve, RebaseInv, StepInv, TypeOK, Real
  <2> QED  BY <1>16, <2>1 DEF Resolve, Goto, NoGit, git, Same, PatienceInv, RebaseInv, TypeOK
<1>17. CASE Stage
  BY <1>17 DEF Stage, Goto, Same, PatienceInv, RebaseInv, TypeOK
<1>18. CASE Abort
  BY <1>18 DEF Abort, PatienceInv
<1>19. CASE KilledByCancel \/ Timeout \/ Signal \/ OtherGit
  BY <1>6, <1>19 DEF KilledByCancel, Timeout, Signal, OtherGit
<1>20. CASE Save
  BY <1>6, <1>20 DEF Save
<1>21. CASE UNCHANGED vars
  <2>1. UNCHANGED <<next, steps, pc, err, outcome, rebasing, unmerged, dropped>>
    BY <1>21 DEF vars, case, git, code
  <2> QED  BY <2>1 DEF PatienceInv
<1> QED
  BY <1>7, <1>8, <1>9, <1>10, <1>11, <1>12, <1>13, <1>14, <1>15, <1>16, <1>17, <1>18, <1>19, <1>20, <1>21
  DEF Next, Run

\* Timestamp conflicts alone do not make the rebase give up, for any number of
\* commits, as long as the stops fit the bound (repo.go Rebase).
THEOREM AlwaysGivesUpForAReason == Spec => []GivesUpForAReason
<1>1. Init => PatienceInv
  BY DEF Init, PatienceInv
<1>2. RebaseInv /\ PatienceInv /\ [Next]_vars => PatienceInv'
  BY PatienceStep
<1>3. RebaseInv /\ PatienceInv => GivesUpForAReason
  <2> SUFFICES ASSUME RebaseInv, PatienceInv, outcome = "conflict", ~GivesUpForAReason
               PROVE  FALSE
    BY DEF GivesUpForAReason, Obstructed
  <2>1. ~Smooth
    BY DEF PatienceInv
  <2>2. Stops(N) = {c \in 1..Len(local) : Conflicts(c) # {}} /\ N \in 0..N
    BY DEF Stops, N, RebaseInv, CaseOK
  <2>3. Cardinality(Stops(N)) \in Nat /\ Cardinality(dropped) \in Nat
    BY <2>2, CountStops
  <2> QED  BY <2>1, <2>2, <2>3, RebaseAssumption DEF GivesUpForAReason, Obstructed, Smooth, N
<1> QED  BY <1>1, <1>2, <1>3, RebaseInvariant, PTL DEF Spec
=============================================================================
