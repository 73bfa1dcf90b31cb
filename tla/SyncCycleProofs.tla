--------------------------- MODULE SyncCycleProofs ---------------------------
(* Theorems about SyncCycle, for every value of its constants.             *)
EXTENDS SyncCycle, FiniteSetTheorems, WellFoundedInduction, SequenceTheorems, TLAPS

Commits == SUBSET Edits

-----------------------------------------------------------------------------
(* Branches.                                                               *)

\* The saves of a branch are saves.
LEMMA TreeOfType ==
  ASSUME NEW q \in Seq(Commits)
  PROVE  TreeOf(q) \subseteq Edits
  BY SMT DEF TreeOf, Range, Commits

\* Committing adds the saves of the commit to the branch and nothing else.
LEMMA TreeAppend ==
  ASSUME NEW q \in Seq(Commits), NEW c \in Commits
  PROVE  /\ Append(q, c) \in Seq(Commits)
         /\ TreeOf(Append(q, c)) = TreeOf(q) \cup c
<1>1. Append(q, c) \in Seq(Commits)
  OBVIOUS
<1>2. Range(Append(q, c)) = {Append(q, c)[i] : i \in 1..(Len(q) + 1)}
  <2>1. Range(Append(q, c)) = {Append(q, c)[i] : i \in 1..Len(Append(q, c))}
    BY <1>1, RangeEquality
  <2>2. Len(Append(q, c)) = Len(q) + 1
    OBVIOUS
  <2> QED  BY <2>1, <2>2
<1>3. Range(q) = {q[i] : i \in 1..Len(q)}
  BY RangeEquality
<1>4. /\ \A i \in 1..Len(q) : Append(q, c)[i] = q[i]
      /\ Append(q, c)[Len(q) + 1] = c
      /\ Len(q) \in Nat
  OBVIOUS
<1>5. Range(Append(q, c)) = Range(q) \cup {c}
  BY <1>2, <1>3, <1>4
<1> QED  BY <1>1, <1>5 DEF TreeOf

\* A set of naturals that is not empty has a least element.
LEMMA LeastNatural ==
  ASSUME NEW S \in SUBSET Nat, S # {}
  PROVE  \E m \in S : \A k \in S : m <= k
<1> DEFINE R == OpToRel(<, Nat)
<1>1. IsWellFoundedOn(R, Nat)
  BY NatLessThanWellFounded
<1>2. \A x, y \in Nat : x < y <=> <<x, y>> \in R
  BY DEF OpToRel
<1> HIDE DEF R
<1>3. PICK m \in S : \A k \in S : ~(<<k, m>> \in R)
  BY <1>1, WFMin
<1>4. \A k \in S : ~(k < m)
  BY <1>2, <1>3
<1> QED  BY <1>4

\* The number of shared commits is the length of a prefix both branches have.
LEMMA SharedIsPrefix ==
  ASSUME NEW q \in Seq(Commits), NEW r \in Seq(Commits)
  PROVE  /\ Shared(q, r) \in 0..Len(q)
         /\ Shared(q, r) <= Len(r)
         /\ \A i \in 1..Shared(q, r) : q[i] = r[i]
<1> DEFINE Agree(n) == n <= Len(r) /\ \A i \in 1..n : q[i] = r[i]
           D == {n \in 1..Len(q) : Agree(n)}
           Later == {n \in Nat \ {0} : n = Len(q) + 1 \/ (n <= Len(q) /\ ~Agree(n))}
<1>1. Len(q) \in Nat /\ Len(r) \in Nat
  OBVIOUS
<1>2. Later \in SUBSET Nat /\ Later # {}
  BY <1>1
<1>3. PICK m \in Later : \A k \in Later : m <= k
  <2> HIDE DEF Later
  <2> QED  BY <1>2, LeastNatural
<1>4. m \in 1..(Len(q) + 1)
  BY <1>1, <1>3
<1>5. \A n \in 1..(m - 1) : Agree(n)
  <2> SUFFICES ASSUME NEW n \in 1..(m - 1), ~Agree(n) PROVE FALSE
    OBVIOUS
  <2>1. n \in Later
    <3> HIDE DEF Agree
    <3> QED  BY <1>1, <1>4
  <2> QED  BY <2>1, <1>3, <1>4
<1>6. ASSUME NEW n \in 1..Len(q), Agree(n)  PROVE n < m
  <2>1. CASE m = Len(q) + 1
    BY <2>1, <1>1
  <2>2. CASE m # Len(q) + 1
    <3>1. m <= Len(q) /\ ~Agree(m)
      BY <2>2, <1>3
    <3>2. CASE m <= n
      <4>1. Agree(m)
        BY <1>6, <3>2, <1>1, <1>4
      <4> QED  BY <4>1, <3>1
    <3> QED  BY <3>2, <1>4
  <2> QED  BY <2>1, <2>2
<1>7. D = 1..(m - 1)
  <2> HIDE DEF Agree
  <2> QED  BY <1>1, <1>4, <1>5, <1>6
<1>8. Cardinality(1..(m - 1)) = m - 1
  BY <1>4, FS_Interval
<1>9. Shared(q, r) = m - 1
  <2>1. Shared(q, r) = Cardinality(D)
    BY DEF Shared
  <2> QED  BY <2>1, <1>7, <1>8
<1>10. CASE m = 1
  BY <1>10, <1>9, <1>1
<1>11. CASE m > 1
  <2>1. m - 1 \in 1..(m - 1)
    BY <1>11, <1>4
  <2>2. Agree(m - 1)
    BY <2>1, <1>5
  <2> QED  BY <2>2, <1>9, <1>4, <1>1
<1> QED  BY <1>10, <1>11, <1>4

\* A set with 0 and with every successor up to N has all numbers up to N.
LEMMA CountsUpTo ==
  ASSUME NEW N \in Nat, NEW S, 0 \in S, \A n \in 1..N : n - 1 \in S => n \in S
  PROVE  \A n \in 0..N : n \in S
<1> DEFINE Out == {n \in 0..N : n \notin S}
<1> SUFFICES ASSUME Out # {} PROVE FALSE
  OBVIOUS
<1>1. Out \in SUBSET Nat
  OBVIOUS
<1> HIDE DEF Out
<1>2. PICK m \in Out : \A k \in Out : m <= k
  BY <1>1, LeastNatural
<1>3. m \in 0..N /\ m \notin S /\ m # 0
  BY <1>2 DEF Out
<1>4. m - 1 \in 0..N /\ m - 1 \notin Out
  BY <1>1, <1>2, <1>3
<1> QED  BY <1>3, <1>4 DEF Out

\* Beyond goes through the commits one by one.
Sifted(k, q, t, n) ==
  /\ k \in [0..n -> Seq(Commits)] /\ k[0] = <<>>
  /\ \A i \in 1..n : k[i] = Sift(k[i - 1], q[i], t)

LEMMA BeyondSifts ==
  ASSUME NEW q \in Seq(Commits), NEW t
  PROVE  \E k : Sifted(k, q, t, Len(q)) /\ Beyond(q, t) = k[Len(q)]
<1> DEFINE N == Len(q)
           S == {n \in 0..N : \E k : Sifted(k, q, t, n)}
           Is(k) == k = [n \in 0..N |-> IF n = 0 THEN <<>> ELSE Sift(k[n - 1], q[n], t)]
<1>1. N \in Nat /\ \A i \in 1..N : q[i] \in Commits
  OBVIOUS
<1>2. Beyond(q, t) = (CHOOSE k : Is(k))[N]
  BY DEF Beyond
<1> HIDE DEF N
<1>3. 0 \in S
  <2>1. Sifted([i \in 0..0 |-> <<>>], q, t, 0)
    BY DEF Sifted
  <2> QED  BY <1>1, <2>1
<1>4. ASSUME NEW n \in 1..N, n - 1 \in S  PROVE n \in S
  <2>1. PICK k : Sifted(k, q, t, n - 1)
    BY <1>4
  <2> DEFINE last == Sift(k[n - 1], q[n], t)
             l == [i \in 0..n |-> IF i = n THEN last ELSE k[i]]
  <2>2. k[n - 1] \in Seq(Commits)
    BY <1>1, <2>1 DEF Sifted
  <2>3. last \in Seq(Commits)
    BY <1>1, <2>2 DEF Sift
  <2> HIDE DEF last
  <2>4. l \in [0..n -> Seq(Commits)] /\ l[0] = <<>>
    BY <1>1, <2>1, <2>3 DEF Sifted
  <2>5. \A i \in 1..n : l[i] = Sift(l[i - 1], q[i], t)
    <3>1. \A i \in 1..(n - 1) : l[i] = k[i] /\ l[i - 1] = k[i - 1] /\ k[i] = Sift(k[i - 1], q[i], t)
      BY <1>1, <2>1 DEF Sifted
    <3>2. l[n] = last /\ l[n - 1] = k[n - 1]
      BY <1>1
    <3>3. \A i \in 1..n : i = n \/ i \in 1..(n - 1)
      BY <1>1
    <3> HIDE DEF l
    <3> QED  BY <3>1, <3>2, <3>3 DEF last
  <2>6. Sifted(l, q, t, n)
    BY <2>4, <2>5 DEF Sifted
  <2> HIDE DEF l
  <2> QED  BY <2>6
<1>5. PICK k : Sifted(k, q, t, N)
  <2> HIDE DEF S
  <2>1. \A n \in 0..N : n \in S
    BY <1>1, <1>3, <1>4, CountsUpTo
  <2>2. N \in S
    BY <1>1, <2>1
  <2> QED  BY <2>2 DEF S
<1>6. Is(k)
  BY <1>1, <1>5 DEF Sifted
<1> DEFINE c == CHOOSE x : Is(x)
<1>7. Is(c)
  BY <1>6
<1> HIDE DEF c
<1> DEFINE Same == {i \in 0..N : c[i] = k[i]}
<1>8. 0 \in Same
  BY <1>1, <1>5, <1>7 DEF Sifted
<1>9. ASSUME NEW i \in 1..N, i - 1 \in Same  PROVE i \in Same
  <2>1. k[i] = Sift(k[i - 1], q[i], t)
    BY <1>5 DEF Sifted
  <2>2. c[i] = Sift(c[i - 1], q[i], t)
    BY <1>1, <1>7
  <2>3. c[i - 1] = k[i - 1]
    BY <1>9
  <2> QED  BY <2>1, <2>2, <2>3
<1>10. N \in Same
  <2> HIDE DEF Same
  <2>1. \A n \in 0..N : n \in Same
    BY <1>1, <1>8, <1>9, CountsUpTo
  <2> QED  BY <1>1, <2>1
<1> QED  BY <1>2, <1>5, <1>10 DEF c, N

\* No commit is made up on the way, and the saves of those left out are in t.
LEMMA BeyondTree ==
  ASSUME NEW q \in Seq(Commits), NEW t
  PROVE  /\ Beyond(q, t) \in Seq(Commits)
         /\ TreeOf(Beyond(q, t)) \subseteq TreeOf(q)
         /\ TreeOf(q) \subseteq t \cup TreeOf(Beyond(q, t))
<1> DEFINE N == Len(q)
<1>1. PICK k : Sifted(k, q, t, N) /\ Beyond(q, t) = k[N]
  BY BeyondSifts
<1>2. N \in Nat /\ \A i \in 1..N : q[i] \in Commits /\ q[i] \subseteq TreeOf(q)
  BY DEF TreeOf, Range
<1> DEFINE Upto(n) == /\ TreeOf(k[n]) \subseteq TreeOf(q)
                      /\ \A i \in 1..n : q[i] \subseteq t \cup TreeOf(k[n])
           S == {n \in 0..N : Upto(n)}
<1> HIDE DEF N
<1>3. 0 \in S
  BY <1>1, <1>2 DEF Sifted, TreeOf, Range
<1>4. ASSUME NEW n \in 1..N, n - 1 \in S  PROVE n \in S
  <2>1. /\ k[n] = Sift(k[n - 1], q[n], t)
        /\ k[n - 1] \in Seq(Commits) /\ q[n] \in Commits
    BY <1>1, <1>2 DEF Sifted
  <2>2. TreeOf(Append(k[n - 1], q[n])) = TreeOf(k[n - 1]) \cup q[n]
    BY <2>1, TreeAppend
  <2>3. TreeOf(k[n]) = TreeOf(k[n - 1]) \/ TreeOf(k[n]) = TreeOf(k[n - 1]) \cup q[n]
    BY <2>1, <2>2 DEF Sift
  <2>4. q[n] \subseteq t \cup TreeOf(k[n])
    BY <2>1, <2>2 DEF Sift
  <2>5. Upto(n - 1)
    BY <1>4
  <2>6. \A i \in 1..n : i = n \/ i \in 1..(n - 1)
    BY <1>2
  <2>7. TreeOf(k[n]) \subseteq TreeOf(q) /\ TreeOf(k[n - 1]) \subseteq TreeOf(k[n])
    BY <1>2, <2>3, <2>5
  <2>8. \A i \in 1..n : q[i] \subseteq t \cup TreeOf(k[n])
    <3> SUFFICES ASSUME NEW i \in 1..n  PROVE q[i] \subseteq t \cup TreeOf(k[n])
      OBVIOUS
    <3>1. CASE i = n
      BY <3>1, <2>4
    <3>2. CASE i \in 1..(n - 1)
      BY <3>2, <2>5, <2>7
    <3> QED  BY <2>6, <3>1, <3>2
  <2>9. Upto(n)
    BY <2>7, <2>8
  <2>10. n \in 0..N
    BY <1>2
  <2> HIDE DEF Upto
  <2> QED  BY <2>9, <2>10
<1>5. Upto(N)
  <2> HIDE DEF Upto
  <2>1. N \in 0..N
    BY <1>2
  <2> HIDE DEF S
  <2>2. N \in S
    BY <1>2, <1>3, <1>4, <2>1, CountsUpTo
  <2> QED  BY <2>2 DEF S
<1>6. k[N] \in Seq(Commits)
  BY <1>1, <1>2 DEF Sifted
<1>7. \A x \in Range(q) : x \subseteq t \cup TreeOf(k[N])
  BY <1>5 DEF Range, N
<1> QED  BY <1>1, <1>5, <1>6, <1>7 DEF TreeOf

\* Rebasing keeps every save of the local commits, those of dropped commits
\* included, and takes over every save of the branch rebased onto.
LEMMA ReplayedTree ==
  ASSUME NEW q \in Seq(Commits), NEW onto \in Seq(Commits)
  PROVE  /\ Unshared(q, onto) \in Seq(Commits)
         /\ TreeOf(q) \subseteq TreeOf(onto) \cup TreeOf(Unshared(q, onto))
         /\ \A emptied \in SUBSET TreeOf(onto) :
              /\ Replayed(q, onto, emptied) \in Seq(Commits)
              /\ TreeOf(Replayed(q, onto, emptied)) = TreeOf(onto) \cup TreeOf(Unshared(q, onto))
<1> DEFINE k == Shared(q, onto)
           u == Unshared(q, onto)
<1>1. /\ k \in 0..Len(q) /\ k <= Len(onto)
      /\ \A i \in 1..k : q[i] = onto[i]
  BY SharedIsPrefix
<1>2. /\ u \in Seq(Commits)
      /\ Len(u) = Len(q) - k
      /\ \A i \in 1..(Len(q) - k) : u[i] = q[k + i]
  <2> HIDE DEF k
  <2>1. u = SubSeq(q, k + 1, Len(q))
    BY DEF Unshared, k
  <2>2. Len(q) \in Nat
    OBVIOUS
  <2> QED  BY <2>1, <2>2, <1>1, SubSeqProperties
<1>3. ASSUME NEW i \in 1..Len(q)  PROVE q[i] \in Range(onto) \cup Range(u)
  <2>1. CASE i <= k
    <3>1. q[i] = onto[i] /\ i \in 1..Len(onto)
      BY <2>1, <1>1
    <3> QED  BY <3>1 DEF Range
  <2>2. CASE i > k
    <3>1. (i - k) \in 1..Len(u) /\ u[i - k] = q[i]
      BY <2>2, <1>1, <1>2
    <3> HIDE DEF u
    <3> QED  BY <3>1, <1>2 DEF Range
  <2> QED  BY <2>1, <2>2, <1>1
<1>4. Range(q) \subseteq Range(onto) \cup Range(u)
  BY <1>3 DEF Range
<1>5. TreeOf(q) \subseteq TreeOf(onto) \cup TreeOf(u)
  BY <1>4 DEF TreeOf
<1>6. ASSUME NEW emptied \in SUBSET TreeOf(onto)
      PROVE  /\ Replayed(q, onto, emptied) \in Seq(Commits)
             /\ TreeOf(Replayed(q, onto, emptied)) = TreeOf(onto) \cup TreeOf(u)
  <2> DEFINE v == Beyond(u, emptied)
  <2>1. Replayed(q, onto, emptied) = onto \o v
    BY DEF Replayed
  <2> HIDE DEF u
  <2>2. /\ v \in Seq(Commits) /\ TreeOf(v) \subseteq TreeOf(u)
        /\ TreeOf(u) \subseteq emptied \cup TreeOf(v)
    BY <1>2, BeyondTree
  <2> HIDE DEF v
  <2>3. Range(onto \o v) = Range(onto) \cup Range(v)
    BY <2>2, RangeConcatenation
  <2>4. TreeOf(onto \o v) = TreeOf(onto) \cup TreeOf(v)
    BY <2>3 DEF TreeOf
  <2>5. onto \o v \in Seq(Commits)
    BY <2>2
  <2> QED  BY <2>1, <2>2, <2>4, <2>5
<1> QED  BY <1>2, <1>5, <1>6

-----------------------------------------------------------------------------
(* Types.                                                                  *)

\* A tree's notes are notes.
LEMMA NotesOfType ==
  ASSUME NEW t \in SUBSET Edits
  PROVE  NotesOf(t) \subseteq Notes
  BY SyncAssumption DEF NotesOf

\* What the operators on the current state return.
LEMMA StateTypes ==
  ASSUME TypeOK
  PROVE  /\ HeadTree \subseteq Edits /\ BranchTree \subseteq Edits
         /\ TreeOf(tracking) \subseteq Edits /\ LocalTree \subseteq Edits
         /\ Meanwhile \subseteq Edits
         /\ tip[head] \in Seq(Commits)
         /\ Changed \subseteq Notes
         /\ \A t : Clashing(t) \subseteq Notes
         /\ \A emptied \in SUBSET TreeOf(tracking) : Replayed(tip[head], tracking, emptied) \in Seq(Commits)
         /\ \A emptied \in SUBSET TreeOf(tracking) :
              TreeOf(Replayed(tip[head], tracking, emptied)) \subseteq Edits
<1>1. tip[head] \in Seq(Commits) /\ tip["branch"] \in Seq(Commits) /\ tracking \in Seq(Commits)
  BY DEF TypeOK, TreeType, RefsType, DaemonType, Commits
<1>2. /\ TreeOf(tip[head]) \subseteq Edits /\ TreeOf(tip["branch"]) \subseteq Edits
      /\ TreeOf(tracking) \subseteq Edits
  BY <1>1, TreeOfType
<1>3. /\ Unshared(tip[head], tracking) \in Seq(Commits)
      /\ Unshared(tracking, tip[head]) \in Seq(Commits)
      /\ \A emptied \in SUBSET TreeOf(tracking) : Replayed(tip[head], tracking, emptied) \in Seq(Commits)
  BY <1>1, ReplayedTree
<1>4. /\ TreeOf(Unshared(tip[head], tracking)) \subseteq Edits
      /\ TreeOf(Unshared(tracking, tip[head])) \subseteq Edits
      /\ \A emptied \in SUBSET TreeOf(tracking) :
           TreeOf(Replayed(tip[head], tracking, emptied)) \subseteq Edits
  BY <1>3, TreeOfType
<1>5. wt \subseteq Edits /\ index \subseteq Edits
  BY DEF TypeOK, TreeType, RefsType, DaemonType
<1>6. Changed \subseteq Notes
  <2> DEFINE d == (wt \ HeadTree) \cup (HeadTree \ wt) \cup (index \ HeadTree) \cup (HeadTree \ index)
  <2>1. d \in SUBSET Edits
    BY <1>2, <1>5 DEF HeadTree
  <2>2. NotesOf(d) \subseteq Notes
    BY <2>1, NotesOfType
  <2> QED  BY <2>2 DEF Changed
<1>7. \A t : Clashing(t) \subseteq Notes
  BY <1>4, NotesOfType DEF Clashing
<1> QED  BY <1>1, <1>2, <1>3, <1>4, <1>5, <1>6, <1>7 DEF HeadTree, BranchTree, LocalTree, Meanwhile

\* Every step keeps every variable within its type.
LEMMA TypeStep ==
  ASSUME TypeOK, [Next]_vars
  PROVE  TypeOK'
<1> USE SyncAssumption
<1> USE DEF TypeOK, TreeType, RefsType, DaemonType, HistoryType, PCs, GitSteps, Locking, Pushing, Errors, At, Goto, Return, Quiet, Untouched,
            tree, refs, daemon, history, NoResult, Commits
<1>1. ASSUME BeginSync  PROVE TypeOK'
  BY <1>1 DEF BeginSync
<1>2. ASSUME CheckInProgress  PROVE TypeOK'
  BY <1>2 DEF CheckInProgress
<1>3. ASSUME CheckStatus  PROVE TypeOK'
  BY <1>3, StateTypes DEF CheckStatus
<1>4. ASSUME StampFiles  PROVE TypeOK'
  BY <1>4 DEF StampFiles
<1>5. ASSUME PickPaths  PROVE TypeOK'
  <2>1. TreeType'
    BY <1>5 DEF PickPaths
  <2>2. RefsType'
    BY <1>5 DEF PickPaths
  <2>3. DaemonType'
    BY <1>5 DEF PickPaths
  <2>4. HistoryType'
    BY <1>5 DEF PickPaths, Hazard
  <2> QED  BY <2>1, <2>2, <2>3, <2>4
<1>6. ASSUME AddPaths  PROVE TypeOK'
  BY <1>6 DEF AddPaths, On
<1>7. ASSUME Recheck  PROVE TypeOK'
  BY <1>7 DEF Recheck
<1>8. ASSUME GitCommit  PROVE TypeOK'
  <2>1. TreeType'
    BY <1>8, StateTypes, TreeAppend DEF GitCommit
  <2>2. RefsType'
    <3>1. CASE UNCHANGED <<refs, remote>>
      BY <3>1
    <3>2. CASE tip' = [tip EXCEPT ![head] = Append(@, index \ HeadTree)]
      <4>1. Append(tip[head], index \ HeadTree) \in Seq(SUBSET Edits)
        BY StateTypes
      <4>2. UNCHANGED <<head, tracking, remote>>
        BY <1>8 DEF GitCommit
      <4> QED  BY <3>2, <4>1, <4>2
    <3> QED  BY <1>8, <3>1, <3>2 DEF GitCommit
  <2>3. DaemonType'
    <3>1. CASE Return("unknown")
      BY <1>8, <3>1 DEF GitCommit
    <3>2. CASE /\ res' = [res EXCEPT !.committed = paths \ ScratchPaths]
               /\ pc' = "upstream" /\ UNCHANGED <<cfg, paths, retry, err, term>>
      BY <3>2
    <3> QED  BY <1>8, <3>1, <3>2 DEF GitCommit
  <2>4. HistoryType'
    BY <1>8, StateTypes, TreeAppend DEF GitCommit
  <2> QED  BY <2>1, <2>2, <2>3, <2>4
<1>9. ASSUME FindUpstream  PROVE TypeOK'
  BY <1>9 DEF FindUpstream, AfterPull
<1>10. ASSUME Fetch  PROVE TypeOK'
  <2>1. TreeType'
    BY <1>10 DEF Fetch, AfterPull
  <2>2. RefsType'
    BY <1>10 DEF Fetch, AfterPull
  <2>3. DaemonType'
    BY <1>10 DEF Fetch, AfterPull
  <2>4. HistoryType'
    BY <1>10 DEF Fetch, AfterPull
  <2> QED  BY <2>1, <2>2, <2>3, <2>4
<1>11. ASSUME CheckBehind  PROVE TypeOK'
  BY <1>11 DEF CheckBehind, AfterPull
<1>12. ASSUME RebaseRefused  PROVE TypeOK'
  <2>1. TreeType'
    BY <1>12 DEF RebaseRefused, Hazard
  <2>2. RefsType'
    BY <1>12 DEF RebaseRefused, Hazard
  <2>3. DaemonType'
    BY <1>12 DEF RebaseRefused, Hazard
  <2>4. HistoryType'
    BY <1>12 DEF RebaseRefused, Hazard
  <2> QED  BY <2>1, <2>2, <2>3, <2>4
<1>13. ASSUME RebaseStart  PROVE TypeOK'
  BY <1>13, StateTypes DEF RebaseStart
<1>14. ASSUME RebaseDone  PROVE TypeOK'
  <2>1. PICK emptied \in SUBSET TreeOf(tracking) :
          tip' = [tip EXCEPT ![head] = Replayed(@, tracking, emptied)]
    BY <1>14 DEF RebaseDone
  <2>2. /\ tip' \in [{"branch", "detached"} -> Seq(SUBSET Edits)]
        /\ TreeOf(tip'[head]) \subseteq Edits
    BY <2>1, StateTypes
  <2>3. TreeType'
    BY <1>14, <2>2, StateTypes DEF RebaseDone
  <2>4. RefsType'
    BY <1>14, <2>2 DEF RebaseDone
  <2>5. DaemonType' /\ HistoryType'
    BY <1>14 DEF RebaseDone, AfterPull
  <2> QED  BY <2>3, <2>4, <2>5
<1>15. ASSUME RebaseStop  PROVE TypeOK'
  BY <1>15, StateTypes DEF RebaseStop
<1>16. ASSUME Stopped  PROVE TypeOK'
  <2>1. TreeType'
    BY <1>16, StateTypes DEF Stopped, Hazard
  <2>2. RefsType'
    BY <1>16, StateTypes DEF Stopped, Hazard
  <2>3. DaemonType'
    BY <1>16, StateTypes DEF Stopped, Hazard
  <2>4. HistoryType'
    BY <1>16, StateTypes DEF Stopped, Hazard
  <2> QED  BY <2>1, <2>2, <2>3, <2>4
<1>17. ASSUME AbortRebase  PROVE TypeOK'
  <2>1. TreeType'
    BY <1>17, StateTypes DEF AbortRebase, Hazard
  <2>2. RefsType'
    BY <1>17, StateTypes DEF AbortRebase, Hazard
  <2>3. DaemonType'
    BY <1>17, StateTypes DEF AbortRebase, Hazard
  <2>4. HistoryType'
    <3>1. hazards' = hazards \/ Hazard("kill")
      BY <1>17 DEF AbortRebase
    <3>3. hazards' \in 0..MaxHazards
      BY <3>1 DEF Hazard
    <3>2. UNCHANGED <<saved, safe, raced>>
      BY <1>17 DEF AbortRebase
    <3> QED  BY <3>2, <3>3
  <2> QED  BY <2>1, <2>2, <2>3, <2>4
<1>18. ASSUME CheckAhead  PROVE TypeOK'
  BY <1>18 DEF CheckAhead
<1>19. ASSUME PushAccepted  PROVE TypeOK'
  BY <1>19, StateTypes DEF PushAccepted
<1>20. ASSUME PushRejected  PROVE TypeOK'
  <2>1. TreeType'
    BY <1>20 DEF PushRejected, Hazard
  <2>2. RefsType'
    BY <1>20 DEF PushRejected, Hazard
  <2>3. DaemonType'
    BY <1>20 DEF PushRejected, Hazard
  <2>4. HistoryType'
    BY <1>20 DEF PushRejected, Hazard
  <2> QED  BY <2>1, <2>2, <2>3, <2>4
<1>21. ASSUME Finish  PROVE TypeOK'
  BY <1>21 DEF Finish
<1>22. ASSUME Interrupted  PROVE TypeOK'
  <2>1. TreeType'
    BY <1>22, StateTypes DEF Interrupted, Hazard, MaybeLock, MaybePushed
  <2>2. RefsType'
    BY <1>22, StateTypes DEF Interrupted, Hazard, MaybeLock, MaybePushed
  <2>3. DaemonType'
    BY <1>22, StateTypes DEF Interrupted, Hazard, MaybeLock, MaybePushed
  <2>4. HistoryType'
    BY <1>22, StateTypes DEF Interrupted, Hazard, MaybeLock, MaybePushed
  <2> QED  BY <2>1, <2>2, <2>3, <2>4
<1>23. ASSUME NetworkDown  PROVE TypeOK'
  <2>1. TreeType'
    BY <1>23, StateTypes DEF NetworkDown, Hazard, MaybePushed
  <2>2. RefsType'
    BY <1>23, StateTypes DEF NetworkDown, Hazard, MaybePushed
  <2>3. DaemonType'
    BY <1>23, StateTypes DEF NetworkDown, Hazard, MaybePushed
  <2>4. HistoryType'
    BY <1>23, StateTypes DEF NetworkDown, Hazard, MaybePushed
  <2> QED  BY <2>1, <2>2, <2>3, <2>4
<1>39. ASSUME GitRefuses  PROVE TypeOK'
  <2>1. TreeType'
    BY <1>39 DEF GitRefuses, Hazard
  <2>2. RefsType'
    BY <1>39 DEF GitRefuses, Hazard
  <2>3. DaemonType'
    BY <1>39 DEF GitRefuses, Hazard
  <2>4. HistoryType'
    BY <1>39 DEF GitRefuses, Hazard
  <2> QED  BY <2>1, <2>2, <2>3, <2>4
<1>24. ASSUME Signal  PROVE TypeOK'
  BY <1>24 DEF Signal, Hazard
<1>25. ASSUME Restart  PROVE TypeOK'
  <2>1. TreeType'
    BY <1>25 DEF Restart
  <2>2. RefsType'
    BY <1>25 DEF Restart
  <2>3. DaemonType'
    BY <1>25 DEF Restart
  <2>4. HistoryType'
    BY <1>25 DEF Restart
  <2> QED  BY <2>1, <2>2, <2>3, <2>4
<1>26. ASSUME Crash  PROVE TypeOK'
  <2>1. TreeType'
    <3>1. wt' \subseteq Edits
      BY <1>26 DEF Crash, On, Edits
    <3>2. lock' \in BOOLEAN
      BY <1>26 DEF Crash, MaybeLock
    <3>3. UNCHANGED <<index, marked, staged, unmerged, stash, op>>
      BY <1>26 DEF Crash
    <3> QED  BY <3>1, <3>2, <3>3
  <2>2. RefsType'
    BY <1>26, StateTypes DEF Crash, MaybePushed
  <2>3. DaemonType'
    BY <1>26 DEF Crash, Hazard, MaybeLock, On
  <2>4. HistoryType'
    BY <1>26 DEF Crash, Hazard, MaybeLock, On
  <2> QED  BY <2>1, <2>2, <2>3, <2>4
<1>27. ASSUME UserCommit  PROVE TypeOK'
  BY <1>27, StateTypes, TreeAppend DEF UserCommit, Hazard, ByHand, On
<1>28. ASSUME UserDetach  PROVE TypeOK'
  BY <1>28 DEF UserDetach, Hazard, ByHand
<1>29. ASSUME UserReattach  PROVE TypeOK'
  BY <1>29, StateTypes DEF UserReattach, ByHand
<1>30. ASSUME UserResolve  PROVE TypeOK'
  BY <1>30, StateTypes DEF UserResolve, ByHand
<1>31. ASSUME UserConclude  PROVE TypeOK'
  BY <1>31 DEF UserConclude, ByHand
<1>32. ASSUME UserAbortRebase  PROVE TypeOK'
  BY <1>32, StateTypes DEF UserAbortRebase, ByHand
<1>33. ASSUME UserRebase  PROVE TypeOK'
  <2>1. PICK emptied \in SUBSET TreeOf(tracking) :
          tip' = [tip EXCEPT ![head] = Replayed(@, tracking, emptied)]
    BY <1>33 DEF UserRebase
  <2>2. /\ tip' \in [{"branch", "detached"} -> Seq(SUBSET Edits)]
        /\ TreeOf(tip'[head]) \subseteq Edits
    BY <2>1, StateTypes
  <2>3. TreeType'
    BY <1>33, <2>2, StateTypes DEF UserRebase
  <2>4. RefsType'
    BY <1>33, <2>2 DEF UserRebase, ByHand
  <2>5. DaemonType' /\ HistoryType'
    BY <1>33 DEF UserRebase, ByHand
  <2> QED  BY <2>3, <2>4, <2>5
<1>40. ASSUME UserStartRebase  PROVE TypeOK'
  <2>1. TreeType'
    BY <1>40, StateTypes DEF UserStartRebase, Hazard, ByHand
  <2>2. RefsType' /\ DaemonType'
    BY <1>40 DEF UserStartRebase, Hazard, ByHand
  <2>3. HistoryType'
    BY <1>40 DEF UserStartRebase, Hazard, ByHand
  <2> QED  BY <2>1, <2>2, <2>3
<1>34. ASSUME UserUnlock  PROVE TypeOK'
  <2>1. TreeType'
    BY <1>34 DEF UserUnlock, ByHand
  <2>2. RefsType'
    BY <1>34 DEF UserUnlock, ByHand
  <2>3. DaemonType'
    BY <1>34 DEF UserUnlock, ByHand
  <2>4. HistoryType'
    BY <1>34 DEF UserUnlock, ByHand
  <2> QED  BY <2>1, <2>2, <2>3, <2>4
<1>35. ASSUME NEW e \in Mine, Save(e)  PROVE TypeOK'
  BY <1>35 DEF Save, Edits
<1>36. ASSUME NEW n \in Notes, UserMerge(n)  PROVE TypeOK'
  BY <1>36 DEF UserMerge, Hazard, ByHand
<1>37. ASSUME NEW e \in Foreign, OtherPush(e)  PROVE TypeOK'
  BY <1>37, TreeAppend DEF OtherPush, Edits
<1>38. ASSUME UNCHANGED vars  PROVE TypeOK'
  BY <1>38 DEF vars
<1> QED
  BY <1>1, <1>2, <1>3, <1>4, <1>5, <1>6, <1>7, <1>8, <1>9, <1>10, <1>11, <1>12, <1>13, <1>14, <1>15, <1>16, <1>17, <1>18, <1>19, <1>20, <1>21, <1>22, <1>23, <1>24, <1>25, <1>26, <1>27, <1>28, <1>29, <1>30, <1>31, <1>32, <1>33, <1>34, <1>35, <1>36, <1>37, <1>38, <1>39, <1>40
  DEF Next, Sync, Failure, User, Recovery

\* The initial states have the types.
LEMMA InitType == Init => TypeOK
<1> SUFFICES ASSUME Init  PROVE TypeOK
  OBVIOUS
<1>1. TreeType
  BY DEF Init, TreeType
<1>2. RefsType
  BY DEF Init, RefsType
<1>3. DaemonType
  BY DEF Init, DaemonType, NoResult, PCs, Errors
<1>4. HistoryType
  <2>1. saved \subseteq Mine /\ safe \subseteq saved /\ raced \in BOOLEAN
    BY DEF Init
  <2>2. MaxHazards \in Nat /\ hazards = 0
    BY SyncAssumption DEF Init
  <2> QED  BY <2>1, <2>2 DEF HistoryType
<1> QED  BY <1>1, <1>2, <1>3, <1>4 DEF TypeOK

\* The type invariant holds in every reachable state.
THEOREM TypeCorrect == Spec => []TypeOK
<1>1. Init => TypeOK
  BY InitType
<1>2. TypeOK /\ [Next]_vars => TypeOK'
  BY TypeStep
<1> QED  BY <1>1, <1>2, PTL DEF Spec

-----------------------------------------------------------------------------
\* The steps that touch the remote branch.
LEMMA RemoteStep ==
  ASSUME [Next]_vars
  PROVE  \/ UNCHANGED remote
         \/ Accepted /\ remote' = tip[head]
         \/ \E e \in Foreign : remote' = Append(remote, {e})
<1> USE DEF Quiet, Untouched, ByHand, vars
<1>1. ASSUME Sync, ~PushAccepted  PROVE UNCHANGED remote
  BY <1>1 DEF Sync, BeginSync, CheckInProgress, CheckStatus, StampFiles, PickPaths, AddPaths,
     Recheck, GitCommit, FindUpstream, Fetch, CheckBehind, RebaseRefused, RebaseStart, RebaseDone,
     RebaseStop, Stopped, AbortRebase, CheckAhead, PushRejected, Finish
<1>2. ASSUME PushAccepted  PROVE Accepted /\ remote' = tip[head]
  BY <1>2 DEF PushAccepted
<1>3. ASSUME Failure  PROVE UNCHANGED remote \/ (Accepted /\ remote' = tip[head])
  BY <1>3 DEF Failure, Interrupted, NetworkDown, GitRefuses, Signal, Restart, Crash, MaybePushed
<1>4. ASSUME User  PROVE UNCHANGED remote
  BY <1>4 DEF User, Recovery, Save, UserMerge, UserCommit, UserStartRebase, UserDetach,
     UserReattach, UserResolve, UserConclude, UserAbortRebase, UserRebase, UserUnlock
<1>5. ASSUME NEW e \in Foreign, OtherPush(e)  PROVE remote' = Append(remote, {e})
  BY <1>5 DEF OtherPush
<1> QED  BY <1>1, <1>2, <1>3, <1>4, <1>5 DEF Next

-----------------------------------------------------------------------------
(* Nothing is lost.                                                        *)

Contents == <<wt, index, stash, op, tip, head, safe>>
Whole == TreeIsWhole /\ StashIsWhole
SyncInv == TypeOK /\ RebaseOwnsTree /\ Whole

\* Only the daemon's own rebase puts the repository into one, and the cycle
\* goes no further than InProgress while one is left behind.
LEMMA OwnsStep ==
  ASSUME RebaseOwnsTree, [Next]_vars
  PROVE  RebaseOwnsTree'
<1> USE DEF RebaseOwnsTree, Rebasing, Quiet, Untouched, ByHand, tree, daemon, At, Goto, Return, AfterPull
<1>1. ASSUME Sync  PROVE RebaseOwnsTree'
  <2>1. CASE BeginSync  BY <2>1 DEF BeginSync
  <2>2. CASE CheckInProgress  BY <2>2 DEF CheckInProgress
  <2>3. CASE CheckStatus  BY <2>3 DEF CheckStatus
  <2>4. CASE StampFiles \/ PickPaths  BY <2>4 DEF StampFiles, PickPaths
  <2>5. CASE AddPaths  BY <2>5 DEF AddPaths
  <2>6. CASE Recheck  BY <2>6 DEF Recheck
  <2>7. CASE GitCommit  BY <2>7 DEF GitCommit
  <2>8. CASE FindUpstream  BY <2>8 DEF FindUpstream
  <2>9. CASE Fetch \/ CheckBehind  BY <2>9 DEF Fetch, CheckBehind
  <2>10. CASE RebaseRefused  BY <2>10 DEF RebaseRefused
  <2>11. CASE RebaseStart  BY <2>11 DEF RebaseStart
  <2>12. CASE RebaseDone  BY <2>12 DEF RebaseDone
  <2>13. CASE RebaseStop \/ Stopped  BY <2>13 DEF RebaseStop, Stopped
  <2>14. CASE AbortRebase  BY <2>14 DEF AbortRebase
  <2>15. CASE CheckAhead \/ PushAccepted  BY <2>15 DEF CheckAhead, PushAccepted
  <2>16. CASE PushRejected \/ Finish  BY <2>16 DEF PushRejected, Finish
  <2> QED  BY <1>1, <2>1, <2>2, <2>3, <2>4, <2>5, <2>6, <2>7, <2>8, <2>9, <2>10, <2>11, <2>12,
              <2>13, <2>14, <2>15, <2>16 DEF Sync
<1>2. ASSUME Failure  PROVE RebaseOwnsTree'
  <2>1. CASE Interrupted  BY <2>1 DEF Interrupted, GitSteps, Locking, Pushing
  <2>2. CASE NetworkDown \/ GitRefuses \/ Signal  BY <2>2 DEF NetworkDown, GitRefuses, Signal
  <2>3. CASE Restart \/ Crash  BY <2>3 DEF Restart, Crash
  <2> QED  BY <1>2, <2>1, <2>2, <2>3 DEF Failure
<1>3. ASSUME User  PROVE RebaseOwnsTree'
  <2>1. ASSUME NEW e \in Mine, Save(e)  PROVE RebaseOwnsTree'
    BY <2>1 DEF Save
  <2>2. ASSUME NEW n \in Notes, UserMerge(n)  PROVE RebaseOwnsTree'
    BY <2>2 DEF UserMerge
  <2>3. CASE UserCommit \/ UserDetach \/ UserReattach
    BY <2>3 DEF UserCommit, UserDetach, UserReattach
  <2>4. CASE UserResolve \/ UserConclude
    BY <2>4 DEF UserResolve, UserConclude
  <2>5. CASE UserAbortRebase \/ UserRebase \/ UserUnlock
    BY <2>5 DEF UserAbortRebase, UserRebase, UserUnlock
  <2>6. CASE UserStartRebase
    BY <2>6 DEF UserStartRebase
  <2> QED  BY <1>3, <2>1, <2>2, <2>3, <2>4, <2>5, <2>6 DEF User, Recovery
<1>4. ASSUME NEW e \in Foreign, OtherPush(e)  PROVE RebaseOwnsTree'
  BY <1>4 DEF OtherPush
<1>5. CASE UNCHANGED vars
  BY <1>5 DEF vars
<1> QED  BY <1>1, <1>2, <1>3, <1>4, <1>5 DEF Next

\* The steps that touch what the repository holds.
LEMMA ContentStep ==
  ASSUME [Next]_vars
  PROVE  \/ UNCHANGED Contents
         \/ AddPaths \/ GitCommit \/ RebaseStart \/ RebaseDone \/ AbortRebase
         \/ Crash \/ (\E e \in Mine : Save(e)) \/ (\E n \in Notes : UserMerge(n))
         \/ UserCommit \/ UserStartRebase \/ UserDetach \/ UserReattach \/ UserResolve
         \/ UserConclude \/ UserAbortRebase \/ UserRebase
<1> USE DEF Contents, Quiet, Untouched, ByHand, vars, refs, tree, history
<1>1. ASSUME Sync
      PROVE UNCHANGED Contents \/ AddPaths \/ GitCommit \/ RebaseStart \/ RebaseDone \/ AbortRebase
  BY <1>1 DEF Sync, BeginSync, CheckInProgress, CheckStatus, StampFiles, PickPaths,
     Recheck, FindUpstream, Fetch, CheckBehind, RebaseRefused,
     RebaseStop, Stopped, CheckAhead, PushAccepted, PushRejected, Finish
<1>2. ASSUME Failure  PROVE UNCHANGED Contents \/ Crash
  BY <1>2 DEF Failure, Interrupted, NetworkDown, GitRefuses, Signal, Restart
<1>3. ASSUME UserUnlock  PROVE UNCHANGED Contents
  BY <1>3 DEF UserUnlock
<1>4. ASSUME NEW e \in Foreign, OtherPush(e)  PROVE UNCHANGED Contents
  BY <1>4 DEF OtherPush
<1> QED  BY <1>1, <1>2, <1>3, <1>4 DEF Next, User, Recovery

\* Every step leaves the user's saves in the worktree or, while a rebase is
\* in progress, in the autostash and the commits.
LEMMA WholeStep ==
  ASSUME SyncInv, [Next]_vars
  PROVE  Whole'
<1> USE DEF TreeIsWhole, StashIsWhole, Whole, HeadTree, BranchTree
<1>1. /\ tip \in [{"branch", "detached"} -> Seq(Commits)]
      /\ head \in {"branch", "detached"}
      /\ index \subseteq Edits /\ wt \subseteq Edits /\ tracking \in Seq(Commits)
      /\ tip["branch"] \in Seq(Commits) /\ tip[head] \in Seq(Commits)
  BY DEF SyncInv, TypeOK, TreeType, RefsType, Commits
<1>2. Whole /\ RebaseOwnsTree
  BY DEF SyncInv
<1>3. ASSUME NEW c \in Commits, tip' = [tip EXCEPT ![head] = Append(@, c)], head' = head
      PROVE  /\ TreeOf(tip'[head']) = HeadTree \cup c
             /\ BranchTree \subseteq TreeOf(tip'["branch"])
  BY <1>1, <1>3, TreeAppend
<1>4. ASSUME \E emptied \in SUBSET TreeOf(tracking) :
               tip' = [tip EXCEPT ![head] = Replayed(@, tracking, emptied)],
             head' = head
      PROVE  /\ TreeOf(tip'[head']) = TreeOf(tracking) \cup LocalTree
             /\ HeadTree \subseteq TreeOf(tip'[head'])
             /\ BranchTree \subseteq TreeOf(tip'["branch"])
  <2>1. PICK emptied \in SUBSET TreeOf(tracking) :
          tip' = [tip EXCEPT ![head] = Replayed(@, tracking, emptied)]
    BY <1>4
  <2>2. /\ TreeOf(Replayed(tip[head], tracking, emptied)) = TreeOf(tracking) \cup LocalTree
        /\ HeadTree \subseteq TreeOf(tracking) \cup LocalTree
    BY <1>1, ReplayedTree DEF LocalTree
  <2> QED  BY <1>1, <1>4, <2>1, <2>2
<1>5. CASE UNCHANGED Contents
  BY <1>2, <1>5 DEF Contents
<1>6. CASE AddPaths
  BY <1>2, <1>6 DEF AddPaths, Quiet, Untouched, tree, refs, history, At, RebaseOwnsTree, Rebasing, On
<1>7. CASE GitCommit
  <2>1. CASE Untouched
    BY <1>2, <1>7, <2>1 DEF GitCommit, Quiet, Untouched, tree, refs, history
  <2>2. CASE tip' = [tip EXCEPT ![head] = Append(@, index \ HeadTree)] /\ ~Untouched
    <3>1. /\ op # "rebase" /\ op' = "none"
          /\ UNCHANGED <<wt, index, stash, head, safe>>
      BY <1>2, <1>7, <2>2 DEF GitCommit, Quiet, history, At, RebaseOwnsTree, Rebasing
    <3>2. /\ TreeOf(tip'[head']) = HeadTree \cup (index \ HeadTree)
          /\ BranchTree \subseteq TreeOf(tip'["branch"])
      BY <1>1, <1>3, <2>2, <3>1 DEF Commits
    <3> QED  BY <1>2, <3>1, <3>2
  <2> QED  BY <1>7, <2>1, <2>2 DEF GitCommit
<1>8. CASE RebaseStart
  BY <1>2, <1>8 DEF RebaseStart, Quiet, refs, history
<1>9. CASE RebaseDone
  <2>1. /\ op = "rebase" /\ op' = "none" /\ stash' = {}
        /\ index' = TreeOf(tip'[head])
        /\ index' \cup stash \subseteq wt'
        /\ \E emptied \in SUBSET TreeOf(tracking) :
             tip' = [tip EXCEPT ![head] = Replayed(@, tracking, emptied)]
        /\ UNCHANGED <<head, safe>>
    BY <1>2, <1>9 DEF RebaseDone, Quiet, history, At, RebaseOwnsTree, Rebasing
  <2>2. /\ TreeOf(tip'[head']) = TreeOf(tracking) \cup LocalTree
        /\ HeadTree \subseteq TreeOf(tip'[head'])
        /\ BranchTree \subseteq TreeOf(tip'["branch"])
    BY <1>4, <2>1
  <2> QED  BY <1>2, <2>1, <2>2
<1>10. CASE AbortRebase
  <2>1. CASE Untouched
    BY <1>2, <1>10, <2>1 DEF AbortRebase, Quiet, Untouched, tree, refs, history
  <2>2. CASE ~Untouched
    <3>1. CASE UNCHANGED Contents
      BY <1>2, <3>1 DEF Contents
    <3>2. CASE ~UNCHANGED Contents
      <4>1. /\ op = "rebase" /\ op' = "none" /\ stash' = {} /\ index' = HeadTree
            /\ HeadTree \cup stash \subseteq wt'
            /\ UNCHANGED <<tip, head, safe>>
        BY <1>2, <1>10, <2>2, <3>2 DEF AbortRebase, Contents, refs, RebaseOwnsTree, Rebasing
      <4> QED  BY <1>2, <4>1
    <3> QED  BY <3>1, <3>2
  <2> QED  BY <2>1, <2>2
<1>11. CASE Crash
  <2>1. wt \subseteq wt' /\ UNCHANGED <<index, stash, op, tip, head, safe>>
    BY <1>11 DEF Crash, refs
  <2> QED  BY <1>2, <2>1
<1>12. ASSUME NEW e \in Mine, Save(e)  PROVE Whole'
  BY <1>2, <1>12 DEF Save, refs
<1>13. ASSUME NEW n \in Notes, UserMerge(n)  PROVE Whole'
  BY <1>2, <1>13 DEF UserMerge, refs
<1>14. CASE UserCommit
  <2>1. /\ op = "none" /\ UNCHANGED <<wt, stash, op, head, safe>>
        /\ index' = On(wt, Notes \ ScratchPaths)
        /\ tip' = [tip EXCEPT ![head] = Append(@, index' \ HeadTree)]
    BY <1>14 DEF UserCommit
  <2>2. index' \subseteq wt /\ index' \ HeadTree \in Commits
    BY <1>1, <2>1 DEF On, Commits
  <2>3. /\ TreeOf(tip'[head']) = HeadTree \cup (index' \ HeadTree)
        /\ BranchTree \subseteq TreeOf(tip'["branch"])
    BY <1>3, <2>1, <2>2
  <2> QED  BY <1>2, <2>1, <2>2, <2>3
<1>15. CASE UserDetach
  BY <1>1, <1>2, <1>15 DEF UserDetach, tree
<1>16. CASE UserReattach
  <2>1. /\ op = "none" /\ head = "detached" /\ head' = "branch"
        /\ tip' = [tip EXCEPT !["detached"] = <<>>]
        /\ wt' = (wt \ (HeadTree \ BranchTree)) \cup BranchTree
        /\ index' = (index \ (HeadTree \ BranchTree)) \cup BranchTree
        /\ safe' = safe \ (HeadTree \ BranchTree)
        /\ UNCHANGED <<op, stash>>
    BY <1>16 DEF UserReattach
  <2>2. tip'[head'] = tip["branch"] /\ tip'["branch"] = tip["branch"]
    BY <1>1, <2>1
  <2> QED  BY <1>2, <2>1, <2>2
<1>17. CASE UserResolve \/ UserConclude
  BY <1>2, <1>17 DEF UserResolve, UserConclude, refs
<1>18. CASE UserAbortRebase
  BY <1>2, <1>18 DEF UserAbortRebase, refs
<1>19. CASE UserRebase
  <2>1. /\ op = "none" /\ UNCHANGED <<op, stash, head, safe>>
        /\ index' = TreeOf(tip'[head])
        /\ wt' = wt \cup index'
        /\ \E emptied \in SUBSET TreeOf(tracking) :
             tip' = [tip EXCEPT ![head] = Replayed(@, tracking, emptied)]
    BY <1>19 DEF UserRebase
  <2>2. /\ TreeOf(tip'[head']) = TreeOf(tracking) \cup LocalTree
        /\ BranchTree \subseteq TreeOf(tip'["branch"])
    BY <1>4, <2>1
  <2> QED  BY <1>2, <2>1, <2>2
<1>20. CASE UserStartRebase
  BY <1>2, <1>20 DEF UserStartRebase, ByHand, refs
<1> QED  BY <1>5, <1>6, <1>7, <1>8, <1>9, <1>10, <1>11, <1>12, <1>13, <1>14, <1>15, <1>16,
            <1>17, <1>18, <1>19, <1>20, ContentStep

\* The inductive invariant: types, who owns the worktree, and where the saves
\* are.
THEOREM SyncInvariant == Spec => []SyncInv
<1>1. Init => RebaseOwnsTree /\ Whole
  BY DEF Init, RebaseOwnsTree, Rebasing, Whole, TreeIsWhole, StashIsWhole, HeadTree, BranchTree,
         TreeOf, Range
<1>2. SyncInv /\ [Next]_vars => SyncInv'
  BY TypeStep, OwnsStep, WholeStep DEF SyncInv
<1>3. Init => TypeOK
  BY InitType
<1> QED  BY <1>1, <1>2, <1>3, PTL DEF Spec, SyncInv

\* Whatever the user saved is still somewhere in the repository.
THEOREM NothingLostEver == Spec => []NothingLost
<1>1. SyncInv => NothingLost
  BY DEF SyncInv, Whole, TreeIsWhole, StashIsWhole, NothingLost
<1> QED  BY <1>1, SyncInvariant, PTL

-----------------------------------------------------------------------------
(* Dry runs.                                                               *)

\* The steps a dry run gets to.
DryPcs == {"idle", "inprogress", "status", "stamp", "commit", "upstream", "pull", "pushstatus", "done"}
DryInv == cfg.dryRun => ~retry /\ pc \in DryPcs

\* The configuration is read once; only the cycle and what stops it move pc.
LEMMA DaemonStep ==
  ASSUME [Next]_vars
  PROVE  /\ cfg' = cfg
         /\ \/ Sync \/ Failure
            \/ UNCHANGED daemon
<1> USE DEF Quiet, Untouched, ByHand, vars
<1>1. ASSUME Sync  PROVE cfg' = cfg
  BY <1>1 DEF Sync, BeginSync, CheckInProgress, CheckStatus, StampFiles, PickPaths, AddPaths,
     Recheck, GitCommit, FindUpstream, Fetch, CheckBehind, RebaseRefused, RebaseStart, RebaseDone,
     RebaseStop, Stopped, AbortRebase, CheckAhead, PushAccepted, PushRejected, Finish
<1>2. ASSUME Failure  PROVE cfg' = cfg
  BY <1>2 DEF Failure, Interrupted, NetworkDown, GitRefuses, Signal, Restart, Crash
<1>3. ASSUME User  PROVE cfg' = cfg /\ UNCHANGED daemon
  BY <1>3 DEF User, Recovery, Save, UserMerge, UserCommit, UserStartRebase, UserDetach,
     UserReattach, UserResolve, UserConclude, UserAbortRebase, UserRebase, UserUnlock
<1>4. ASSUME NEW e \in Foreign, OtherPush(e)  PROVE cfg' = cfg /\ UNCHANGED daemon
  BY <1>4 DEF OtherPush
<1> QED  BY <1>1, <1>2, <1>3, <1>4 DEF Next

\* A dry run passes by every step that writes, and touches nothing on its way.
LEMMA DryStep ==
  ASSUME DryInv, [Next]_vars
  PROVE  /\ DryInv'
         /\ cfg.dryRun /\ pc' # pc => UNCHANGED <<tree, refs, remote>>
<1> USE DEF DryInv, DryPcs, Quiet, Untouched, At, Goto, Return, AfterPull
<1>0. cfg' = cfg
  BY DaemonStep
<1>1. ASSUME cfg.dryRun, Sync
      PROVE  ~retry' /\ pc' \in DryPcs /\ UNCHANGED <<tree, refs, remote>>
  <2>1. CASE BeginSync \/ CheckInProgress
    BY <1>1, <2>1 DEF BeginSync, CheckInProgress
  <2>2. CASE CheckStatus \/ StampFiles \/ PickPaths
    BY <1>1, <2>2 DEF CheckStatus, StampFiles, PickPaths
  <2>3. CASE FindUpstream
    BY <1>1, <2>3 DEF FindUpstream
  <2>4. CASE Fetch
    BY <1>1, <2>4 DEF Fetch, refs
  <2>5. CASE CheckAhead \/ Finish
    BY <1>1, <2>5 DEF CheckAhead, Finish
  <2>6. ~(AddPaths \/ Recheck \/ GitCommit \/ CheckBehind \/ RebaseRefused \/ RebaseStart \/ RebaseDone
          \/ RebaseStop \/ Stopped \/ AbortRebase \/ PushAccepted \/ PushRejected)
    BY <1>1 DEF AddPaths, Recheck, GitCommit, CheckBehind, RebaseRefused, RebaseStart, RebaseDone,
       RebaseStop, Stopped, AbortRebase, PushAccepted, PushRejected
  <2> QED  BY <1>1, <2>1, <2>2, <2>3, <2>4, <2>5, <2>6 DEF Sync
<1>2. ASSUME cfg.dryRun, Failure
      PROVE  ~retry' /\ pc' \in DryPcs /\ UNCHANGED <<tree, refs, remote>>
  <2>1. MaybeLock => UNCHANGED lock
    BY <1>2 DEF MaybeLock, Locking
  <2>2. MaybePushed => UNCHANGED remote
    BY <1>2 DEF MaybePushed, Pushing
  <2>3. CASE Interrupted
    BY <1>2, <2>1, <2>2, <2>3 DEF Interrupted, tree, refs
  <2>4. CASE NetworkDown \/ GitRefuses
    BY <1>2, <2>4 DEF NetworkDown, GitRefuses
  <2>5. CASE Signal \/ Restart
    BY <1>2, <2>5 DEF Signal, Restart
  <2>6. CASE Crash
    BY <1>2, <2>1, <2>2, <2>6 DEF Crash, tree, refs
  <2> QED  BY <1>2, <2>3, <2>4, <2>5, <2>6 DEF Failure
<1> QED  BY <1>0, <1>1, <1>2, DaemonStep DEF daemon

\* A dry run changes neither files, index, branches nor the remote, whatever
\* interrupts it.
THEOREM DryRunAlwaysTouchesNothing == Spec => DryRunTouchesNothing
<1>1. Init => DryInv
  BY DEF Init, DryInv, DryPcs
<1>2. DryInv /\ [Next]_vars => DryInv'
  BY DryStep
<1>3. ASSUME DryInv, [Next]_vars
      PROVE  [cfg.dryRun /\ pc' # pc => UNCHANGED <<tree, refs, remote>>]_vars
  BY <1>3, DryStep
<1> QED  BY <1>1, <1>2, <1>3, PTL DEF Spec, DryRunTouchesNothing

-----------------------------------------------------------------------------
(* What the guards have established.                                       *)

\* The steps between the guards and the commit.
Guarded == {"stamp", "commit", "add", "recheck", "gitcommit"}

\* As long as nobody has used git on the worktree since, it is as the guards
\* found it; and without an operation in progress no path is unmerged.
GuardInv ==
  /\ ~raced /\ pc \in Guarded \cup {"status"} => op = "none"
  /\ ~raced /\ pc \notin {"idle", "inprogress", "status"} => head = "branch"
  /\ op = "none" /\ pc \in Guarded => unmerged = {}

\* Conflict markers are staged in the user's merge only, and are otherwise in
\* files that are listed as unmerged.
MarkerInv ==
  /\ op # "merge" => staged = {}
  /\ op # "rebase" => marked \subseteq unmerged \cup staged

CheckedInv == RebaseOwnsTree /\ GuardInv /\ MarkerInv

LEMMA GuardStep ==
  ASSUME CheckedInv, [Next]_vars
  PROVE  GuardInv'
<1> USE DEF CheckedInv, GuardInv, Guarded, Quiet, Untouched, ByHand, tree, refs, daemon, history,
            At, Goto, Return, AfterPull
<1>1. ASSUME Sync  PROVE GuardInv'
  <2>1. CASE BeginSync  BY <2>1 DEF BeginSync
  <2>2. CASE CheckInProgress  BY <2>2 DEF CheckInProgress
  <2>3. CASE CheckStatus  BY <2>3 DEF CheckStatus
  <2>4. CASE StampFiles \/ PickPaths  BY <2>4 DEF StampFiles, PickPaths
  <2>5. CASE AddPaths  BY <2>5 DEF AddPaths
  <2>6. CASE Recheck  BY <2>6 DEF Recheck
  <2>7. CASE GitCommit  BY <2>7 DEF GitCommit
  <2>8. CASE FindUpstream  BY <2>8 DEF FindUpstream
  <2>9. CASE Fetch \/ CheckBehind  BY <2>9 DEF Fetch, CheckBehind
  <2>10. CASE RebaseRefused  BY <2>10 DEF RebaseRefused
  <2>11. CASE RebaseStart  BY <2>11 DEF RebaseStart
  <2>12. CASE RebaseDone  BY <2>12 DEF RebaseDone
  <2>13. CASE RebaseStop \/ Stopped  BY <2>13 DEF RebaseStop, Stopped
  <2>14. CASE AbortRebase  BY <2>14 DEF AbortRebase
  <2>15. CASE CheckAhead \/ PushAccepted  BY <2>15 DEF CheckAhead, PushAccepted
  <2>16. CASE PushRejected \/ Finish  BY <2>16 DEF PushRejected, Finish
  <2> QED  BY <1>1, <2>1, <2>2, <2>3, <2>4, <2>5, <2>6, <2>7, <2>8, <2>9, <2>10, <2>11, <2>12,
              <2>13, <2>14, <2>15, <2>16 DEF Sync
<1>2. ASSUME Failure  PROVE GuardInv'
  <2>1. CASE Interrupted  BY <2>1 DEF Interrupted, GitSteps, Locking, Pushing
  <2>2. CASE NetworkDown \/ GitRefuses \/ Signal  BY <2>2 DEF NetworkDown, GitRefuses, Signal
  <2>3. CASE Restart \/ Crash  BY <2>3 DEF Restart, Crash
  <2> QED  BY <1>2, <2>1, <2>2, <2>3 DEF Failure
<1>3. ASSUME User  PROVE GuardInv'
  <2>1. ASSUME NEW e \in Mine, Save(e)  PROVE GuardInv'
    BY <2>1 DEF Save
  <2>2. ASSUME NEW n \in Notes, UserMerge(n)  PROVE GuardInv'
    BY <2>2 DEF UserMerge
  <2>3. CASE UserCommit \/ UserDetach \/ UserReattach
    BY <2>3 DEF UserCommit, UserDetach, UserReattach
  <2>4. CASE UserResolve \/ UserConclude
    BY <2>4 DEF UserResolve, UserConclude
  <2>5. CASE UserAbortRebase \/ UserRebase \/ UserUnlock
    BY <2>5 DEF UserAbortRebase, UserRebase, UserUnlock
  <2>6. CASE UserStartRebase
    BY <2>6 DEF UserStartRebase
  <2> QED  BY <1>3, <2>1, <2>2, <2>3, <2>4, <2>5, <2>6 DEF User, Recovery
<1>4. ASSUME NEW e \in Foreign, OtherPush(e)  PROVE GuardInv'
  BY <1>4 DEF OtherPush
<1>5. CASE UNCHANGED vars
  BY <1>5 DEF vars
<1> QED  BY <1>1, <1>2, <1>3, <1>4, <1>5 DEF Next

\* The steps that touch markers, the index's conflicts or the operation.
LEMMA MarkerFrame ==
  ASSUME [Next]_vars
  PROVE  \/ UNCHANGED <<marked, staged, unmerged, op>>
         \/ AddPaths \/ GitCommit \/ RebaseStart \/ RebaseDone \/ RebaseStop \/ AbortRebase
         \/ (\E n \in Notes : UserMerge(n)) \/ UserStartRebase
         \/ UserCommit \/ UserResolve \/ UserConclude \/ UserAbortRebase \/ UserRebase
<1> USE DEF Quiet, Untouched, ByHand, vars, tree
<1>1. ASSUME Sync
      PROVE  \/ UNCHANGED <<marked, staged, unmerged, op>>
             \/ AddPaths \/ GitCommit \/ RebaseStart \/ RebaseDone \/ RebaseStop \/ AbortRebase
  BY <1>1 DEF Sync, BeginSync, CheckInProgress, CheckStatus, StampFiles, PickPaths,
     Recheck, FindUpstream, Fetch, CheckBehind, RebaseRefused,
     Stopped, CheckAhead, PushAccepted, PushRejected, Finish
<1>2. ASSUME Failure  PROVE UNCHANGED <<marked, staged, unmerged, op>>
  BY <1>2 DEF Failure, Interrupted, NetworkDown, GitRefuses, Signal, Restart, Crash
<1>3. ASSUME (\E e \in Mine : Save(e)) \/ UserDetach \/ UserReattach \/ UserUnlock
      PROVE  UNCHANGED <<marked, staged, unmerged, op>>
  BY <1>3 DEF Save, UserDetach, UserReattach, UserUnlock
<1>4. ASSUME NEW e \in Foreign, OtherPush(e)  PROVE UNCHANGED <<marked, staged, unmerged, op>>
  BY <1>4 DEF OtherPush
<1> QED  BY <1>1, <1>2, <1>3, <1>4 DEF Next, User, Recovery

LEMMA MarkerStep ==
  ASSUME TypeOK, CheckedInv, [Next]_vars
  PROVE  MarkerInv'
<1> USE DEF CheckedInv, MarkerInv, Untouched, tree
<1>0. op \in {"none", "rebase", "merge"}
  BY DEF TypeOK, TreeType
<1>1. CASE UNCHANGED <<marked, staged, unmerged, op>>
  BY <1>1
<1>2. CASE AddPaths
  BY <1>0, <1>2 DEF AddPaths, At, GuardInv, Guarded, RebaseOwnsTree, Rebasing
<1>3. CASE GitCommit
  BY <1>0, <1>3 DEF GitCommit, At, GuardInv, Guarded, RebaseOwnsTree, Rebasing
<1>4. CASE RebaseStart
  BY <1>4 DEF RebaseStart
<1>5. CASE RebaseDone \/ RebaseStop
  BY <1>5 DEF RebaseDone, RebaseStop, RebaseOwnsTree, Rebasing, At
<1>6. CASE AbortRebase
  BY <1>6 DEF AbortRebase
<1>7. ASSUME NEW n \in Notes, UserMerge(n)  PROVE MarkerInv'
  BY <1>7 DEF UserMerge
<1>8. CASE UserCommit
  BY <1>8 DEF UserCommit
<1>9. CASE UserResolve \/ UserConclude
  BY <1>9 DEF UserResolve, UserConclude
<1>10. CASE UserAbortRebase
  BY <1>10 DEF UserAbortRebase
<1>11. CASE UserRebase
  BY <1>11 DEF UserRebase
<1>12. CASE UserStartRebase
  BY <1>12 DEF UserStartRebase
<1> QED  BY <1>1, <1>2, <1>3, <1>4, <1>5, <1>6, <1>7, <1>8, <1>9, <1>10, <1>11, <1>12, MarkerFrame

\* Conflict markers, a merge of the user's or a commit on a detached HEAD are
\* committed only in a cycle whose guards the user overtook.
THEOREM CommitsOnlyWhatItChecked == Spec => CommitsWhatItChecked
<1>1. Init => CheckedInv
  BY DEF Init, CheckedInv, RebaseOwnsTree, Rebasing, GuardInv, Guarded, MarkerInv
<1>2. TypeOK /\ CheckedInv /\ [Next]_vars => CheckedInv'
  BY OwnsStep, GuardStep, MarkerStep DEF CheckedInv
<1>3. ASSUME CheckedInv, [Next]_vars
      PROVE  [pc = "gitcommit" /\ pc' = "upstream" =>
                raced \/ (head = "branch" /\ op = "none" /\ staged = {})]_vars
  BY <1>3 DEF CheckedInv, GuardInv, Guarded, MarkerInv
<1> QED  BY <1>1, <1>2, <1>3, TypeCorrect, PTL DEF Spec, CommitsWhatItChecked

-----------------------------------------------------------------------------
(* Scratch files.                                                          *)

Clean(t) == \A e \in t : NoteOf[e] \notin ScratchPaths

\* Everything that is committed, staged or published comes from a filtered
\* add, from another machine, or from a commit that is clean already.
CleanInv ==
  /\ Clean(index)
  /\ \A h \in {"branch", "detached"} : Clean(TreeOf(tip[h]))
  /\ Clean(TreeOf(tracking)) /\ Clean(TreeOf(remote))

\* Replaying takes commits from the two branches and makes none up.
LEMMA CleanReplay ==
  ASSUME NEW q \in Seq(Commits), NEW r \in Seq(Commits), Clean(TreeOf(q)), Clean(TreeOf(r))
  PROVE  /\ Clean(TreeOf(Unshared(q, r)))
         /\ \A emptied \in SUBSET TreeOf(r) : Clean(TreeOf(Replayed(q, r, emptied)))
<1> DEFINE k == Shared(q, r)
           u == Unshared(q, r)
<1>1. k \in 0..Len(q) /\ Len(q) \in Nat
  BY SharedIsPrefix
<1>2. u \in Seq(Commits) /\ \A i \in 1..Len(u) : k + i \in 1..Len(q) /\ u[i] = q[k + i]
  <2> HIDE DEF k
  <2>1. u = SubSeq(q, k + 1, Len(q))
    BY DEF Unshared, k
  <2>2. /\ u \in Seq(Commits) /\ Len(u) = Len(q) - k
        /\ \A i \in 1..(Len(q) - k) : u[i] = q[k + i]
    BY <2>1, <1>1, SubSeqProperties
  <2> QED  BY <2>2, <1>1
<1>3. Range(u) \subseteq Range(q)
  <2> HIDE DEF u
  <2> QED  BY <1>2 DEF Range
<1>4. TreeOf(u) \subseteq TreeOf(q)
  BY <1>3 DEF TreeOf
<1>5. \A emptied \in SUBSET TreeOf(r) :
        TreeOf(Replayed(q, r, emptied)) = TreeOf(r) \cup TreeOf(u)
  BY ReplayedTree
<1> QED  BY <1>4, <1>5 DEF Clean

\* The steps that touch the index, the branches or what is known of the
\* remote.
LEMMA CleanFrame ==
  ASSUME [Next]_vars
  PROVE  \/ UNCHANGED <<index, tip, tracking>>
         \/ AddPaths \/ GitCommit \/ Fetch \/ RebaseStart \/ RebaseDone \/ AbortRebase \/ PushAccepted
         \/ UserCommit \/ UserStartRebase \/ UserDetach \/ UserReattach \/ UserResolve
         \/ UserAbortRebase \/ UserRebase
<1> USE DEF Quiet, Untouched, ByHand, vars, tree, refs
<1>1. ASSUME Sync
      PROVE  \/ UNCHANGED <<index, tip, tracking>>
             \/ AddPaths \/ GitCommit \/ Fetch \/ RebaseStart \/ RebaseDone \/ AbortRebase \/ PushAccepted
  BY <1>1 DEF Sync, BeginSync, CheckInProgress, CheckStatus, StampFiles, PickPaths, Recheck,
     FindUpstream, CheckBehind, RebaseRefused, RebaseStop, Stopped, CheckAhead, PushRejected, Finish
<1>2. ASSUME Failure  PROVE UNCHANGED <<index, tip, tracking>>
  BY <1>2 DEF Failure, Interrupted, NetworkDown, GitRefuses, Signal, Restart, Crash
<1>3. ASSUME (\E e \in Mine : Save(e)) \/ (\E n \in Notes : UserMerge(n)) \/ UserConclude \/ UserUnlock
      PROVE  UNCHANGED <<index, tip, tracking>>
  BY <1>3 DEF Save, UserMerge, UserConclude, UserUnlock
<1>4. ASSUME NEW e \in Foreign, OtherPush(e)  PROVE UNCHANGED <<index, tip, tracking>>
  BY <1>4 DEF OtherPush
<1> QED  BY <1>1, <1>2, <1>3, <1>4 DEF Next, User, Recovery

\* Every step keeps scratch out.
LEMMA CleanStep ==
  ASSUME TypeOK, CleanInv, [Next]_vars
  PROVE  CleanInv'
<1>1. /\ tip \in [{"branch", "detached"} -> Seq(Commits)]
      /\ head \in {"branch", "detached"}
      /\ index \subseteq Edits /\ wt \subseteq Edits
      /\ tip[head] \in Seq(Commits) /\ tracking \in Seq(Commits) /\ remote \in Seq(Commits)
  BY DEF TypeOK, TreeType, RefsType, Commits
<1>2. Clean(HeadTree) /\ Clean(BranchTree) /\ Clean(LocalTree)
      /\ \A emptied \in SUBSET TreeOf(tracking) : Clean(TreeOf(Replayed(tip[head], tracking, emptied)))
  BY <1>1, CleanReplay DEF CleanInv, HeadTree, BranchTree, LocalTree
<1>3. Clean(TreeOf(remote'))
  <2>1. ASSUME NEW e \in Foreign, remote' = Append(remote, {e})  PROVE Clean(TreeOf(remote'))
    <3>1. {e} \in Commits /\ NoteOf[e] \notin ScratchPaths
      BY SyncAssumption DEF Commits, Edits
    <3>2. TreeOf(remote') = TreeOf(remote) \cup {e}
      BY <1>1, <2>1, <3>1, TreeAppend
    <3> QED  BY <3>1, <3>2 DEF CleanInv, Clean
  <2> QED  BY <1>2, <2>1, RemoteStep DEF CleanInv, HeadTree
<1>4. ASSUME NEW c \in Commits, Clean(c), tip' = [tip EXCEPT ![head] = Append(@, c)]
      PROVE  \A h \in {"branch", "detached"} : Clean(TreeOf(tip'[h]))
  <2>1. TreeOf(Append(tip[head], c)) = TreeOf(tip[head]) \cup c
    BY <1>1, TreeAppend
  <2>2. Clean(TreeOf(Append(tip[head], c)))
    BY <1>1, <1>4, <2>1 DEF CleanInv, Clean
  <2> QED  BY <1>1, <1>4, <2>2 DEF CleanInv
<1>5. ASSUME \E emptied \in SUBSET TreeOf(tracking) :
               tip' = [tip EXCEPT ![head] = Replayed(@, tracking, emptied)]
      PROVE  \A h \in {"branch", "detached"} : Clean(TreeOf(tip'[h]))
  BY <1>1, <1>2, <1>5 DEF CleanInv
<1>6. CASE UNCHANGED <<index, tip, tracking>>
  BY <1>3, <1>6 DEF CleanInv
<1>7. CASE AddPaths
  <2>1. UNCHANGED <<tip, tracking>>
    BY <1>7 DEF AddPaths, Untouched, refs
  <2>2. \/ index' = index
        \/ index' = On(wt, paths \ ScratchPaths) \cup On(index, Notes \ (paths \ ScratchPaths))
    BY <1>7 DEF AddPaths, Untouched, tree
  <2>3. Clean(index')
    BY <2>2 DEF CleanInv, Clean, On
  <2> QED  BY <1>3, <2>1, <2>3 DEF CleanInv
<1>8. CASE GitCommit
  <2>1. UNCHANGED <<index, tracking>>
    BY <1>8 DEF GitCommit, Untouched, tree, refs
  <2>2. CASE UNCHANGED tip
    BY <1>3, <2>1, <2>2 DEF CleanInv
  <2>3. CASE tip' = [tip EXCEPT ![head] = Append(@, index \ HeadTree)]
    <3>1. index \ HeadTree \in Commits /\ Clean(index \ HeadTree)
      BY <1>1 DEF Commits, CleanInv, Clean
    <3> QED  BY <1>3, <1>4, <2>1, <2>3, <3>1 DEF CleanInv
  <2> QED  BY <1>8, <2>2, <2>3 DEF GitCommit, Untouched, refs
<1>9. CASE Fetch
  <2>1. UNCHANGED <<index, tip>> /\ (UNCHANGED tracking \/ tracking' = remote)
    BY <1>9 DEF Fetch, tree
  <2> QED  BY <1>3, <2>1 DEF CleanInv
<1>10. CASE RebaseStart \/ UserStartRebase
  <2>1. index' = TreeOf(tracking) /\ UNCHANGED <<tip, tracking>>
    BY <1>10 DEF RebaseStart, UserStartRebase, refs
  <2> QED  BY <1>3, <2>1 DEF CleanInv
<1>11. CASE RebaseDone \/ UserRebase
  <2>1. /\ index' = TreeOf(tip'[head]) /\ UNCHANGED tracking
        /\ \E emptied \in SUBSET TreeOf(tracking) :
             tip' = [tip EXCEPT ![head] = Replayed(@, tracking, emptied)]
    BY <1>11 DEF RebaseDone, UserRebase
  <2>2. Clean(index')
    BY <1>1, <1>5, <2>1
  <2> QED  BY <1>3, <1>5, <2>1, <2>2 DEF CleanInv
<1>12. CASE AbortRebase \/ UserResolve \/ UserAbortRebase
  <2>1. index' \in {index, HeadTree} /\ UNCHANGED <<tip, tracking>>
    BY <1>12 DEF AbortRebase, UserResolve, UserAbortRebase, Untouched, tree, refs
  <2> QED  BY <1>2, <1>3, <2>1 DEF CleanInv
<1>13. CASE PushAccepted
  <2>1. tracking' = tip[head] /\ UNCHANGED <<index, tip>>
    BY <1>13 DEF PushAccepted, tree
  <2> QED  BY <1>2, <1>3, <2>1 DEF CleanInv, HeadTree
<1>14. CASE UserCommit
  <2> DEFINE all == On(wt, Notes \ ScratchPaths)
  <2>1. /\ index' = all /\ UNCHANGED tracking
        /\ tip' = [tip EXCEPT ![head] = Append(@, all \ HeadTree)]
    BY <1>14 DEF UserCommit
  <2>2. all \ HeadTree \in Commits /\ Clean(all) /\ Clean(all \ HeadTree)
    BY <1>1 DEF Commits, Clean, On
  <2> QED  BY <1>3, <1>4, <2>1, <2>2 DEF CleanInv
<1>15. CASE UserDetach
  <2>1. UNCHANGED <<index, tracking>> /\ tip' = [tip EXCEPT !["detached"] = tip["branch"]]
    BY <1>15 DEF UserDetach, tree
  <2>2. \A h \in {"branch", "detached"} : tip'[h] = tip["branch"] \/ tip'[h] = tip[h]
    BY <1>1, <2>1
  <2> QED  BY <1>3, <2>1, <2>2 DEF CleanInv
<1>16. CASE UserReattach
  <2>1. /\ UNCHANGED tracking
        /\ index' = (index \ (HeadTree \ BranchTree)) \cup BranchTree
        /\ tip' = [tip EXCEPT !["detached"] = <<>>]
    BY <1>16 DEF UserReattach
  <2>2. Clean(index')
    BY <1>2, <2>1 DEF CleanInv, Clean
  <2>3. Clean(TreeOf(<<>>))
    BY DEF Clean, TreeOf, Range
  <2>4. tip'["branch"] = tip["branch"] /\ tip'["detached"] = <<>>
    BY <1>1, <2>1
  <2> QED  BY <1>3, <2>1, <2>2, <2>3, <2>4 DEF CleanInv
<1> QED  BY <1>6, <1>7, <1>8, <1>9, <1>10, <1>11, <1>12, <1>13, <1>14, <1>15, <1>16, CleanFrame

\* A temp file of writeAtomic that a crash has left reaches no commit.
THEOREM ScratchAlwaysStaysOut == Spec => []ScratchStaysOut
<1>1. Init => CleanInv
  <2>1. Clean(TreeOf(<<>>)) /\ Clean({})
    BY DEF Clean, TreeOf, Range
  <2> QED  BY <2>1 DEF Init, CleanInv
<1>2. TypeOK /\ CleanInv /\ [Next]_vars => CleanInv'
  BY CleanStep
<1>3. TypeOK /\ CleanInv => ScratchStaysOut
  BY DEF TypeOK, RefsType, CleanInv, Clean, ScratchStaysOut, NotesOf, BranchTree, HeadTree
<1> QED  BY <1>1, <1>2, <1>3, TypeCorrect, PTL DEF Spec

-----------------------------------------------------------------------------
(* What success means.                                                     *)

\* A prefix has no save that the whole has not.
LEMMA PrefixTree ==
  ASSUME NEW q \in Seq(Commits), NEW r \in Seq(Commits), IsPrefix(q, r)
  PROVE  TreeOf(q) \subseteq TreeOf(r)
<1>1. Len(q) <= Len(r) /\ q = SubSeq(r, 1, Len(q)) /\ Len(q) \in Nat /\ Len(r) \in Nat
  BY DEF IsPrefix
<1>2. \A i \in 1..Len(q) : i \in 1..Len(r) /\ q[i] = r[i]
  BY <1>1, SubSeqProperties
<1>3. Range(q) \subseteq Range(r)
  BY <1>2 DEF Range
<1> QED  BY <1>3 DEF TreeOf

\* With no commit ahead, the branch has no save that its upstream has not.
LEMMA NoneAhead ==
  ASSUME TypeOK, Counted, Ahead = 0
  PROVE  BranchTree \subseteq TreeOf(tracking)
<1> DEFINE q == tip["branch"]
<1>1. q \in Seq(Commits) /\ tracking \in Seq(Commits) /\ head = "branch"
  BY DEF TypeOK, RefsType, Commits, Counted
<1>2. /\ Shared(q, tracking) \in 0..Len(q) /\ Shared(q, tracking) <= Len(tracking)
      /\ \A i \in 1..Shared(q, tracking) : q[i] = tracking[i]
  BY <1>1, SharedIsPrefix
<1>3. Len(q) - Shared(q, tracking) = 0 /\ Len(q) \in Nat /\ Len(tracking) \in Nat
  BY <1>1 DEF Ahead, Counted
<1>4. \A i \in 1..Len(q) : i \in 1..Len(tracking) /\ q[i] = tracking[i]
  BY <1>2, <1>3
<1>5. Range(q) \subseteq Range(tracking)
  BY <1>4 DEF Range
<1> QED  BY <1>5 DEF TreeOf, BranchTree

\* What is known of the remote is there, and a cycle that is done has
\* published the branch unless the user moved it meanwhile.
PublishInv ==
  /\ TreeOf(tracking) \subseteq TreeOf(remote)
  /\ pc = "done" /\ cfg.push /\ ~raced => BranchTree \subseteq TreeOf(remote)

LEMMA PublishStep ==
  ASSUME TypeOK, CheckedInv, PublishInv, [Next]_vars
  PROVE  PublishInv'
<1>1. /\ tip[head] \in Seq(Commits) /\ tracking \in Seq(Commits) /\ remote \in Seq(Commits)
      /\ remote' \in Seq(Commits)
  BY TypeStep DEF TypeOK, RefsType, Commits
<1>2. TreeOf(remote) \subseteq TreeOf(remote')
  <2>1. ASSUME NEW e \in Foreign, remote' = Append(remote, {e})
        PROVE  TreeOf(remote) \subseteq TreeOf(remote')
    <3>1. {e} \in Commits
      BY DEF Commits, Edits
    <3> QED  BY <1>1, <2>1, <3>1, TreeAppend
  <2> QED  BY <1>1, <2>1, RemoteStep, PrefixTree DEF Accepted
<1>3. CASE PushAccepted
  <2>1. /\ remote' = tip[head] /\ tracking' = tip[head] /\ UNCHANGED <<tip, head>>
        /\ pc \in {"push", "pushagain"} /\ UNCHANGED raced
    BY <1>3 DEF PushAccepted, At, Quiet, history
  <2>2. ~raced => head = "branch"
    BY <2>1 DEF CheckedInv, GuardInv
  <2> QED  BY <2>1, <2>2 DEF PublishInv, BranchTree
<1>4. CASE Fetch
  <2>1. (tracking' = remote /\ pc' = "behind") \/ UNCHANGED tracking
    BY <1>4 DEF Fetch
  <2>2. cfg' = cfg /\ (pc' = "done" => ~cfg.push)
    BY <1>4, DaemonStep DEF Fetch, Goto, AfterPull
  <2> QED  BY <1>2, <2>1, <2>2 DEF PublishInv
<1>5. CASE ~PushAccepted /\ ~Fetch
  <2>1. UNCHANGED tracking
    BY <1>5, CleanFrame DEF AddPaths, GitCommit, RebaseStart, RebaseDone, AbortRebase, UserCommit,
       UserStartRebase, UserDetach, UserReattach, UserResolve, UserAbortRebase, UserRebase, Untouched, refs
  <2>2. ASSUME pc' = "done", cfg'.push, ~raced'
        PROVE  pc = "done" /\ cfg.push /\ ~raced /\ UNCHANGED tip
    <3> USE DEF Quiet, Untouched, ByHand, vars, refs, daemon, history, At, Goto, Return, AfterPull
    <3>1. cfg' = cfg
      BY DaemonStep
    <3>2. ~Sync
      BY <1>5, <2>2, <3>1 DEF Sync, BeginSync, CheckInProgress, CheckStatus, StampFiles, PickPaths,
         AddPaths, Recheck, GitCommit, FindUpstream, CheckBehind, RebaseRefused, RebaseStart,
         RebaseDone, RebaseStop, Stopped, AbortRebase, CheckAhead, PushRejected, Finish
    <3>3. CASE Failure
      BY <2>2, <3>1, <3>3 DEF Failure, Interrupted, NetworkDown, GitRefuses, Signal, Restart, Crash
    <3>4. CASE User
      <4>1. ASSUME NEW e \in Mine, Save(e)  PROVE pc = "done" /\ ~raced /\ UNCHANGED tip
        BY <2>2, <4>1 DEF Save
      <4>2. ~ByHand
        BY <2>2
      <4> QED  BY <2>2, <3>1, <3>4, <4>1, <4>2 DEF User, Recovery, UserMerge, UserCommit, UserStartRebase, UserDetach,
                  UserReattach, UserResolve, UserConclude, UserAbortRebase, UserRebase, UserUnlock
    <3>5. ASSUME NEW e \in Foreign, OtherPush(e)  PROVE pc = "done" /\ ~raced /\ UNCHANGED tip
      BY <2>2, <3>5 DEF OtherPush
    <3>6. CASE UNCHANGED vars
      BY <2>2, <3>6
    <3> QED  BY <2>2, <3>1, <3>2, <3>3, <3>4, <3>5, <3>6 DEF Next
  <2> QED  BY <1>2, <2>1, <2>2 DEF PublishInv, BranchTree
<1> QED  BY <1>3, <1>4, <1>5

\* A cycle that returns no error has published every commit of the branch,
\* whatever was rejected, lost or pushed by others on the way.
THEOREM SuccessAlwaysMeansPublished == Spec => SuccessMeansPublished
<1> DEFINE Goal == pc # "idle" /\ pc' = "idle" /\ err' = "none"
                   /\ cfg.push /\ ~cfg.dryRun /\ cfg.upstream = "present" /\ ~raced
                   => BranchTree \subseteq TreeOf(remote)
<1>1. Init => CheckedInv /\ PublishInv
  BY DEF Init, CheckedInv, RebaseOwnsTree, Rebasing, GuardInv, Guarded, MarkerInv, PublishInv
<1>2. TypeOK /\ CheckedInv /\ PublishInv /\ [Next]_vars => CheckedInv' /\ PublishInv'
  BY OwnsStep, GuardStep, MarkerStep, PublishStep DEF CheckedInv
<1>3. ASSUME TypeOK, CheckedInv, PublishInv, [Next]_vars  PROVE [Goal]_vars
  <2> SUFFICES ASSUME pc # "idle", pc' = "idle", err' = "none",
                      cfg.push, ~cfg.dryRun, cfg.upstream = "present", ~raced
               PROVE  BranchTree \subseteq TreeOf(remote)
    OBVIOUS
  <2> USE DEF Quiet, Untouched, ByHand, vars, refs, daemon, history, At, Goto, Return, AfterPull
  <2>1. CASE Finish
    BY <1>3, <2>1 DEF Finish, PublishInv
  <2>2. CASE CheckAhead
    <3>1. Ahead = 0 /\ pc = "pushstatus"
      BY <2>2 DEF CheckAhead
    <3>2. Counted
      BY <3>1, <1>3 DEF Counted, CheckedInv, GuardInv
    <3> QED  BY <1>3, <3>1, <3>2, NoneAhead DEF PublishInv
  <2>3. CASE Sync /\ ~Finish /\ ~CheckAhead
    BY <2>3 DEF Sync, BeginSync, CheckInProgress, CheckStatus, StampFiles, PickPaths,
       AddPaths, Recheck, GitCommit, FindUpstream, Fetch, CheckBehind, RebaseRefused, RebaseStart,
       RebaseDone, RebaseStop, Stopped, AbortRebase, PushAccepted, PushRejected
  <2>4. ~Failure
    BY DEF Failure, Interrupted, NetworkDown, GitRefuses, Signal, Restart, Crash
  <2> QED  BY <1>3, <2>1, <2>2, <2>3, <2>4, DaemonStep
<1> QED  BY <1>1, <1>2, <1>3, TypeCorrect, PTL DEF Spec, SuccessMeansPublished
=============================================================================
