----------------------------- MODULE NoteProofs -----------------------------
(* Theorems about the operators on notes: what git's merge, the resolver   *)
(* and the stamp make of lines, for notes of any length.  Facts about what *)
(* a recursive function computes are proved by induction on its argument.  *)
EXTENDS SharedNote, FiniteSetTheorems, SequenceTheorems, WellFoundedInduction, TLAPS

-----------------------------------------------------------------------------
(* Induction.                                                              *)

\* A set of naturals that is not empty has a least element.
LEMMA LeastElement ==
  ASSUME NEW S \in SUBSET Nat, S # {}
  PROVE  \E m \in S : \A k \in S : m <= k
<1> DEFINE R == OpToRel(<, Nat)
<1>1. IsWellFoundedOn(R, Nat)
  BY NatLessThanWellFounded
<1>2. \A x, y \in Nat : x < y <=> <<x, y>> \in R
  BY DEF OpToRel
<1> HIDE DEF R
<1>3. PICK m \in S : \A k \in S : ~(<<k, m>> \in R)
  BY <1>1, WFMin
<1>4. \A k \in S : ~(k < m)
  BY <1>2, <1>3
<1> QED  BY <1>4

\* A set with 0 and with every successor up to N has all numbers up to N.
LEMMA UpTo ==
  ASSUME NEW N \in Nat, NEW S, 0 \in S, \A n \in 1..N : n - 1 \in S => n \in S
  PROVE  \A n \in 0..N : n \in S
<1> DEFINE Out == {n \in 0..N : n \notin S}
<1> SUFFICES ASSUME Out # {} PROVE FALSE
  OBVIOUS
<1>1. Out \in SUBSET Nat
  OBVIOUS
<1> HIDE DEF Out
<1>2. PICK m \in Out : \A k \in Out : m <= k
  BY <1>1, LeastElement
<1>3. m \in 0..N /\ m \notin S /\ m # 0
  BY <1>2 DEF Out
<1>4. m - 1 \in 0..N /\ m - 1 \notin Out
  BY <1>1, <1>2, <1>3
<1> QED  BY <1>3, <1>4 DEF Out

\* Steps taken one after the other make a function of their number.
Steps(A, N) == [1..N -> [A -> A]]
Taken(q, A, N, a, step) ==
  q \in [0..N -> A] /\ q[0] = a /\ \A i \in 1..N : q[i] = step[i][q[i - 1]]

LEMMA FoldExists ==
  ASSUME NEW A, NEW a \in A, NEW N \in Nat, NEW step \in Steps(A, N)
  PROVE  \E q : Taken(q, A, N, a, step)
<1> USE DEF Steps
<1> DEFINE Upto(n, q) == q \in [0..n -> A] /\ q[0] = a /\ \A i \in 1..n : q[i] = step[i][q[i - 1]]
           S == {n \in 0..N : \E q : Upto(n, q)}
<1>1. 0 \in S
  <2>1. Upto(0, [i \in 0..0 |-> a])
    OBVIOUS
  <2> HIDE DEF Upto
  <2> QED  BY <2>1
<1>2. ASSUME NEW n \in 1..N, n - 1 \in S  PROVE n \in S
  <2>1. PICK q : Upto(n - 1, q)
    BY <1>2
  <2> DEFINE r == [i \in 0..n |-> IF i = n THEN step[n][q[n - 1]] ELSE q[i]]
  <2>2. q[n - 1] \in A
    BY <2>1
  <2>3. r \in [0..n -> A] /\ r[0] = a
    BY <2>1, <2>2
  <2>4. \A i \in 1..n : r[i] = step[i][r[i - 1]]
    BY <2>1
  <2>5. Upto(n, r)
    BY <2>3, <2>4
  <2> HIDE DEF Upto, r
  <2> QED  BY <2>5
<1>3. N \in S
  <2> HIDE DEF S
  <2>1. \A n \in 0..N : n \in S
    BY <1>1, <1>2, UpTo
  <2> QED  BY <2>1
<1> QED  BY <1>3 DEF Taken

-----------------------------------------------------------------------------
(* The two sides of a file with conflicts.                                 *)

Marks == {"ours", "base", "theirs", "end"}
AnyKind == Kinds \cup Marks
Lines == [id : Words, kind : AnyKind, key : Words, val : Int, quote : Words]

Splits == [state : {"common", "ours", "base", "theirs", "failed"}, saw : BOOLEAN,
           ours : Seq(Lines), theirs : Seq(Lines)]

LEMMA SplitLineType ==
  ASSUME NEW acc \in Splits, NEW l \in Lines
  PROVE  SplitLine(acc, l) \in Splits
<1> DEFINE r == SplitLine(acc, l)
           goto(s) == [acc EXCEPT !.state = s, !.saw = TRUE]
<1>1. \A s \in {"common", "ours", "base", "theirs", "failed"} : goto(s) \in Splits
  BY DEF Splits
<1>2. /\ Append(acc.ours, l) \in Seq(Lines) /\ Append(acc.theirs, l) \in Seq(Lines)
      /\ acc.ours \in Seq(Lines) /\ acc.theirs \in Seq(Lines)
  BY DEF Splits
<1>3. [acc EXCEPT
         !.ours = IF acc.state \in {"common", "ours"} THEN Append(@, l) ELSE @,
         !.theirs = IF acc.state \in {"common", "theirs"} THEN Append(@, l) ELSE @] \in Splits
  BY <1>2 DEF Splits
<1> QED  BY <1>1, <1>3 DEF SplitLine

\* splitConflict reads a file line by line.
LEMMA SplitReads ==
  ASSUME NEW file \in Seq(Lines)
  PROVE  \E q \in [0..Len(file) -> Splits] :
           /\ q[0] = Unsplit
           /\ \A i \in 1..Len(file) : q[i] = SplitLine(q[i - 1], file[i])
           /\ SplitConflict(file) = q[Len(file)]
<1> DEFINE n == Len(file)
           step == [i \in 1..n |-> [acc \in Splits |-> SplitLine(acc, file[i])]]
           Is(q) == q = [i \in 0..n |-> IF i = 0 THEN Unsplit ELSE SplitLine(q[i - 1], file[i])]
<1>1. n \in Nat
  OBVIOUS
<1>10. \A i \in 1..n : file[i] \in Lines
  OBVIOUS
<1>2. SplitConflict(file) = (CHOOSE q : Is(q))[n]
  BY DEF SplitConflict
<1> HIDE DEF n
<1>3. PICK r \in [0..n -> Splits] : r[0] = Unsplit /\ \A i \in 1..n : r[i] = step[i][r[i - 1]]
  <2>1. Unsplit \in Splits
    BY DEF Unsplit, Splits
  <2>2. step \in Steps(Splits, n)
    <3>1. \A i \in 1..n : \A acc \in Splits : SplitLine(acc, file[i]) \in Splits
      BY <1>10, SplitLineType
    <3> QED  BY <3>1 DEF Steps
  <2> HIDE DEF step
  <2>3. \E r : Taken(r, Splits, n, Unsplit, step)
    BY <1>1, <2>1, <2>2, FoldExists
  <2> QED  BY <2>3 DEF Taken
<1>4. \A i \in 1..n : r[i] = SplitLine(r[i - 1], file[i])
  <2>1. \A i \in 1..n : r[i - 1] \in Splits
    BY <1>1, <1>3
  <2> QED  BY <1>3, <2>1
<1>5. Is(r)
  BY <1>3, <1>4
<1> DEFINE q == CHOOSE q : Is(q)
<1>6. Is(q)
  BY <1>5
<1> HIDE DEF q
<1> DEFINE Same == {i \in 0..n : q[i] = r[i]}
<1>7. 0 \in Same
  BY <1>1, <1>3, <1>6
<1>8. ASSUME NEW i \in 1..n, i - 1 \in Same  PROVE i \in Same
  BY <1>1, <1>4, <1>6, <1>8
<1>9. q[n] = r[n]
  <2>1. \A i \in 0..n : i \in Same
    <3> HIDE DEF Same
    <3> QED  BY <1>1, <1>7, <1>8, UpTo
  <2> QED  BY <1>1, <2>1
<1> QED  BY <1>2, <1>3, <1>4, <1>9 DEF n, q

LEMMA SplitType ==
  ASSUME NEW file \in Seq(Lines)
  PROVE  SplitConflict(file) \in Splits /\ SplitConflict(<<>>) = Unsplit
<1>1. Len(file) \in 0..Len(file) /\ <<>> \in Seq(Lines) /\ Len(<<>>) = 0
  OBVIOUS
<1> QED  BY <1>1, SplitReads

LEMMA SplitEmpty == SplitConflict(<<>>) = Unsplit
<1>1. <<>> \in Seq(Lines)
  OBVIOUS
<1> QED  BY <1>1, SplitType

\* One more line is one more step.
LEMMA SplitAppend ==
  ASSUME NEW file \in Seq(Lines), NEW l \in Lines
  PROVE  SplitConflict(Append(file, l)) = SplitLine(SplitConflict(file), l)
<1> DEFINE n == Len(file)
           more == Append(file, l)
<1>1. n \in Nat /\ more \in Seq(Lines) /\ Len(more) = n + 1 /\ more[n + 1] = l
      /\ \A i \in 1..n : more[i] = file[i]
  OBVIOUS
<1>2. PICK q : /\ q[0] = Unsplit /\ \A i \in 1..n : q[i] = SplitLine(q[i - 1], file[i])
               /\ SplitConflict(file) = q[n]
  BY SplitReads
<1> HIDE DEF n, more
<1>3. PICK r : /\ r[0] = Unsplit /\ \A i \in 1..(n + 1) : r[i] = SplitLine(r[i - 1], more[i])
               /\ SplitConflict(more) = r[n + 1]
  BY <1>1, SplitReads
<1> DEFINE Same == {i \in 0..n : q[i] = r[i]}
<1>4. 0 \in Same
  BY <1>1, <1>2, <1>3
<1>5. ASSUME NEW i \in 1..n, i - 1 \in Same  PROVE i \in Same
  BY <1>1, <1>2, <1>3, <1>5
<1>6. \A i \in 0..n : i \in Same
  <2> HIDE DEF Same
  <2> QED  BY <1>1, <1>4, <1>5, UpTo
<1>7. r[n + 1] = SplitLine(r[n], l)
  <2>1. n + 1 \in 1..(n + 1) /\ n + 1 - 1 = n
    BY <1>1
  <2> QED  BY <1>1, <1>3, <2>1
<1>8. q[n] = r[n]
  BY <1>1, <1>6
<1> QED  BY <1>2, <1>3, <1>7, <1>8 DEF more

LEMMA ConcatAppend ==
  ASSUME NEW S, NEW s \in Seq(S), NEW u \in Seq(S), NEW l \in S
  PROVE  s \o Append(u, l) = Append(s \o u, l)
  OBVIOUS

\* What stands in one section goes to the side it belongs to.
LEMMA SplitRun ==
  ASSUME NEW file \in Seq(Lines), NEW run \in Seq(Lines),
         \A i \in DOMAIN run : run[i].kind \in Kinds,
         SplitConflict(file).state # "failed"
  PROVE  LET was == SplitConflict(file)
             now == SplitConflict(file \o run)
         IN /\ now.state = was.state /\ now.saw = was.saw
            /\ now.ours = IF was.state \in {"common", "ours"} THEN was.ours \o run ELSE was.ours
            /\ now.theirs = IF was.state \in {"common", "theirs"} THEN was.theirs \o run ELSE was.theirs
<1> DEFINE was == SplitConflict(file)
           k == Len(run)
           Upto(n) == SubSeq(run, 1, n)
           Is(n) == LET now == SplitConflict(file \o Upto(n)) IN
                    /\ now.state = was.state /\ now.saw = was.saw
                    /\ now.ours = IF was.state \in {"common", "ours"} THEN was.ours \o Upto(n) ELSE was.ours
                    /\ now.theirs = IF was.state \in {"common", "theirs"} THEN was.theirs \o Upto(n)
                                     ELSE was.theirs
           S == {n \in 0..k : Is(n)}
<1>1. was \in Splits
  BY SplitType
<1>2. k \in Nat /\ Upto(0) = <<>> /\ Upto(k) = run
  OBVIOUS
<1>3. \A n \in 1..k : /\ Upto(n) = Append(Upto(n - 1), run[n])
                      /\ Upto(n - 1) \in Seq(Lines)
                      /\ run[n] \in Lines /\ run[n].kind \in Kinds
  OBVIOUS
<1>4. \A s \in Seq(Lines) : s \o <<>> = s
  OBVIOUS
<1>5. was.ours \in Seq(Lines) /\ was.theirs \in Seq(Lines)
  BY <1>1 DEF Splits
<1>6. 0 \in S
  <2>1. file \o <<>> = file /\ was.ours \o <<>> = was.ours /\ was.theirs \o <<>> = was.theirs
    BY <1>4, <1>5
  <2> HIDE DEF k, Upto
  <2>2. Is(0)
    BY <1>2, <2>1
  <2> QED  BY <1>2, <2>2
<1>7. ASSUME NEW n \in 1..k, n - 1 \in S  PROVE n \in S
  <2> DEFINE u == Upto(n - 1)
             l == run[n]
             here == SplitConflict(file \o u)
             next1 == SplitConflict(file \o Upto(n))
  <2>1. u \in Seq(Lines) /\ l \in Lines /\ l.kind \in Kinds /\ Upto(n) = Append(u, l)
    BY <1>3, <1>7
  <2>2. file \o u \in Seq(Lines) /\ file \o Append(u, l) = Append(file \o u, l)
    <3> HIDE DEF u, l
    <3> QED  BY <2>1, ConcatAppend
  <2>3. next1 = SplitLine(here, l)
    <3> HIDE DEF u, l, Upto
    <3> QED  BY <2>1, <2>2, SplitAppend
  <2>4. here \in Splits
    BY <2>2, SplitType
  <2>5. /\ here.state = was.state /\ here.saw = was.saw
        /\ here.ours = IF was.state \in {"common", "ours"} THEN was.ours \o u ELSE was.ours
        /\ here.theirs = IF was.state \in {"common", "theirs"} THEN was.theirs \o u ELSE was.theirs
    BY <1>7
  <2> HIDE DEF here, next1, u, l, Upto
  <2>6. /\ next1.state = here.state /\ next1.saw = here.saw
        /\ next1.ours = IF here.state \in {"common", "ours"} THEN Append(here.ours, l) ELSE here.ours
        /\ next1.theirs = IF here.state \in {"common", "theirs"} THEN Append(here.theirs, l) ELSE here.theirs
    BY <1>1, <2>1, <2>3, <2>4, <2>5 DEF SplitLine, Splits, StartsBase, Kinds
  <2>7. /\ was.ours \o Append(u, l) = Append(was.ours \o u, l)
        /\ was.theirs \o Append(u, l) = Append(was.theirs \o u, l)
    <3> HIDE DEF was
    <3>1. u \in Seq(Lines) /\ l \in Lines
      BY <2>1
    <3>2. \A s \in Seq(Lines) : s \o Append(u, l) = Append(s \o u, l)
      BY <3>1, ConcatAppend
    <3> QED  BY <1>5, <3>2
  <2>8. Is(n)
    BY <2>1, <2>5, <2>6, <2>7 DEF next1
  <2> QED  BY <2>8
<1>8. k \in S
  <2>1. \A n \in 0..k : n \in S
    <3> HIDE DEF S, k
    <3> QED  BY <1>2, <1>6, <1>7, UpTo
  <2> QED  BY <1>2, <2>1
<1> HIDE DEF was
<1>9. Is(k)
  BY <1>8
<1> HIDE DEF Upto, k
<1> QED  BY <1>2, <1>9 DEF was

LEMMA ConcatAssoc ==
  ASSUME NEW S, NEW s \in Seq(S), NEW u \in Seq(S), NEW v \in Seq(S)
  PROVE  s \o (u \o v) = (s \o u) \o v
  OBVIOUS

LEMMA LinesAssoc == \A s, u, v \in Seq(Lines) : s \o (u \o v) = (s \o u) \o v
  BY ConcatAssoc

LEMMA ConcatOne ==
  ASSUME NEW S, NEW s \in Seq(S), NEW u \in Seq(S), NEW e \in S
  PROVE  /\ s \o <<e>> = Append(s, e)
         /\ s \o (u \o <<e>>) = Append(s \o u, e)
  OBVIOUS

Hunks == [from : Seq(NoteLines), ours : Seq(NoteLines), theirs : Seq(NoteLines)]

LEMMA LineType ==
  ASSUME NEW id \in Words, NEW key \in Words, NEW val \in Int
  PROVE  /\ \A kind \in AnyKind : Line(id, kind, key, val) \in Lines
         /\ \A kind \in Kinds : Line(id, kind, key, val) \in NoteLines
<1>1. "even" \in Words
  BY DEF Words
<1> QED  BY <1>1 DEF Line, Lines, NoteLines

LEMMA NoteLinesAreLines ==
  /\ NoteLines \subseteq Lines
  /\ \A s \in Seq(NoteLines) : s \in Seq(Lines) /\ \A i \in DOMAIN s : s[i].kind \in Kinds
  /\ \A k \in Marks : Mark(k) \in Lines
<1>1. NoteLines \subseteq Lines
  BY DEF NoteLines, Lines, AnyKind
<1>2. ASSUME NEW s \in Seq(NoteLines)
      PROVE  s \in Seq(Lines) /\ \A i \in DOMAIN s : s[i].kind \in Kinds
  <2>1. \A i \in DOMAIN s : s[i] \in NoteLines
    OBVIOUS
  <2>2. s \in Seq(Lines)
    BY <1>1, SeqMonotonic
  <2> QED  BY <2>1, <2>2 DEF NoteLines
<1>3. \A k \in Marks : Mark(k) \in Lines
  <2>1. "" \in Words /\ "mark" \in Words /\ 0 \in Int /\ \A k \in Marks : k \in AnyKind
    BY DEF Words, AnyKind
  <2> QED  BY <2>1, LineType DEF Mark
<1> QED  BY <1>1, <1>2, <1>3

\* A conflict as git writes it has its two sides, with or without the base.
LEMMA SplitHunk ==
  ASSUME NEW file \in Seq(Lines), SplitConflict(file).state = "common",
         NEW open \in Hunks, NEW diff3 \in BOOLEAN
  PROVE  /\ file \o Hunk(open, diff3) \in Seq(Lines)
         /\ LET was == SplitConflict(file)
                now == SplitConflict(file \o Hunk(open, diff3))
            IN /\ now.state = "common"
               /\ now.ours = was.ours \o open.ours
               /\ now.theirs = was.theirs \o open.theirs
<1> DEFINE was == SplitConflict(file)
           ours == open.ours
           theirs == open.theirs
           from == open.from
<1>1. was \in Splits /\ was.state = "common" /\ was.ours \in Seq(Lines) /\ was.theirs \in Seq(Lines)
  BY SplitType DEF Splits
<1>2. /\ ours \in Seq(NoteLines) /\ theirs \in Seq(NoteLines) /\ from \in Seq(NoteLines)
      /\ ours \in Seq(Lines) /\ theirs \in Seq(Lines) /\ from \in Seq(Lines)
  BY NoteLinesAreLines DEF Hunks
<1>3. \A k \in Marks : Mark(k) \in Lines /\ Mark(k).kind = k
  BY NoteLinesAreLines DEF Mark, Line
<1>4. CASE ours = <<>> /\ theirs = <<>>
  <2>1. Hunk(open, diff3) = <<>>
    BY <1>4 DEF Hunk
  <2>2. file \o <<>> = file /\ was.ours \o <<>> = was.ours /\ was.theirs \o <<>> = was.theirs
    BY <1>1
  <2> QED  BY <1>1, <1>4, <2>1, <2>2
<1>5. CASE ~(ours = <<>> /\ theirs = <<>>)
  <2> DEFINE mid == IF diff3 THEN <<Mark("base")>> \o from ELSE <<>>
             f1 == Append(file, Mark("ours"))
             f2 == f1 \o ours
             f3 == Append(f2, Mark("base"))
             f4 == IF diff3 THEN f3 \o from ELSE f2
             f5 == Append(f4, Mark("theirs"))
             f6 == f5 \o theirs
             f7 == Append(f6, Mark("end"))
  <2> HIDE DEF was, ours, theirs, from
  <2>1. /\ f1 \in Seq(Lines) /\ f2 \in Seq(Lines) /\ f3 \in Seq(Lines) /\ f4 \in Seq(Lines)
        /\ f5 \in Seq(Lines) /\ f6 \in Seq(Lines) /\ f7 \in Seq(Lines)
    BY <1>2, <1>3 DEF Marks
  <2>2. file \o Hunk(open, diff3) = f7
    <3> DEFINE g1 == <<Mark("ours")>>
               g2 == g1 \o ours
               g4 == g2 \o mid
               g5 == g4 \o <<Mark("theirs")>>
               g6 == g5 \o theirs
               g7 == g6 \o <<Mark("end")>>
    <3>1. Hunk(open, diff3) = g7
      BY <1>5 DEF Hunk, ours, theirs, from
    <3>2. /\ mid \in Seq(Lines)
          /\ g1 \in Seq(Lines) /\ g2 \in Seq(Lines) /\ g4 \in Seq(Lines) /\ g5 \in Seq(Lines)
          /\ g6 \in Seq(Lines) /\ <<Mark("theirs")>> \in Seq(Lines) /\ <<Mark("end")>> \in Seq(Lines)
      BY <1>2, <1>3 DEF Marks
    <3> HIDE DEF mid
    <3>3. file \o g2 = f2
      <4>1. file \o (g1 \o ours) = (file \o g1) \o ours
        BY <1>2, <3>2, ConcatAssoc
      <4>2. file \o g1 = f1
        BY <1>3, ConcatOne DEF Marks
      <4> QED  BY <4>1, <4>2
    <3>4. file \o g4 = f4
      <4>1. CASE diff3
        <5>1. file \o (g2 \o mid) = (file \o g2) \o mid
          BY <3>2, ConcatAssoc
        <5>2. mid = <<Mark("base")>> \o from
          BY <4>1 DEF mid
        <5>3. f2 \o (<<Mark("base")>> \o from) = (f2 \o <<Mark("base")>>) \o from
          BY <1>2, <1>3, <2>1, ConcatAssoc DEF Marks
        <5>4. f2 \o <<Mark("base")>> = f3
          BY <1>3, <2>1, ConcatOne DEF Marks
        <5> HIDE DEF f2, g2, f3
        <5> QED  BY <3>3, <4>1, <5>1, <5>2, <5>3, <5>4
      <4>2. CASE ~diff3
        <5>1. g4 = g2
          <6>1. mid = <<>>
            BY <4>2 DEF mid
          <6> HIDE DEF g2
          <6> QED  BY <3>2, <6>1, ConcatEmptySeq
        <5> HIDE DEF g4, g2, f2, f3
        <5> QED  BY <3>3, <4>2, <5>1
      <4> QED  BY <4>1, <4>2
    <3> HIDE DEF g4, f4
    <3>5. file \o g5 = f5
      <4>1. f4 \in Seq(Lines) /\ g4 \in Seq(Lines) /\ Mark("theirs") \in Lines
        BY <1>3, <2>1, <3>2 DEF Marks
      <4>2. file \o (g4 \o <<Mark("theirs")>>) = Append(file \o g4, Mark("theirs"))
        BY <4>1, ConcatOne
      <4> QED  BY <3>4, <4>2
    <3> HIDE DEF g5, f5
    <3>6. file \o g6 = f6
      <4>1. g5 \in Seq(Lines) /\ theirs \in Seq(Lines)
        BY <1>2, <3>2
      <4>2. file \o (g5 \o theirs) = (file \o g5) \o theirs
        BY <4>1, ConcatAssoc
      <4> QED  BY <3>5, <4>2
    <3> HIDE DEF g6, f6
    <3>7. file \o g7 = f7
      BY <1>3, <3>2, <3>6, ConcatOne DEF Marks
    <3> QED  BY <3>1, <3>7
  <2>3. /\ SplitConflict(f1).state = "ours"
        /\ SplitConflict(f1).ours = was.ours /\ SplitConflict(f1).theirs = was.theirs
    <3>1. SplitConflict(f1) = SplitLine(was, Mark("ours")) /\ Mark("ours").kind = "ours"
      BY <1>3, SplitAppend DEF Marks, was
    <3> QED  BY <1>1, <3>1 DEF SplitLine, Splits, StartsBase
  <2> HIDE DEF f1
  <2>4. /\ SplitConflict(f2).state = "ours"
        /\ SplitConflict(f2).ours = was.ours \o ours /\ SplitConflict(f2).theirs = was.theirs
    <3>1. \A i \in DOMAIN ours : ours[i].kind \in Kinds
      BY <1>2, NoteLinesAreLines
    <3>2. f1 \in Seq(Lines) /\ ours \in Seq(Lines)
      BY <1>2, <2>1
    <3>3. SplitConflict(f1).state # "failed"
      BY <2>3
    <3>4. LET now == SplitConflict(f1 \o ours)
              then == SplitConflict(f1)
          IN /\ now.state = then.state
             /\ now.ours = IF then.state \in {"common", "ours"} THEN then.ours \o ours ELSE then.ours
             /\ now.theirs = IF then.state \in {"common", "theirs"} THEN then.theirs \o ours ELSE then.theirs
      BY <3>1, <3>2, <3>3, SplitRun
    <3> QED  BY <2>3, <3>4
  <2> HIDE DEF f2
  <2>5. /\ SplitConflict(f4).state \in {"ours", "base"}
        /\ SplitConflict(f4).ours = was.ours \o ours /\ SplitConflict(f4).theirs = was.theirs
    <3>1. /\ SplitConflict(f3).state = "base"
          /\ SplitConflict(f3).ours = was.ours \o ours /\ SplitConflict(f3).theirs = was.theirs
      <4>1. /\ SplitConflict(f3) = SplitLine(SplitConflict(f2), Mark("base"))
            /\ Mark("base").kind = "base" /\ SplitConflict(f2) \in Splits
        BY <1>3, <2>1, SplitAppend, SplitType DEF Marks
      <4> QED  BY <2>4, <4>1 DEF SplitLine, Splits, StartsBase
    <3> HIDE DEF f3
    <3>2. \A i \in DOMAIN from : from[i].kind \in Kinds
      BY <1>2, NoteLinesAreLines
    <3>3. /\ SplitConflict(f3 \o from).state = "base"
          /\ SplitConflict(f3 \o from).ours = was.ours \o ours
          /\ SplitConflict(f3 \o from).theirs = was.theirs
      BY <1>2, <2>1, <3>1, <3>2, SplitRun
    <3> QED  BY <2>4, <3>3 DEF f4
  <2> HIDE DEF f4
  <2>6. /\ SplitConflict(f5).state = "theirs"
        /\ SplitConflict(f5).ours = was.ours \o ours /\ SplitConflict(f5).theirs = was.theirs
    <3>1. /\ SplitConflict(f5) = SplitLine(SplitConflict(f4), Mark("theirs"))
          /\ Mark("theirs").kind = "theirs" /\ SplitConflict(f4) \in Splits
      BY <1>3, <2>1, SplitAppend, SplitType DEF Marks
    <3> QED  BY <2>5, <3>1 DEF SplitLine, Splits, StartsBase
  <2> HIDE DEF f5
  <2>7. /\ SplitConflict(f6).state = "theirs"
        /\ SplitConflict(f6).ours = was.ours \o ours
        /\ SplitConflict(f6).theirs = was.theirs \o theirs
    <3>1. \A i \in DOMAIN theirs : theirs[i].kind \in Kinds
      BY <1>2, NoteLinesAreLines
    <3>2. f5 \in Seq(Lines) /\ theirs \in Seq(Lines)
      BY <1>2, <2>1
    <3>3. SplitConflict(f5).state # "failed"
      BY <2>6
    <3>4. LET now == SplitConflict(f5 \o theirs)
              then == SplitConflict(f5)
          IN /\ now.state = then.state
             /\ now.ours = IF then.state \in {"common", "ours"} THEN then.ours \o theirs ELSE then.ours
             /\ now.theirs = IF then.state \in {"common", "theirs"} THEN then.theirs \o theirs
                             ELSE then.theirs
      BY <3>1, <3>2, <3>3, SplitRun
    <3> QED  BY <2>6, <3>4
  <2> HIDE DEF f6
  <2>8. /\ SplitConflict(f7).state = "common"
        /\ SplitConflict(f7).ours = was.ours \o ours
        /\ SplitConflict(f7).theirs = was.theirs \o theirs
    <3>1. /\ SplitConflict(f7) = SplitLine(SplitConflict(f6), Mark("end"))
          /\ Mark("end").kind = "end" /\ SplitConflict(f6) \in Splits
      BY <1>3, <2>1, SplitAppend, SplitType DEF Marks
    <3> QED  BY <2>7, <3>1 DEF SplitLine, Splits, StartsBase
  <2> QED  BY <2>1, <2>2, <2>8 DEF was, ours, theirs
<1> QED  BY <1>4, <1>5

-----------------------------------------------------------------------------
(* What git writes.                                                        *)

Cells == Seq(NoteLines)
Writings == [file : Seq(Lines), open : Hunks]

LEMMA HunkGrows ==
  ASSUME NEW open \in Hunks, NEW f \in Cells, NEW o \in Cells, NEW t \in Cells
  PROVE  /\ [from |-> open.from \o f, ours |-> open.ours \o o, theirs |-> open.theirs \o t] \in Hunks
         /\ NoHunk \in Hunks
  BY DEF Hunks, NoHunk, Cells

LEMMA WriteRowType ==
  ASSUME NEW acc \in Writings, NEW clashes \in BOOLEAN, NEW diff3 \in BOOLEAN,
         NEW f \in Cells, NEW o \in Cells, NEW t \in Cells
  PROVE  /\ clashes => /\ WriteRow(acc, clashes, f, o, t, diff3).file = acc.file
                       /\ WriteRow(acc, clashes, f, o, t, diff3).open =
                            [from |-> acc.open.from \o f, ours |-> acc.open.ours \o o,
                             theirs |-> acc.open.theirs \o t]
                       /\ WriteRow(acc, clashes, f, o, t, diff3) \in Writings
         /\ ~clashes => WriteRow(acc, clashes, f, o, t, diff3) =
                          [file |-> acc.file \o Hunk(acc.open, diff3) \o (IF f = t THEN o ELSE t),
                           open |-> NoHunk]
<1>1. acc.open \in Hunks
  BY DEF Writings
<1>2. [from |-> acc.open.from \o f, ours |-> acc.open.ours \o o, theirs |-> acc.open.theirs \o t] \in Hunks
  BY <1>1, HunkGrows
<1> QED  BY <1>2 DEF WriteRow, Writings

\* The hunk written out is a sequence of lines.
LEMMA HunkType ==
  ASSUME NEW open \in Hunks, NEW diff3 \in BOOLEAN
  PROVE  Hunk(open, diff3) \in Seq(Lines)
<1>1. open.from \in Seq(Lines) /\ open.ours \in Seq(Lines) /\ open.theirs \in Seq(Lines)
  BY NoteLinesAreLines DEF Hunks
<1>2. \A k \in Marks : <<Mark(k)>> \in Seq(Lines)
  BY NoteLinesAreLines
<1> DEFINE o == open.ours
           f == open.from
           t == open.theirs
           mo == <<Mark("ours")>>
           mb == <<Mark("base")>>
           mt == <<Mark("theirs")>>
           me == <<Mark("end")>>
<1>3. /\ o \in Seq(Lines) /\ f \in Seq(Lines) /\ t \in Seq(Lines)
      /\ mo \in Seq(Lines) /\ mb \in Seq(Lines) /\ mt \in Seq(Lines) /\ me \in Seq(Lines)
  BY <1>1, <1>2 DEF Marks
<1>4. Hunk(open, diff3) = IF o = <<>> /\ t = <<>> THEN <<>>
                          ELSE mo \o o \o (IF diff3 THEN mb \o f ELSE <<>>) \o mt \o t \o me
  BY DEF Hunk
<1> HIDE DEF o, f, t, mo, mb, mt, me
<1> QED  BY <1>3, <1>4

\* Written goes through the rows of the note.
RowsWritten(q, N, f, o, t, clash, diff3) ==
  /\ q \in [0..N -> Writings]
  /\ q[0] = [file |-> <<>>, open |-> NoHunk]
  /\ \A r \in 1..N : q[r] = WriteRow(q[r - 1], r \in clash, f[r], o[r], t[r], diff3)
  /\ Written(f, o, t, clash, diff3) = q[N].file \o Hunk(q[N].open, diff3)
RowCells(N) == [1..N -> Cells]

LEMMA WrittenReads ==
  ASSUME NEW N \in Nat, NEW f \in RowCells(N), NEW o \in RowCells(N), NEW t \in RowCells(N),
         NEW clash, NEW diff3 \in BOOLEAN
  PROVE  \E q : RowsWritten(q, N, f, o, t, clash, diff3)
<1> USE DEF RowCells
<1> DEFINE first == [file |-> <<>>, open |-> NoHunk]
           Step(acc, r) == WriteRow(acc, r \in clash, f[r], o[r], t[r], diff3)
           step == [r \in 1..N |-> [acc \in Writings |-> Step(acc, r)]]
           Is(q) == q = [r \in 0..N |-> IF r = 0 THEN first ELSE Step(q[r - 1], r)]
<1>1. Len(f) = N
  BY DEF Cells
<1>2. Written(f, o, t, clash, diff3) =
        (CHOOSE q : Is(q))[N].file \o Hunk((CHOOSE q : Is(q))[N].open, diff3)
  BY <1>1 DEF Written
<1>3. first \in Writings
  BY HunkGrows DEF Writings, NoHunk, Hunks
<1>4. ASSUME NEW r \in 1..N, NEW acc \in Writings
      PROVE  Step(acc, r) \in Writings
  <2>1. f[r] \in Cells /\ o[r] \in Cells /\ t[r] \in Cells /\ (r \in clash) \in BOOLEAN
    OBVIOUS
  <2>2. CASE r \in clash
    BY <2>1, <2>2, WriteRowType
  <2>3. CASE r \notin clash
    <3> DEFINE h == Hunk(acc.open, diff3)
               x == IF f[r] = t[r] THEN o[r] ELSE t[r]
    <3>1. acc.open \in Hunks /\ acc.file \in Seq(Lines)
      BY DEF Writings
    <3>2. h \in Seq(Lines)
      BY <3>1, HunkType
    <3>3. x \in Seq(Lines)
      BY <2>1, NoteLinesAreLines DEF Cells
    <3>4. Step(acc, r) = [file |-> acc.file \o h \o x, open |-> NoHunk]
      BY <2>1, <2>3 DEF WriteRow
    <3> HIDE DEF h, x, Step
    <3>5. acc.file \o h \o x \in Seq(Lines)
      BY <3>1, <3>2, <3>3
    <3>6. NoHunk \in Hunks
      BY <2>1, <3>1, HunkGrows
    <3> QED  BY <3>4, <3>5, <3>6 DEF Writings
  <2> QED  BY <2>2, <2>3
<1> HIDE DEF first, Step
<1>5. PICK r \in [0..N -> Writings] : r[0] = first /\ \A i \in 1..N : r[i] = step[i][r[i - 1]]
  <2>1. step \in Steps(Writings, N)
    BY <1>4 DEF Steps
  <2> HIDE DEF step
  <2>2. \E r : Taken(r, Writings, N, first, step)
    BY <1>3, <2>1, FoldExists
  <2> QED  BY <2>2 DEF Taken
<1>6. \A i \in 1..N : r[i] = Step(r[i - 1], i)
  <2>1. \A i \in 1..N : r[i - 1] \in Writings
    BY <1>5
  <2> QED  BY <1>5, <2>1
<1>7. Is(r)
  BY <1>5, <1>6
<1> DEFINE q == CHOOSE q : Is(q)
<1>8. Is(q)
  BY <1>7
<1> HIDE DEF q
<1> DEFINE Same == {i \in 0..N : q[i] = r[i]}
<1>9. 0 \in Same
  BY <1>5, <1>8
<1>10. ASSUME NEW i \in 1..N, i - 1 \in Same  PROVE i \in Same
  BY <1>6, <1>8, <1>10
<1>11. q[N] = r[N]
  <2>1. \A i \in 0..N : i \in Same
    <3> HIDE DEF Same
    <3> QED  BY <1>9, <1>10, UpTo
  <2> QED  BY <2>1
<1>12. Written(f, o, t, clash, diff3) = r[N].file \o Hunk(r[N].open, diff3)
  BY <1>2, <1>11 DEF q
<1> QED  BY <1>5, <1>6, <1>12 DEF first, Step, RowsWritten

\* What is written so far, if it were taken apart, with what is gathered.
Sides(w, a, b) ==
  /\ w \in Writings /\ SplitConflict(w.file).state = "common"
  /\ SplitConflict(w.file).ours \o w.open.ours = a
  /\ SplitConflict(w.file).theirs \o w.open.theirs = b

LEMMA GatherSides ==
  ASSUME NEW w \in Writings, NEW f \in Cells, NEW o \in Cells, NEW t \in Cells, NEW diff3 \in BOOLEAN,
         NEW a, NEW b, Sides(w, a, b)
  PROVE  Sides(WriteRow(w, TRUE, f, o, t, diff3), a \o o, b \o t)
<1> DEFINE file == w.file
           open == w.open
           s == SplitConflict(file)
           new == WriteRow(w, TRUE, f, o, t, diff3)
<1>1. file \in Seq(Lines) /\ open \in Hunks /\ s \in Splits
  <2>1. file \in Seq(Lines) /\ open \in Hunks
    BY DEF Writings
  <2> QED  BY <2>1, SplitType
<1>2. /\ new.file = file /\ new.open.ours = open.ours \o o /\ new.open.theirs = open.theirs \o t
      /\ new \in Writings
  <2> DEFINE g == [from |-> open.from \o f, ours |-> open.ours \o o, theirs |-> open.theirs \o t]
  <2>1. new = [file |-> file, open |-> g]
    BY DEF WriteRow, Writings
  <2>2. g \in Hunks
    BY <1>1, HunkGrows
  <2>3. g.ours = open.ours \o o /\ g.theirs = open.theirs \o t
    OBVIOUS
  <2> HIDE DEF g, new
  <2>4. [file |-> file, open |-> g] \in Writings
    BY <1>1, <2>2 DEF Writings
  <2> QED  BY <2>1, <2>3, <2>4
<1>3. /\ open.ours \in Seq(Lines) /\ open.theirs \in Seq(Lines)
      /\ s.ours \in Seq(Lines) /\ s.theirs \in Seq(Lines)
      /\ o \in Seq(Lines) /\ t \in Seq(Lines)
  BY <1>1, NoteLinesAreLines DEF Hunks, Splits, Cells
<1>4. s.state = "common" /\ s.ours \o open.ours = a /\ s.theirs \o open.theirs = b
  BY DEF Sides
<1>5. s.ours \o (open.ours \o o) = a \o o
  <2> DEFINE u == s.ours
             v == open.ours
  <2>1. u \in Seq(Lines) /\ v \in Seq(Lines) /\ o \in Seq(Lines) /\ u \o v = a
    BY <1>3, <1>4
  <2> HIDE DEF u, v
  <2>2. u \o (v \o o) = a \o o
    BY <2>1, LinesAssoc, Zenon
  <2> QED  BY <2>2 DEF u, v
<1>6. s.theirs \o (open.theirs \o t) = b \o t
  <2> DEFINE u == s.theirs
             v == open.theirs
  <2>1. u \in Seq(Lines) /\ v \in Seq(Lines) /\ t \in Seq(Lines) /\ u \o v = b
    BY <1>3, <1>4
  <2> HIDE DEF u, v
  <2>2. u \o (v \o t) = b \o t
    BY <2>1, LinesAssoc, Zenon
  <2> QED  BY <2>2 DEF u, v
<1> QED  BY <1>2, <1>4, <1>5, <1>6 DEF Sides

LEMMA WriteSides ==
  ASSUME NEW w \in Writings, NEW f \in Cells, NEW o \in Cells, NEW t \in Cells, NEW diff3 \in BOOLEAN,
         NEW a \in Cells, NEW b \in Cells, Sides(w, a, b)
  PROVE  LET x == IF f = t THEN o ELSE t IN
         Sides(WriteRow(w, FALSE, f, o, t, diff3), a \o x, b \o x)
<1> DEFINE x == IF f = t THEN o ELSE t
           file == w.file \o Hunk(w.open, diff3)
           new == WriteRow(w, FALSE, f, o, t, diff3)
<1>1. w.file \in Seq(Lines) /\ w.open \in Hunks /\ x \in Cells
  BY DEF Writings
<1>2. SplitConflict(w.file).state = "common"
  BY DEF Sides
<1>3. /\ file \in Seq(Lines) /\ SplitConflict(file).state = "common"
      /\ SplitConflict(file).ours = SplitConflict(w.file).ours \o w.open.ours
      /\ SplitConflict(file).theirs = SplitConflict(w.file).theirs \o w.open.theirs
  BY <1>1, <1>2, SplitHunk
<1>4. SplitConflict(file).ours = a /\ SplitConflict(file).theirs = b
  BY <1>3 DEF Sides
<1>5. new.file = file \o x /\ new.open = NoHunk /\ new = [file |-> file \o x, open |-> NoHunk]
  BY DEF WriteRow
<1> HIDE DEF file, x, new
<1>6. x \in Seq(Lines) /\ \A i \in DOMAIN x : x[i].kind \in Kinds
  BY <1>1, NoteLinesAreLines DEF Cells
<1>7. /\ SplitConflict(file \o x).state = "common"
      /\ SplitConflict(file \o x).ours = a \o x /\ SplitConflict(file \o x).theirs = b \o x
  <2>1. SplitConflict(file).state # "failed"
    BY <1>3
  <2>2. LET was == SplitConflict(file)
            now == SplitConflict(file \o x)
        IN /\ now.state = was.state /\ now.saw = was.saw
           /\ now.ours = IF was.state \in {"common", "ours"} THEN was.ours \o x ELSE was.ours
           /\ now.theirs = IF was.state \in {"common", "theirs"} THEN was.theirs \o x ELSE was.theirs
    BY <1>3, <1>6, <2>1, SplitRun
  <2> QED  BY <1>3, <1>4, <2>2
<1>8. a \o x \in Seq(NoteLines) /\ b \o x \in Seq(NoteLines)
  BY <1>1 DEF Cells
<1>9. (a \o x) \o <<>> = a \o x /\ (b \o x) \o <<>> = b \o x
  BY <1>8, ConcatEmptySeq
<1>10. new \in Writings
  <2>1. NoHunk \in Hunks
    BY <1>1, HunkGrows
  <2>2. file \o x \in Seq(Lines)
    BY <1>3, <1>6
  <2> QED  BY <1>5, <2>1, <2>2 DEF Writings
<1>11. new.open.ours = <<>> /\ new.open.theirs = <<>>
  BY <1>5 DEF NoHunk
<1>12. Sides(new, a \o x, b \o x)
  BY <1>5, <1>7, <1>9, <1>10, <1>11 DEF Sides
<1> QED  BY <1>12 DEF x, new

\* What row r puts on one side: its own version where there is a conflict.
Merged(f, o, t) == IF f = t THEN o ELSE t
SideRow(clash, p, f, o, t, r) == IF r \in clash THEN p[r] ELSE Merged(f[r], o[r], t[r])
JoinedUp(j, N, parts) ==
  j \in [0..N -> Cells] /\ j[0] = <<>> /\ \A n \in 1..N : j[n] = j[n - 1] \o parts[n]

\* Parts one after the other.
LEMMA JoinExists ==
  ASSUME NEW N \in Nat, NEW parts \in RowCells(N)
  PROVE  \E j : JoinedUp(j, N, parts)
<1> DEFINE step == [n \in 1..N |-> [s \in Cells |-> s \o parts[n]]]
<1>1. step \in Steps(Cells, N) /\ <<>> \in Cells
  BY DEF Steps, RowCells, Cells
<1>2. PICK j : Taken(j, Cells, N, <<>>, step)
  <2> HIDE DEF step
  <2> QED  BY <1>1, FoldExists
<1>3. j \in [0..N -> Cells] /\ j[0] = <<>> /\ \A n \in 1..N : j[n] = step[n][j[n - 1]]
  BY <1>2 DEF Taken
<1>4. \A n \in 1..N : j[n - 1] \in Cells
  BY <1>3
<1>5. \A n \in 1..N : j[n] = j[n - 1] \o parts[n]
  BY <1>3, <1>4
<1>6. JoinedUp(j, N, parts)
  BY <1>3, <1>5 DEF JoinedUp
<1> QED  BY <1>6

LEMMA JoinedType ==
  ASSUME NEW N \in Nat, NEW j, NEW parts, JoinedUp(j, N, parts)
  PROVE  /\ \A n \in 0..N : j[n] \in Cells
         /\ \A n \in 1..N : j[n - 1] \in Cells /\ j[n] = j[n - 1] \o parts[n]
  BY DEF JoinedUp

LEMMA WritingsType ==
  ASSUME NEW N \in Nat, NEW f, NEW o, NEW t, NEW clash, NEW diff3, NEW q,
         RowsWritten(q, N, f, o, t, clash, diff3)
  PROVE  /\ \A n \in 0..N : q[n] \in Writings
         /\ \A n \in 1..N : /\ q[n - 1] \in Writings
                            /\ q[n] = WriteRow(q[n - 1], n \in clash, f[n], o[n], t[n], diff3)
  BY DEF RowsWritten

LEMMA RowType ==
  ASSUME NEW N \in Nat, NEW f \in RowCells(N), NEW r \in 1..N
  PROVE  f[r] \in Cells
  BY DEF RowCells

\* A file with any number of conflicts, taken apart again, is the lines of the
\* one and of the other side, in the order of the notes they come from, with or
\* without the base in it (git's markers; conflict.go splitConflict).
THEOREM SplitsAsWritten ==
  ASSUME NEW N \in Nat, NEW f \in RowCells(N), NEW o \in RowCells(N), NEW t \in RowCells(N),
         NEW clash, NEW diff3 \in BOOLEAN, NEW jo, NEW jt,
         NEW po, NEW pt, JoinedUp(jo, N, po), JoinedUp(jt, N, pt),
         \A r \in 1..N : po[r] = SideRow(clash, o, f, o, t, r),
         \A r \in 1..N : pt[r] = SideRow(clash, t, f, o, t, r)
  PROVE  LET split == SplitConflict(Written(f, o, t, clash, diff3)) IN
         split.state = "common" /\ split.ours = jo[N] /\ split.theirs = jt[N]
<1>1. PICK q : RowsWritten(q, N, f, o, t, clash, diff3)
  BY WrittenReads
<1> DEFINE S == {n \in 0..N : Sides(q[n], jo[n], jt[n])}
<1>2. 0 \in S
  <2>1. SplitConflict(<<>>) = Unsplit
    BY SplitEmpty
  <2>2. q[0] = [file |-> <<>>, open |-> NoHunk] /\ q[0] \in Writings
    BY <1>1 DEF RowsWritten
  <2>3. Sides(q[0], <<>>, <<>>)
    BY <2>1, <2>2 DEF Sides, Unsplit, NoHunk
  <2>4. jo[0] = <<>> /\ jt[0] = <<>>
    BY DEF JoinedUp
  <2> QED  BY <2>3, <2>4
<1>3. ASSUME NEW n \in 1..N, n - 1 \in S  PROVE n \in S
  <2> DEFINE w == q[n - 1]
             a == jo[n - 1]
             b == jt[n - 1]
             fn == f[n]
             on == o[n]
             tn == t[n]
  <2>1. w \in Writings /\ q[n] = WriteRow(w, n \in clash, fn, on, tn, diff3)
    BY <1>1, WritingsType
  <2>2. a \in Cells /\ b \in Cells /\ fn \in Cells /\ on \in Cells /\ tn \in Cells
    BY JoinedType, RowType
  <2>3. /\ jo[n] = a \o SideRow(clash, o, f, o, t, n)
        /\ jt[n] = b \o SideRow(clash, t, f, o, t, n)
    <3>1. jo[n] = a \o po[n] /\ jt[n] = b \o pt[n]
      BY DEF JoinedUp
    <3> QED  BY <3>1
  <2>4. Sides(w, a, b)
    BY <1>3
  <2>5. CASE n \in clash
    <3>1. q[n] = WriteRow(w, TRUE, fn, on, tn, diff3) /\ jo[n] = a \o on /\ jt[n] = b \o tn
      BY <2>1, <2>3, <2>5 DEF SideRow
    <3> HIDE DEF w, a, b, fn, on, tn
    <3>2. Sides(WriteRow(w, TRUE, fn, on, tn, diff3), a \o on, b \o tn)
      BY <2>1, <2>2, <2>4, GatherSides
    <3>3. Sides(q[n], jo[n], jt[n])
      BY <3>1, <3>2, Zenon
    <3> QED  BY <3>3
  <2>6. CASE n \notin clash
    <3> DEFINE x == Merged(fn, on, tn)
    <3>1. q[n] = WriteRow(w, FALSE, fn, on, tn, diff3) /\ jo[n] = a \o x /\ jt[n] = b \o x
      <4>1. (n \in clash) = FALSE
        BY <2>6
      <4>2. q[n] = WriteRow(w, FALSE, fn, on, tn, diff3)
        BY <2>1, <4>1
      <4>3. SideRow(clash, o, f, o, t, n) = x /\ SideRow(clash, t, f, o, t, n) = x
        BY <2>6 DEF SideRow
      <4> QED  BY <2>3, <4>2, <4>3
    <3> HIDE DEF w, a, b, fn, on, tn
    <3>2. Sides(WriteRow(w, FALSE, fn, on, tn, diff3), a \o x, b \o x)
      BY <2>1, <2>2, <2>4, WriteSides DEF Merged
    <3>3. Sides(q[n], jo[n], jt[n])
      BY <3>1, <3>2, Zenon
    <3> QED  BY <3>3
  <2> QED  BY <2>5, <2>6
<1>4. Sides(q[N], jo[N], jt[N]) /\ q[N] \in Writings
  <2>1. \A n \in 0..N : n \in S
    <3> HIDE DEF S
    <3> QED  BY <1>2, <1>3, UpTo
  <2>2. N \in S
    BY <2>1
  <2>3. Sides(q[N], jo[N], jt[N])
    BY <2>2
  <2> QED  BY <2>3 DEF Sides
<1> DEFINE w == q[N]
<1>5. Written(f, o, t, clash, diff3) = w.file \o Hunk(w.open, diff3)
  BY <1>1 DEF RowsWritten
<1>6. w.file \in Seq(Lines) /\ w.open \in Hunks
  BY <1>4 DEF Writings
<1>7. /\ SplitConflict(w.file).state = "common"
      /\ SplitConflict(w.file).ours \o w.open.ours = jo[N]
      /\ SplitConflict(w.file).theirs \o w.open.theirs = jt[N]
  BY <1>4 DEF Sides
<1> HIDE DEF w
<1>8. LET now == SplitConflict(w.file \o Hunk(w.open, diff3)) IN
      now.state = "common" /\ now.ours = jo[N] /\ now.theirs = jt[N]
  BY <1>6, <1>7, SplitHunk
<1> QED  BY <1>5, <1>8

\* Without a conflict it is one row after the other.
LEMMA WrittenPlain ==
  ASSUME NEW N \in Nat, NEW f \in RowCells(N), NEW o \in RowCells(N), NEW t \in RowCells(N),
         NEW diff3 \in BOOLEAN, NEW j, NEW p, JoinedUp(j, N, p),
         \A r \in 1..N : p[r] = Merged(f[r], o[r], t[r])
  PROVE  Written(f, o, t, {}, diff3) = j[N]
<1>1. PICK q : RowsWritten(q, N, f, o, t, {}, diff3)
  BY WrittenReads
<1> DEFINE S == {n \in 0..N : q[n].file = j[n] /\ q[n].open = NoHunk}
<1>2. Hunk(NoHunk, diff3) = <<>>
  BY DEF Hunk, NoHunk
<1>3. 0 \in S
  BY <1>1 DEF RowsWritten, JoinedUp
<1>4. \A u \in Cells : u \o <<>> = u
  BY DEF Cells
<1>5. ASSUME NEW n \in 1..N, n - 1 \in S  PROVE n \in S
  <2> DEFINE w == q[n - 1]
             x == Merged(f[n], o[n], t[n])
  <2>1. q[n] = WriteRow(w, FALSE, f[n], o[n], t[n], diff3)
    <3>1. q[n] = WriteRow(w, n \in {}, f[n], o[n], t[n], diff3)
      BY <1>1, WritingsType
    <3>2. (n \in {}) = FALSE
      OBVIOUS
    <3> QED  BY <3>1, <3>2
  <2>2. w.file = j[n - 1] /\ w.open = NoHunk /\ j[n - 1] \in Cells /\ j[n] = j[n - 1] \o x
    <3>1. j \in [0..N -> Cells] /\ j[n] = j[n - 1] \o p[n]
      BY DEF JoinedUp
    <3>2. n - 1 \in 0..N
      OBVIOUS
    <3> QED  BY <1>5, <3>1, <3>2
  <2>3. q[n] = [file |-> w.file \o Hunk(w.open, diff3) \o x, open |-> NoHunk]
    BY <2>1 DEF WriteRow, Merged
  <2> HIDE DEF w, x
  <2>4. w.file \o Hunk(w.open, diff3) = j[n - 1]
    BY <1>2, <1>4, <2>2
  <2>5. q[n].file = j[n] /\ q[n].open = NoHunk
    BY <2>2, <2>3, <2>4
  <2> QED  BY <2>5
<1>6. N \in S
  <2>1. \A n \in 0..N : n \in S
    <3> HIDE DEF S
    <3> QED  BY <1>3, <1>5, UpTo
  <2> QED  BY <2>1
<1>7. j[N] \in Cells
  BY DEF JoinedUp
<1>8. Written(f, o, t, {}, diff3) = q[N].file \o Hunk(q[N].open, diff3)
  BY <1>1 DEF RowsWritten
<1> QED  BY <1>2, <1>4, <1>6, <1>7, <1>8

-----------------------------------------------------------------------------
(* Lines and ids.                                                          *)

\* what a row may be in a version
CellOf(c, id) == c = <<>> \/ \E l \in NoteLines : c = <<l>> /\ l.id = id

\* What the first n parts make.
Makes(z, n, parts) ==
  /\ z \in Cells
  /\ \A k \in DOMAIN z : \E r \in 1..n : parts[r] = <<z[k]>>
  /\ \A r \in 1..n : parts[r] # <<>> => \E k \in DOMAIN z : parts[r] = <<z[k]>>
  /\ Unique(z)
  /\ n >= 1 /\ parts[1] # <<>> => z # <<>> /\ parts[1] = <<z[1]>>
  /\ \A k, l \in DOMAIN z : k < l =>
       \E r, s \in 1..n : r < s /\ parts[r] = <<z[k]>> /\ parts[s] = <<z[l]>>

LEMMA AppendFacts ==
  ASSUME NEW S, NEW z \in Seq(S), NEW l \in S
  PROVE  /\ Append(z, l) \in Seq(S) /\ z \o <<l>> = Append(z, l)
         /\ DOMAIN Append(z, l) = DOMAIN z \cup {Len(z) + 1} /\ Len(z) + 1 \notin DOMAIN z
         /\ \A k \in DOMAIN z : Append(z, l)[k] = z[k]
         /\ Append(z, l)[Len(z) + 1] = l
         /\ Append(z, l) # <<>> /\ Append(z, l)[1] = IF z = <<>> THEN l ELSE z[1]
  OBVIOUS

LEMMA MakesMore ==
  ASSUME NEW n \in Nat \ {0}, NEW z, NEW parts, NEW ids, Makes(z, n - 1, parts),
         \A r \in 1..n : CellOf(parts[r], ids[r]),
         \A r, s \in 1..n : ids[r] = ids[s] /\ ids[r] \notin OwnKeys => r = s
  PROVE  Makes(z \o parts[n], n, parts)
<1>1. z \in Seq(NoteLines) /\ n \in 1..n /\ \A r \in 1..n : r = n \/ r \in 1..(n - 1)
  BY DEF Makes, Cells
<1>2. \A r \in 1..(n - 1) : r \in 1..n /\ r # n
  OBVIOUS
<1>3. CASE parts[n] = <<>>
  <2>1. z \o parts[n] = z
    BY <1>1, <1>3
  <2>2. n >= 1 /\ parts[1] # <<>> => n - 1 >= 1
    BY <1>3
  <2>3. \A k \in DOMAIN z : \E r \in 1..n : parts[r] = <<z[k]>>
    BY <1>2 DEF Makes
  <2>4. \A r \in 1..n : parts[r] # <<>> => \E k \in DOMAIN z : parts[r] = <<z[k]>>
    BY <1>1, <1>3 DEF Makes
  <2>5. z \in Cells /\ Unique(z)
    BY DEF Makes
  <2>6. parts[1] # <<>> => z # <<>> /\ parts[1] = <<z[1]>>
    BY <2>2 DEF Makes
  <2>7. \A k, l \in DOMAIN z : k < l =>
          \E r, s \in 1..n : r < s /\ parts[r] = <<z[k]>> /\ parts[s] = <<z[l]>>
    BY <1>2 DEF Makes
  <2>8. Makes(z, n, parts)
    BY <2>3, <2>4, <2>5, <2>6, <2>7 DEF Makes
  <2> QED  BY <2>1, <2>8
<1>4. ASSUME NEW l \in NoteLines, parts[n] = <<l>>, l.id = ids[n]
      PROVE  Makes(z \o parts[n], n, parts)
  <2> DEFINE y == Append(z, l)
             e == Len(z) + 1
  <2>1. /\ y \in Seq(NoteLines) /\ z \o parts[n] = y
        /\ DOMAIN y = DOMAIN z \cup {e} /\ e \notin DOMAIN z
        /\ \A k \in DOMAIN z : y[k] = z[k]
        /\ y[e] = l
        /\ y # <<>> /\ y[1] = IF z = <<>> THEN l ELSE z[1]
    BY <1>1, <1>4, AppendFacts
  <2> HIDE DEF y, e
  <2>2. \A k \in DOMAIN z : \E r \in 1..(n - 1) : parts[r] = <<z[k]>>
    BY DEF Makes
  <2>3. ASSUME NEW k \in DOMAIN y  PROVE \E r \in 1..n : parts[r] = <<y[k]>>
    <3>1. CASE k = e
      BY <1>1, <1>4, <2>1, <3>1
    <3>2. CASE k \in DOMAIN z
      BY <1>2, <2>1, <2>2, <3>2
    <3> QED  BY <2>1, <3>1, <3>2
  <2>4. ASSUME NEW r \in 1..n, parts[r] # <<>>
        PROVE  \E k \in DOMAIN y : parts[r] = <<y[k]>>
    <3>1. CASE r = n
      BY <1>4, <2>1, <3>1
    <3>2. CASE r \in 1..(n - 1)
      <4>1. \E k \in DOMAIN z : parts[r] = <<z[k]>>
        BY <2>4, <3>2 DEF Makes
      <4> QED  BY <2>1, <4>1
    <3> QED  BY <1>1, <3>1, <3>2
  <2>5. \A k \in DOMAIN z : z[k].id = l.id => l.id \in OwnKeys
    <3> SUFFICES ASSUME NEW k \in DOMAIN z, z[k].id = l.id, l.id \notin OwnKeys PROVE FALSE
      OBVIOUS
    <3>1. PICK r \in 1..(n - 1) : parts[r] = <<z[k]>>
      BY <2>2
    <3>2. ids[r] = z[k].id
      <4>1. CellOf(parts[r], ids[r])
        BY <1>2
      <4>2. PICK m \in NoteLines : parts[r] = <<m>> /\ m.id = ids[r]
        BY <3>1, <4>1 DEF CellOf
      <4>3. m = z[k]
        BY <3>1, <4>2
      <4> QED  BY <4>2, <4>3
    <3> QED  BY <1>1, <1>2, <1>4, <3>2
  <2>6. Unique(y)
    <3> SUFFICES ASSUME NEW i \in DOMAIN y, NEW k \in DOMAIN y, y[i].id = y[k].id, y[i].id \notin OwnKeys
                 PROVE  i = k
      BY DEF Unique
    <3>1. CASE i \in DOMAIN z /\ k \in DOMAIN z
      BY <2>1, <3>1 DEF Makes, Unique
    <3>2. CASE i = e /\ k \in DOMAIN z
      BY <2>1, <2>5, <3>2
    <3>3. CASE k = e /\ i \in DOMAIN z
      BY <2>1, <2>5, <3>3
    <3> QED  BY <2>1, <3>1, <3>2, <3>3
  <2>7. parts[1] # <<>> => parts[1] = <<y[1]>>
    <3>1. CASE n = 1
      <4>1. z = <<>>
        <5>1. DOMAIN z = {}
          BY <2>2, <3>1
        <5> QED  BY <1>1, <5>1
      <4> QED  BY <1>4, <2>1, <3>1, <4>1
    <3>2. CASE n # 1
      BY <2>1, <3>2 DEF Makes
    <3> QED  BY <3>1, <3>2
  <2>8. ASSUME NEW i \in DOMAIN y, NEW k \in DOMAIN y, i < k
        PROVE  \E r, s \in 1..n : r < s /\ parts[r] = <<y[i]>> /\ parts[s] = <<y[k]>>
    <3>1. i \in DOMAIN z
      BY <1>1, <2>1, <2>8 DEF e
    <3>2. CASE k \in DOMAIN z
      <4>1. PICK r \in 1..(n - 1), s \in 1..(n - 1) : r < s /\ parts[r] = <<z[i]>> /\ parts[s] = <<z[k]>>
        BY <2>8, <3>1, <3>2 DEF Makes
      <4> QED  BY <1>2, <2>1, <3>1, <3>2, <4>1
    <3>3. CASE k = e
      <4>1. PICK r \in 1..(n - 1) : parts[r] = <<z[i]>>
        BY <2>2, <3>1
      <4>2. r < n /\ r \in 1..n
        OBVIOUS
      <4> QED  BY <1>1, <1>4, <2>1, <3>1, <3>3, <4>1, <4>2
    <3> QED  BY <2>1, <3>2, <3>3
  <2>9. Makes(y, n, parts)
    BY <2>1, <2>3, <2>4, <2>6, <2>7, <2>8 DEF Makes, Cells
  <2> QED  BY <2>1, <2>9
<1> QED  BY <1>1, <1>3, <1>4 DEF CellOf

\* Rows with different ids make a note.
LEMMA JoinedMakes ==
  ASSUME NEW N \in Nat, NEW j, NEW parts, NEW ids, JoinedUp(j, N, parts),
         \A r \in 1..N : CellOf(parts[r], ids[r]),
         \A r, s \in 1..N : ids[r] = ids[s] /\ ids[r] \notin OwnKeys => r = s
  PROVE  Makes(j[N], N, parts)
<1> DEFINE S == {n \in 0..N : Makes(j[n], n, parts)}
<1>1. 0 \in S
  <2>1. j[0] = <<>> /\ <<>> \in Cells /\ DOMAIN <<>> = {}
    BY DEF JoinedUp, Cells
  <2> QED  BY <2>1 DEF Makes, Unique
<1>2. ASSUME NEW n \in 1..N, n - 1 \in S  PROVE n \in S
  <2>1. Makes(j[n - 1], n - 1, parts) /\ n \in Nat \ {0}
    BY <1>2
  <2>2. j[n] = j[n - 1] \o parts[n]
    BY DEF JoinedUp
  <2>3. \A r \in 1..n : r \in 1..N
    OBVIOUS
  <2>4. Makes(j[n - 1] \o parts[n], n, parts)
    BY <2>1, <2>3, MakesMore
  <2>5. Makes(j[n], n, parts)
    BY <2>2, <2>4
  <2> QED  BY <2>5
<1>3. N \in S
  <2>1. \A n \in 0..N : n \in S
    <3> HIDE DEF S
    <3> QED  BY <1>1, <1>2, UpTo
  <2> QED  BY <2>1
<1> QED  BY <1>3

-----------------------------------------------------------------------------
(* Inserting and removing an element.                                      *)

LEMMA InsertFacts ==
  ASSUME NEW S, NEW s \in Seq(S), NEW i \in 1..(Len(s) + 1), NEW e \in S
  PROVE  /\ InsertAt(s, i, e) \in Seq(S) /\ Len(InsertAt(s, i, e)) = Len(s) + 1
         /\ \A k \in 1..(i - 1) : InsertAt(s, i, e)[k] = s[k]
         /\ InsertAt(s, i, e)[i] = e
         /\ \A k \in (i + 1)..(Len(s) + 1) : InsertAt(s, i, e)[k] = s[k - 1]
<1> DEFINE a == SubSeq(s, 1, i - 1)
           b == SubSeq(s, i, Len(s))
<1>1. a \in Seq(S) /\ Len(a) = i - 1 /\ \A k \in 1..(i - 1) : a[k] = s[k]
  OBVIOUS
<1>2. b \in Seq(S) /\ Len(b) = Len(s) - i + 1 /\ \A k \in 1..(Len(s) - i + 1) : b[k] = s[i + k - 1]
  OBVIOUS
<1>3. InsertAt(s, i, e) = a \o <<e>> \o b
  BY DEF InsertAt
<1> HIDE DEF a, b
<1> DEFINE c == a \o <<e>>
<1>4. c \in Seq(S) /\ Len(c) = i /\ (\A k \in 1..(i - 1) : c[k] = s[k]) /\ c[i] = e
  BY <1>1
<1> HIDE DEF c
<1> DEFINE d == c \o b
<1>5. d \in Seq(S) /\ Len(d) = Len(s) + 1 /\ \A k \in 1..i : d[k] = c[k]
  BY <1>2, <1>4
<1>6. ASSUME NEW k \in (i + 1)..(Len(s) + 1)  PROVE d[k] = s[k - 1]
  <2>1. d[k] = b[k - i]
    BY <1>2, <1>4
  <2>2. k - i \in 1..(Len(s) - i + 1) /\ i + (k - i) - 1 = k - 1
    OBVIOUS
  <2> QED  BY <1>2, <2>1, <2>2
<1>7. InsertAt(s, i, e) = d
  BY <1>3 DEF c
<1> HIDE DEF d
<1> QED  BY <1>4, <1>5, <1>6, <1>7

LEMMA RemoveFacts ==
  ASSUME NEW S, NEW s \in Seq(S), NEW i \in 1..Len(s)
  PROVE  /\ RemoveAt(s, i) \in Seq(S) /\ Len(RemoveAt(s, i)) = Len(s) - 1
         /\ \A k \in 1..(i - 1) : RemoveAt(s, i)[k] = s[k]
         /\ \A k \in i..(Len(s) - 1) : RemoveAt(s, i)[k] = s[k + 1]
<1> DEFINE a == SubSeq(s, 1, i - 1)
           b == SubSeq(s, i + 1, Len(s))
           d == a \o b
<1>1. a \in Seq(S) /\ Len(a) = i - 1 /\ \A k \in 1..(i - 1) : a[k] = s[k]
  OBVIOUS
<1>2. b \in Seq(S) /\ Len(b) = Len(s) - i /\ \A k \in 1..(Len(s) - i) : b[k] = s[i + k]
  OBVIOUS
<1>3. RemoveAt(s, i) = d
  BY DEF RemoveAt
<1> HIDE DEF a, b
<1>4. d \in Seq(S) /\ Len(d) = Len(s) - 1 /\ \A k \in 1..(i - 1) : d[k] = s[k]
  <2>1. d \in Seq(S)
    BY <1>1, <1>2
  <2>2. Len(d) = Len(s) - 1
    <3>0. \A x, y \in Seq(S) : Len(x \o y) = Len(x) + Len(y)
      OBVIOUS
    <3>1. Len(d) = Len(a) + Len(b)
      BY <1>1, <1>2, <3>0
    <3> HIDE DEF d
    <3> QED  BY <1>1, <1>2, <3>1
  <2>3. \A k \in 1..(i - 1) : d[k] = a[k]
    BY <1>1, <1>2
  <2> QED  BY <1>1, <2>1, <2>2, <2>3
<1>5. ASSUME NEW k \in i..(Len(s) - 1)  PROVE d[k] = s[k + 1]
  <2>1. d[k] = b[k - (i - 1)]
    BY <1>1, <1>2
  <2>2. k - (i - 1) \in 1..(Len(s) - i) /\ i + (k - (i - 1)) = k + 1
    OBVIOUS
  <2> QED  BY <1>2, <2>1, <2>2
<1> HIDE DEF d
<1> QED  BY <1>3, <1>4, <1>5

\* The first index of those that are asked for.
LEMMA LeastIndex ==
  ASSUME NEW I \in SUBSET Nat, I # {}
  PROVE  /\ Min(I) \in I /\ \A k \in I : Min(I) <= k
         /\ (CHOOSE i \in I : \A k \in I : i <= k) \in I
         /\ \A k \in I : (CHOOSE i \in I : \A j \in I : i <= j) <= k
<1>1. \E i \in I : \A k \in I : i <= k
  BY LeastElement
<1> QED  BY <1>1 DEF Min

-----------------------------------------------------------------------------
(* Weave: the ids of both notes, each once.                                *)

Distinct(ids) == \A i, k \in DOMAIN ids : ids[i] = ids[k] /\ ids[i] \notin OwnKeys => i = k

LEMMA WovenFacts ==
  ASSUME NEW acc \in Seq(Words), NEW t \in Seq(Words), NEW i \in 1..Len(t)
  PROVE  /\ Woven(acc, t, i) \in Seq(Words)
         /\ Has(acc, t[i]) => Woven(acc, t, i) = acc
         /\ \A x : Has(Woven(acc, t, i), x) <=> Has(acc, x) \/ x = t[i]
         /\ Distinct(acc) => Distinct(Woven(acc, t, i))
         /\ Woven(acc, t, i) # <<>>
         /\ i > 1 /\ Has(acc, t[i - 1]) => Woven(acc, t, i)[1] = acc[1]
         /\ i = 1 /\ ~Has(acc, t[1]) => Woven(acc, t, i)[1] = t[1]
<1>1. Contains(acc, t[i]) <=> Has(acc, t[i])
  BY DEF Contains, Has
<1>2. CASE Has(acc, t[i])
  <2>1. Woven(acc, t, i) = acc
    BY <1>1, <1>2 DEF Woven
  <2>2. acc # <<>>
    BY <1>2 DEF Has
  <2> QED  BY <1>2, <2>1, <2>2
<1>3. CASE ~Has(acc, t[i])
  <2> DEFINE I == {k \in 1..Len(acc) : acc[k] = t[i - 1]}
             p == IF i = 1 THEN 1 ELSE SelectInSeq(acc, LAMBDA x : x = t[i - 1]) + 1
             e == t[i]
             w == InsertAt(acc, p, e)
  <2>1. Woven(acc, t, i) = w
    BY <1>1, <1>3 DEF Woven
  <2>2. p \in 1..(Len(acc) + 1) /\ (i = 1 => p = 1) /\ (i > 1 /\ Has(acc, t[i - 1]) => p > 1)
    <3>1. SelectInSeq(acc, LAMBDA x : x = t[i - 1]) = IF I # {} THEN Min(I) ELSE 0
      BY DEF SelectInSeq
    <3>2. I # {} => Min(I) \in I
      <4>1. I \in SUBSET Nat
        OBVIOUS
      <4> HIDE DEF I
      <4> QED  BY <4>1, LeastIndex
    <3>3. Has(acc, t[i - 1]) => I # {}
      BY DEF Has
    <3> QED  BY <3>1, <3>2, <3>3
  <2>3. e \in Words
    OBVIOUS
  <2> HIDE DEF p, e, w
  <2>4. /\ w \in Seq(Words) /\ Len(w) = Len(acc) + 1
        /\ \A k \in 1..(p - 1) : w[k] = acc[k]
        /\ w[p] = e
        /\ \A k \in (p + 1)..(Len(acc) + 1) : w[k] = acc[k - 1]
    BY <2>2, <2>3, InsertFacts DEF w
  <2>5. \A x : Has(w, x) <=> Has(acc, x) \/ x = e
    <3> TAKE x
    <3>1. ASSUME NEW k \in DOMAIN w  PROVE Has(acc, w[k]) \/ w[k] = e
      <4>1. CASE k < p
        <5>1. w[k] = acc[k] /\ k \in DOMAIN acc
          BY <2>2, <2>4, <4>1
        <5> QED  BY <5>1 DEF Has
      <4>2. CASE k = p
        BY <2>4, <4>2
      <4>3. CASE k > p
        <5>1. w[k] = acc[k - 1] /\ k - 1 \in DOMAIN acc
          BY <2>2, <2>4, <4>3
        <5> QED  BY <5>1 DEF Has
      <4> QED  BY <2>2, <2>4, <4>1, <4>2, <4>3
    <3>2. ASSUME NEW k \in DOMAIN acc  PROVE Has(w, acc[k])
      <4>1. CASE k < p
        <5>1. w[k] = acc[k] /\ k \in DOMAIN w
          BY <2>2, <2>4, <4>1
        <5> QED  BY <5>1 DEF Has
      <4>2. CASE k >= p
        <5>1. w[k + 1] = acc[k] /\ k + 1 \in DOMAIN w
          BY <2>2, <2>4, <4>2
        <5> QED  BY <5>1 DEF Has
      <4> QED  BY <2>2, <4>1, <4>2
    <3>3. Has(w, e)
      BY <2>2, <2>4 DEF Has
    <3> QED  BY <3>1, <3>2, <3>3 DEF Has
  <2>6. ASSUME Distinct(acc)  PROVE Distinct(w)
    <3> SUFFICES ASSUME NEW k \in DOMAIN w, NEW n \in DOMAIN w, w[k] = w[n], w[k] \notin OwnKeys, k < n
                 PROVE  FALSE
      BY <2>4 DEF Distinct
    <3>1. ~Has(acc, e)
      BY <1>3 DEF e
    <3>2. CASE k < p /\ n < p
      BY <2>2, <2>4, <2>6, <3>2 DEF Distinct
    <3>3. CASE k < p /\ n = p
      BY <2>2, <2>4, <3>1, <3>3 DEF Has
    <3>4. CASE k < p /\ n > p
      <4>1. w[n] = acc[n - 1] /\ n - 1 \in DOMAIN acc /\ w[k] = acc[k] /\ k \in DOMAIN acc
        BY <2>2, <2>4, <3>4
      <4>2. k = n - 1
        BY <2>6, <4>1 DEF Distinct
      <4> QED  BY <2>2, <2>4, <3>4, <4>2
    <3>5. CASE k = p
      <4>0. n \in (p + 1)..(Len(acc) + 1) /\ n - 1 \in 1..Len(acc)
        BY <2>2, <2>4, <3>5
      <4>1. w[n] = acc[n - 1] /\ n - 1 \in DOMAIN acc
        BY <2>4, <4>0
      <4> QED  BY <2>4, <3>1, <3>5, <4>1 DEF Has
    <3>6. CASE k > p
      <4>1. w[n] = acc[n - 1] /\ n - 1 \in DOMAIN acc /\ w[k] = acc[k - 1] /\ k - 1 \in DOMAIN acc
        BY <2>2, <2>4, <3>6
      <4>2. k - 1 = n - 1
        BY <2>6, <4>1 DEF Distinct
      <4> QED  BY <2>2, <2>4, <4>2
    <3> QED  BY <2>2, <2>4, <3>2, <3>3, <3>4, <3>5, <3>6
  <2>7. w # <<>> /\ (p > 1 => w[1] = acc[1]) /\ (p = 1 => w[1] = e)
    BY <2>2, <2>4
  <2> QED  BY <1>3, <2>1, <2>2, <2>4, <2>5, <2>6, <2>7 DEF e
<1> QED  BY <1>2, <1>3

\* the ids of s, and those of t from the n-th down
Weaves(w, s, t, n) ==
  /\ w \in Seq(Words)
  /\ \A x : Has(w, x) <=> Has(s, x) \/ \E k \in 1..n : t[k] = x
  /\ Distinct(s) => Distinct(w)
  /\ (\A k \in 1..n : Has(s, t[k])) => w = s
  /\ n >= 1 => w # <<>> /\ w[1] = IF Has(s, t[1]) THEN s[1] ELSE t[1]

LEMMA WeavesMore ==
  ASSUME NEW s \in Seq(Words), NEW t \in Seq(Words), NEW n \in 1..Len(t), NEW w, Weaves(w, s, t, n - 1)
  PROVE  Weaves(Woven(w, t, n), s, t, n)
<1> DEFINE v == Woven(w, t, n)
<1>1. w \in Seq(Words) /\ n \in Nat \ {0} /\ (n = 1 => w = s)
  BY DEF Weaves
<1>2. /\ v \in Seq(Words)
      /\ Has(w, t[n]) => v = w
      /\ \A x : Has(v, x) <=> Has(w, x) \/ x = t[n]
      /\ Distinct(w) => Distinct(v)
      /\ v # <<>>
      /\ n > 1 /\ Has(w, t[n - 1]) => v[1] = w[1]
      /\ n = 1 /\ ~Has(w, t[1]) => v[1] = t[1]
  BY <1>1, WovenFacts
<1> HIDE DEF v
<1>3. \A k \in 1..n : k = n \/ k \in 1..(n - 1)
  OBVIOUS
<1>4. \A k \in 1..(n - 1) : k \in 1..n
  OBVIOUS
<1>5. \A x : Has(v, x) <=> Has(s, x) \/ \E k \in 1..n : t[k] = x
  <2> TAKE x
  <2>1. Has(w, x) <=> Has(s, x) \/ \E k \in 1..(n - 1) : t[k] = x
    BY DEF Weaves
  <2>2. (\E k \in 1..n : t[k] = x) <=> x = t[n] \/ \E k \in 1..(n - 1) : t[k] = x
    BY <1>1, <1>3, <1>4
  <2> QED  BY <1>2, <2>1, <2>2
<1>6. Distinct(s) => Distinct(v)
  BY <1>2 DEF Weaves
<1>7. ASSUME \A k \in 1..n : Has(s, t[k])  PROVE v = s
  <2>1. w = s
    BY <1>4, <1>7 DEF Weaves
  <2>2. Has(w, t[n])
    BY <1>7, <2>1
  <2> QED  BY <1>2, <2>1, <2>2
<1>8. v[1] = IF Has(s, t[1]) THEN s[1] ELSE t[1]
  <2>1. CASE n = 1
    <3>1. w = s
      BY <1>1, <2>1
    <3> QED  BY <1>2, <2>1, <3>1
  <2>2. CASE n > 1
    <3>1. Has(w, t[n - 1])
      <4>1. n - 1 \in 1..(n - 1)
        BY <2>2
      <4> QED  BY <4>1 DEF Weaves
    <3>2. n - 1 >= 1 /\ v[1] = w[1]
      BY <1>2, <2>2, <3>1
    <3> QED  BY <3>2 DEF Weaves
  <2> QED  BY <2>1, <2>2
<1>9. Weaves(v, s, t, n)
  BY <1>2, <1>5, <1>6, <1>7, <1>8 DEF Weaves
<1> QED  BY <1>9 DEF v

LEMMA WeaveReads ==
  ASSUME NEW s \in Seq(Words), NEW t \in Seq(Words)
  PROVE  \E q : /\ q \in [0..Len(t) -> Seq(Words)] /\ q[0] = s /\ q[Len(t)] = Weave(s, t)
                /\ \A i \in 1..Len(t) : q[i] = Woven(q[i - 1], t, i)
<1> DEFINE N == Len(t)
           step == [i \in 1..N |-> [acc \in Seq(Words) |-> Woven(acc, t, i)]]
           Is(q) == q = [i \in 0..N |-> IF i = 0 THEN s ELSE Woven(q[i - 1], t, i)]
<1>1. N \in Nat
  OBVIOUS
<1>2. \A i \in 1..N : \A acc \in Seq(Words) : Woven(acc, t, i) \in Seq(Words)
  BY WovenFacts
<1>3. Weave(s, t) = (CHOOSE q : Is(q))[N]
  BY DEF Weave
<1> HIDE DEF N
<1>4. PICK r \in [0..N -> Seq(Words)] : r[0] = s /\ \A i \in 1..N : r[i] = step[i][r[i - 1]]
  <2>1. step \in Steps(Seq(Words), N)
    BY <1>2 DEF Steps
  <2> HIDE DEF step
  <2>2. \E r : Taken(r, Seq(Words), N, s, step)
    BY <1>1, <2>1, FoldExists
  <2> QED  BY <2>2 DEF Taken
<1>5. \A i \in 1..N : r[i] = Woven(r[i - 1], t, i)
  <2>1. \A i \in 1..N : r[i - 1] \in Seq(Words)
    BY <1>1, <1>4
  <2> QED  BY <1>4, <2>1
<1>6. Is(r)
  BY <1>4, <1>5
<1> DEFINE q == CHOOSE q : Is(q)
<1>7. Is(q)
  BY <1>6
<1> HIDE DEF q
<1> DEFINE Same == {i \in 0..N : q[i] = r[i]}
<1>8. 0 \in Same
  BY <1>1, <1>4, <1>7
<1>9. ASSUME NEW i \in 1..N, i - 1 \in Same  PROVE i \in Same
  BY <1>1, <1>5, <1>7, <1>9
<1>10. q[N] = r[N]
  <2>1. \A i \in 0..N : i \in Same
    <3> HIDE DEF Same
    <3> QED  BY <1>1, <1>8, <1>9, UpTo
  <2> QED  BY <1>1, <2>1
<1>11. r[N] = Weave(s, t)
  BY <1>3, <1>10 DEF q
<1> QED  BY <1>4, <1>5, <1>11 DEF N

LEMMA WeaveFacts ==
  ASSUME NEW s \in Seq(Words), NEW t \in Seq(Words)
  PROVE  Weaves(Weave(s, t), s, t, Len(t))
<1>1. PICK q : /\ q \in [0..Len(t) -> Seq(Words)] /\ q[0] = s /\ q[Len(t)] = Weave(s, t)
               /\ \A i \in 1..Len(t) : q[i] = Woven(q[i - 1], t, i)
  BY WeaveReads
<1>2. Len(t) \in Nat
  OBVIOUS
<1> DEFINE S == {n \in 0..Len(t) : Weaves(q[n], s, t, n)}
<1>3. 0 \in S
  BY <1>1, <1>2 DEF Weaves
<1>4. ASSUME NEW n \in 1..Len(t), n - 1 \in S  PROVE n \in S
  <2>1. Weaves(Woven(q[n - 1], t, n), s, t, n)
    BY <1>4, WeavesMore
  <2> QED  BY <1>1, <2>1
<1>5. \A n \in 0..Len(t) : n \in S
  <2> HIDE DEF S
  <2> QED  BY <1>2, <1>3, <1>4, UpTo
<1> QED  BY <1>1, <1>2, <1>5

-----------------------------------------------------------------------------
(* The line of an id in a note.                                            *)

LEMMA AtFacts ==
  ASSUME NEW note \in Cells, NEW id
  PROVE  /\ CellOf(At(note, id), id)
         /\ At(note, id) = <<>> <=> \A i \in DOMAIN note : note[i].id # id
         /\ \A l : At(note, id) = <<l>> => \E i \in DOMAIN note : l = note[i] /\ l.id = id
<1> DEFINE at == {i \in DOMAIN note : note[i].id = id}
           i == CHOOSE i \in at : \A k \in at : i <= k
<1>1. At(note, id) = IF at = {} THEN <<>> ELSE <<note[i]>>
  BY DEF At
<1>2. at # {} => i \in at
  <2>1. at \in SUBSET Nat
    BY DEF Cells
  <2> HIDE DEF at
  <2> QED  BY <2>1, LeastIndex
<1> HIDE DEF i
<1>3. at # {} => note[i] \in NoteLines /\ note[i].id = id /\ i \in DOMAIN note
  BY <1>2 DEF Cells
<1>4. at = {} <=> \A k \in DOMAIN note : note[k].id # id
  OBVIOUS
<1> HIDE DEF at
<1>5. CASE at = {}
  BY <1>1, <1>4, <1>5 DEF CellOf
<1>6. CASE at # {}
  <2>1. At(note, id) = <<note[i]>> /\ <<note[i]>> # <<>>
    BY <1>1, <1>6
  <2>2. \A l : <<note[i]>> = <<l>> => l = note[i]
    OBVIOUS
  <2>3. CellOf(At(note, id), id)
    BY <1>3, <1>6, <2>1 DEF CellOf
  <2> QED  BY <1>3, <1>4, <1>6, <2>1, <2>2, <2>3
<1> QED  BY <1>5, <1>6

LEMMA AtUnique ==
  ASSUME NEW note \in Cells, Unique(note), NEW i \in DOMAIN note, note[i].id \notin OwnKeys
  PROVE  At(note, note[i].id) = <<note[i]>>
<1> DEFINE id == note[i].id
<1>1. At(note, id) # <<>>
  BY AtFacts
<1>2. PICK l \in NoteLines : At(note, id) = <<l>>
  <2>1. CellOf(At(note, id), id)
    BY AtFacts
  <2> QED  BY <1>1, <2>1 DEF CellOf
<1>3. PICK k \in DOMAIN note : l = note[k] /\ l.id = id
  BY <1>2, AtFacts
<1>4. k = i
  BY <1>3 DEF Unique
<1> QED  BY <1>2, <1>3, <1>4

\* Notes whose lines of that id are the same.
LEMMA AtSame ==
  ASSUME NEW x \in Cells, Unique(x), NEW y \in Cells, Unique(y), NEW id, id \notin OwnKeys,
         \A i \in DOMAIN x : x[i].id = id => \E k \in DOMAIN y : y[k] = x[i],
         \A k \in DOMAIN y : y[k].id = id => \E i \in DOMAIN x : y[k].id = x[i].id
  PROVE  At(x, id) = At(y, id)
<1>1. CASE \E i \in DOMAIN x : x[i].id = id
  <2>1. PICK i \in DOMAIN x : x[i].id = id
    BY <1>1
  <2>2. PICK k \in DOMAIN y : y[k] = x[i]
    BY <2>1
  <2>3. At(x, x[i].id) = <<x[i]>> /\ At(y, y[k].id) = <<y[k]>>
    BY <2>1, <2>2, AtUnique
  <2> QED  BY <2>1, <2>2, <2>3
<1>2. CASE \A i \in DOMAIN x : x[i].id # id
  <2>1. \A k \in DOMAIN y : y[k].id # id
    BY <1>2
  <2>2. At(x, id) = <<>> /\ At(y, id) = <<>>
    BY <1>2, <2>1, AtFacts
  <2> QED  BY <2>2
<1> QED  BY <1>1, <1>2

\* What a note made of parts has of an id is the part of that id.
LEMMA AtMade ==
  ASSUME NEW N \in Nat, NEW z, NEW parts, NEW ids, Makes(z, N, parts),
         \A r \in 1..N : CellOf(parts[r], ids[r]),
         \A r, s \in 1..N : ids[r] = ids[s] /\ ids[r] \notin OwnKeys => r = s
  PROVE  /\ \A r \in 1..N : ids[r] \notin OwnKeys => At(z, ids[r]) = parts[r]
         /\ \A id : id \notin OwnKeys /\ (\A r \in 1..N : ids[r] # id) => At(z, id) = <<>>
<1>0. \A l : <<l>> # <<>>
  OBVIOUS
<1>1. z \in Cells /\ Unique(z)
  BY DEF Makes
<1>2. ASSUME NEW k \in DOMAIN z  PROVE \E r \in 1..N : parts[r] = <<z[k]>> /\ ids[r] = z[k].id
  <2>1. PICK r \in 1..N : parts[r] = <<z[k]>>
    BY DEF Makes
  <2>2. parts[r] # <<>>
    BY <1>0, <2>1
  <2>3. CellOf(parts[r], ids[r])
    OBVIOUS
  <2>4. PICK l \in NoteLines : parts[r] = <<l>> /\ l.id = ids[r]
    BY <2>2, <2>3 DEF CellOf
  <2>5. l = z[k]
    BY <2>1, <2>4
  <2> QED  BY <2>1, <2>4, <2>5
<1>3. ASSUME NEW r \in 1..N, ids[r] \notin OwnKeys  PROVE At(z, ids[r]) = parts[r]
  <2>1. CASE parts[r] = <<>>
    <3>1. \A k \in DOMAIN z : z[k].id # ids[r]
      <4> SUFFICES ASSUME NEW k \in DOMAIN z, z[k].id = ids[r] PROVE FALSE
        OBVIOUS
      <4>1. PICK s \in 1..N : parts[s] = <<z[k]>> /\ ids[s] = z[k].id
        BY <1>2
      <4>2. s = r
        BY <1>3, <4>1
      <4> QED  BY <1>0, <2>1, <4>1, <4>2
    <3> QED  BY <1>1, <2>1, <3>1, AtFacts
  <2>2. CASE parts[r] # <<>>
    <3>1. PICK k \in DOMAIN z : parts[r] = <<z[k]>>
      BY <2>2 DEF Makes
    <3>2. PICK l \in NoteLines : parts[r] = <<l>> /\ l.id = ids[r]
      BY <2>2 DEF CellOf
    <3>3. l = z[k]
      BY <3>1, <3>2
    <3>4. At(z, z[k].id) = <<z[k]>>
      BY <1>1, <1>3, <3>2, <3>3, AtUnique
    <3> QED  BY <3>1, <3>2, <3>3, <3>4
  <2> QED  BY <2>1, <2>2
<1>4. ASSUME NEW id, id \notin OwnKeys, \A r \in 1..N : ids[r] # id  PROVE At(z, id) = <<>>
  <2>1. \A k \in DOMAIN z : z[k].id # id
    BY <1>2, <1>4
  <2> QED  BY <1>1, <2>1, AtFacts
<1> QED  BY <1>3, <1>4

-----------------------------------------------------------------------------
(* MergeSides.                                                             *)

LEMMA LinesIn ==
  ASSUME NEW S, NEW T, NEW s \in Seq(S), \A i \in DOMAIN s : s[i] \in T
  PROVE  s \in Seq(T)
<1>1. Len(s) \in Nat /\ s \in [1..Len(s) -> T]
  OBVIOUS
<1> QED  BY <1>1, SeqDef

LEMMA CloseFacts ==
  ASSUME NEW note \in Cells
  PROVE  /\ Close(note) \in Nat
         /\ Close(note) # 0 => /\ Close(note) \in 2..Len(note) /\ note[Close(note)].kind = "fence"
                               /\ Opened(note)
         /\ Opened(note) /\ Close(note) = 0 => \A i \in 2..Len(note) : note[i].kind # "fence"
<1> DEFINE I == {i \in 2..Len(note) : note[i].kind = "fence"}
<1>1. Len(note) \in Nat
  BY DEF Cells
<1>2. Close(note) = IF Opened(note) THEN (IF I # {} THEN Min(I) ELSE 0) ELSE 0
  BY DEF Close, SelectInSubSeq
<1>3. I # {} => Min(I) \in I
  <2>1. I \in SUBSET Nat
    BY <1>1
  <2> HIDE DEF I
  <2> QED  BY <2>1, LeastIndex
<1> QED  BY <1>1, <1>2, <1>3

\* What MergeSides puts together has the lines that are the same on both sides;
\* where they differ, both have created or modified, and one of them wins.
FromSides(z, a, b, o) ==
  /\ Len(z) = Len(a) /\ Len(b) = Len(a) /\ z # <<>> /\ z[1] = a[1] /\ z \in Seq(FineLines)
  /\ \A i \in DOMAIN a : \/ z[i] = a[i] /\ b[i] = a[i]
                         \/ /\ z[i] \in {a[i], b[i]} /\ a[i].id \in OwnKeys /\ b[i].id \in OwnKeys
                            /\ a[i] # b[i] /\ z[i] \in Reconcile(a[i], b[i], o)

LEMMA ReconcileFacts ==
  ASSUME NEW a \in FineLines, NEW b \in FineLines, NEW o, NEW l \in Reconcile(a, b, o)
  PROVE  l \in {a, b} /\ a.id \in OwnKeys /\ b.id \in OwnKeys
<1>1. a.kind = "key" /\ b.kind = "key" /\ a.key = b.key /\ Owned(a.key, o)
  BY DEF Reconcile
<1>2. a.key \in OwnKeys
  BY <1>1 DEF Owned, OwnKeys
<1>3. l \in {a, b}
  BY DEF Reconcile, Winner
<1> QED  BY <1>1, <1>2, <1>3 DEF FineLines

LEMMA SidesMerged ==
  ASSUME NEW a \in Seq(FineLines), NEW b \in Seq(FineLines), NEW o, NEW z \in MergeSides(a, b, o)
  PROVE  FromSides(z, a, b, o)
<1> DEFINE end == Close(a)
           rows == {i \in 2..end - 1 : a[i] # b[i]}
           merged(i) == IF i \in rows THEN Reconcile(a[i], b[i], o) ELSE {a[i]}
<1>1. /\ end # 0 /\ end = Close(b)
      /\ a[1] = b[1]
      /\ SubSeq(a, end, Len(a)) = SubSeq(b, end, Len(b))
      /\ \A i \in rows : merged(i) # {}
      /\ z = [i \in DOMAIN a |-> CHOOSE l \in merged(i) : TRUE]
  BY DEF MergeSides
<1>2. a \in Cells /\ b \in Cells
  <2>1. FineLines \subseteq NoteLines
    BY DEF FineLines
  <2> QED  BY <2>1 DEF Cells
<1>3. end \in 2..Len(a) /\ end \in 2..Len(b)
  BY <1>1, <1>2, CloseFacts
<1> HIDE DEF end
<1>4. Len(b) = Len(a)
  <2>1. Len(SubSeq(a, end, Len(a))) = Len(a) - end + 1
    BY <1>3
  <2>2. Len(SubSeq(b, end, Len(b))) = Len(b) - end + 1
    BY <1>3
  <2> QED  BY <1>1, <1>3, <2>1, <2>2
<1>5. ASSUME NEW i \in end..Len(a)  PROVE a[i] = b[i]
  <2>1. i - end + 1 \in 1..(Len(a) - end + 1) /\ end + (i - end + 1) - 1 = i
    BY <1>3
  <2>2. SubSeq(a, end, Len(a))[i - end + 1] = a[i]
    BY <1>3, <2>1
  <2>3. SubSeq(b, end, Len(b))[i - end + 1] = b[i]
    BY <1>3, <1>4, <2>1
  <2> QED  BY <1>1, <2>2, <2>3
<1>6. \A i \in DOMAIN a : i \in 1..Len(a) /\ a[i] \in FineLines /\ b[i] \in FineLines
  BY <1>4
<1>7. ASSUME NEW i \in DOMAIN a
      PROVE  \/ z[i] = a[i] /\ b[i] = a[i]
             \/ /\ z[i] \in {a[i], b[i]} /\ a[i].id \in OwnKeys /\ b[i].id \in OwnKeys
                /\ a[i] # b[i] /\ z[i] \in Reconcile(a[i], b[i], o)
  <2>1. z[i] = CHOOSE l \in merged(i) : TRUE
    BY <1>1
  <2>2. CASE i \in rows
    <3>1. z[i] \in Reconcile(a[i], b[i], o)
      BY <1>1, <2>1, <2>2
    <3> QED  BY <1>6, <2>2, <3>1, ReconcileFacts
  <2>3. CASE i \notin rows
    <3>1. z[i] = a[i]
      BY <2>1, <2>3
    <3>2. a[i] = b[i]
      <4>1. CASE i = 1
        BY <1>1, <4>1
      <4>2. CASE i \in 2..end - 1
        BY <2>3, <4>2
      <4>3. CASE i \in end..Len(a)
        BY <1>5, <4>3
      <4> QED  BY <1>3, <1>6, <4>1, <4>2, <4>3
    <3> QED  BY <3>1, <3>2
  <2> QED  BY <2>2, <2>3
<1>8. z[1] = a[1]
  <2>1. 1 \in DOMAIN a /\ 1 \notin rows
    BY <1>3
  <2>2. z[1] = CHOOSE l \in {a[1]} : TRUE
    BY <1>1, <2>1
  <2> QED  BY <2>2
<1> HIDE DEF rows, merged
<1>9. Len(z) = Len(a) /\ z # <<>> /\ z \in Seq(FineLines)
  <2>1. \A i \in DOMAIN a : z[i] \in FineLines
    BY <1>6, <1>7
  <2>2. z \in [1..Len(a) -> FineLines] /\ Len(a) \in Nat
    BY <1>1, <2>1
  <2>3. z \in Seq(FineLines)
    BY <2>2, SeqDef
  <2> QED  BY <1>3, <2>2, <2>3
<1> QED  BY <1>4, <1>7, <1>8, <1>9 DEF FromSides

-----------------------------------------------------------------------------
(* A merge that ends well, row by row.                                     *)

LEMMA ClashFacts ==
  ASSUME NEW N \in Nat, NEW f \in RowCells(N), NEW o \in RowCells(N), NEW t \in RowCells(N),
         NEW r \in 1..N
  PROVE  /\ r \in Clashes(f, o, t) => o[r] # t[r]
         /\ r \notin Clashes(f, o, t) /\ f[r] # t[r] => o[r] \in {f[r], t[r]}
<1> DEFINE changed(s) == f[s] # o[s] \/ f[s] # t[s]
           hunk(s) == {x \in DOMAIN f : \A y \in (s..x) \cup (x..s) : changed(y)}
<1>1. DOMAIN f = 1..N
  BY DEF RowCells
<1>2. Clashes(f, o, t) = {s \in DOMAIN f : /\ o[s] # t[s]
                                           /\ \E x \in hunk(s) : f[x] # o[x]
                                           /\ \E x \in hunk(s) : f[x] # t[x]}
  BY DEF Clashes
<1>3. changed(r) => r \in hunk(r)
  <2>1. \A y \in (r..r) \cup (r..r) : y = r
    OBVIOUS
  <2> QED  BY <1>1, <2>1
<1> HIDE DEF hunk
<1> QED  BY <1>1, <1>2, <1>3

\* One row of a merge that ends well has what one of the sides has: "ours"
\* if theirs is as it was, and else theirs.
RowLaw(f, o, t, p) == p = Merged(f, o, t) /\ (f # t => o \in {f, t})
Rowwise(parts, ids, N, f, o, t) ==
  \A r \in 1..N : /\ parts[r] \in {o[r], t[r]}
                  /\ ids[r] \notin OwnKeys => RowLaw(f[r], o[r], t[r], parts[r])

\* It has the same lines in the same places, but for created and modified.
ButForOwn(z, a) ==
  /\ z \in Seq(FineLines) /\ Len(z) = Len(a)
  /\ a # <<>> => z[1] = a[1]
  /\ \A i \in DOMAIN a : z[i] = a[i] \/ (z[i].id \in OwnKeys /\ a[i].id \in OwnKeys)

FineCell(c) == \A l : c = <<l>> => l \in FineLines
IdRows(ids, N) ==
  \A r, s \in 1..N : ids[r] = ids[s] /\ ids[r] \notin OwnKeys => r = s

LEMMA JoinedParts ==
  ASSUME NEW N \in Nat, NEW parts \in RowCells(N), NEW ids, IdRows(ids, N),
         \A r \in 1..N : CellOf(parts[r], ids[r]) /\ FineCell(parts[r])
  PROVE  \E j : JoinedUp(j, N, parts) /\ Makes(j[N], N, parts) /\ j[N] \in Seq(FineLines)
<1>2. PICK j : JoinedUp(j, N, parts)
  BY JoinExists
<1>3. Makes(j[N], N, parts)
  BY <1>2, JoinedMakes DEF IdRows
<1>4. j[N] \in Seq(NoteLines)
  BY <1>3 DEF Makes, Cells
<1>5. ASSUME NEW k \in DOMAIN j[N]  PROVE j[N][k] \in FineLines
  <2>1. PICK r \in 1..N : parts[r] = <<j[N][k]>>
    BY <1>3 DEF Makes
  <2> QED  BY <2>1 DEF FineCell
<1>6. j[N] \in Seq(FineLines)
  <2> DEFINE u == j[N]
  <2>1. u \in Seq(NoteLines) /\ \A k \in DOMAIN u : u[k] \in FineLines
    BY <1>4, <1>5
  <2> HIDE DEF u
  <2>2. u \in Seq(FineLines)
    BY <2>1, LinesIn
  <2> QED  BY <2>2 DEF u
<1> QED  BY <1>2, <1>3, <1>6

\* What the resolver puts together has the rows of both sides.
LEMMA SidesAgree ==
  ASSUME NEW N \in Nat, NEW ids, IdRows(ids, N), NEW po, NEW pt,
         \A r \in 1..N : CellOf(po[r], ids[r]) /\ CellOf(pt[r], ids[r]),
         NEW a, NEW b, Makes(a, N, po), Makes(b, N, pt), NEW z, NEW o, FromSides(z, a, b, o)
  PROVE  \A r \in 1..N : ids[r] \notin OwnKeys => po[r] = pt[r]
<1>1. a \in Cells /\ b \in Cells /\ Unique(a) /\ Unique(b)
  BY DEF Makes
<1>2. DOMAIN a = DOMAIN b
  BY <1>1 DEF FromSides, Cells
<1> TAKE r \in 1..N
<1> HAVE ids[r] \notin OwnKeys
<1>3. At(a, ids[r]) = po[r]
  BY AtMade DEF IdRows
<1>4. At(b, ids[r]) = pt[r]
  BY AtMade DEF IdRows
<1>5. At(a, ids[r]) = At(b, ids[r])
  <2>1. \A i \in DOMAIN a : a[i].id = ids[r] \/ b[i].id = ids[r] => b[i] = a[i]
    BY DEF FromSides
  <2>2. \A i \in DOMAIN a : a[i].id = ids[r] => \E k \in DOMAIN b : b[k] = a[i]
    BY <1>2, <2>1
  <2>3. \A k \in DOMAIN b : b[k].id = ids[r] => \E i \in DOMAIN a : b[k].id = a[i].id
    BY <1>2, <2>1
  <2> QED  BY <1>1, <2>2, <2>3, AtSame
<1> QED  BY <1>3, <1>4, <1>5

LEMMA FromSidesFacts ==
  ASSUME NEW a, NEW b \in Seq(FineLines), NEW z, NEW o, a \in Seq(FineLines), FromSides(z, a, b, o)
  PROVE  ButForOwn(z, a) /\ \A i \in DOMAIN z : (\E k \in DOMAIN a : z[i] = a[k]) \/ (\E k \in DOMAIN b : z[i] = b[k])
<1>1. DOMAIN z = DOMAIN a /\ DOMAIN b = DOMAIN a
  BY DEF FromSides
<1>2. ButForOwn(z, a)
  BY <1>1 DEF FromSides, ButForOwn
<1>3. ASSUME NEW i \in DOMAIN z
      PROVE  (\E k \in DOMAIN a : z[i] = a[k]) \/ (\E k \in DOMAIN b : z[i] = b[k])
  <2>1. z[i] = a[i] \/ z[i] = b[i]
    BY <1>1 DEF FromSides
  <2> QED  BY <1>1, <2>1
<1> QED  BY <1>2, <1>3

LEMMA MergeParts ==
  ASSUME NEW N \in Nat, NEW f \in RowCells(N), NEW o \in RowCells(N), NEW t \in RowCells(N),
         NEW ids, IdRows(ids, N), NEW diff3 \in BOOLEAN, NEW op,
         \A r \in 1..N : /\ CellOf(o[r], ids[r]) /\ FineCell(o[r])
                         /\ CellOf(t[r], ids[r]) /\ FineCell(t[r]),
         NEW z \in Resolved(MergeRows(f, o, t, diff3), op)
  PROVE  \E a, parts : /\ Makes(a, N, parts) /\ Rowwise(parts, ids, N, f, o, t) /\ ButForOwn(z, a)
                       /\ \A i \in DOMAIN z : \E r \in 1..N : <<z[i]>> \in {o[r], t[r]}
<1> DEFINE clash == Clashes(f, o, t)
           file == Written(f, o, t, clash, diff3)
           po == [r \in 1..N |-> SideRow(clash, o, f, o, t, r)]
           pt == [r \in 1..N |-> SideRow(clash, t, f, o, t, r)]
<1>1. \A r \in 1..N : o[r] \in Cells /\ t[r] \in Cells
  BY RowType
<1>2. \A r \in 1..N : po[r] \in {o[r], t[r]} /\ pt[r] \in {o[r], t[r]}
  BY DEF SideRow, Merged
<1>3. po \in RowCells(N) /\ pt \in RowCells(N)
  BY <1>1, <1>2 DEF RowCells
<1>4. \A r \in 1..N : /\ CellOf(po[r], ids[r]) /\ FineCell(po[r])
                      /\ CellOf(pt[r], ids[r]) /\ FineCell(pt[r])
  BY <1>2
<1>5. \A r \in 1..N : po[r] = SideRow(clash, o, f, o, t, r) /\ pt[r] = SideRow(clash, t, f, o, t, r)
  OBVIOUS
<1>6. \A r \in 1..N : /\ r \in clash => o[r] # t[r]
                      /\ r \notin clash /\ f[r] # t[r] => o[r] \in {f[r], t[r]}
  BY ClashFacts
<1>7. Resolved(MergeRows(f, o, t, diff3), op) = IF clash # {} THEN ResolveConflict(file, op) ELSE {file}
  BY DEF Resolved, MergeRows
<1> HIDE DEF clash, file, po, pt
<1>8. PICK jo : JoinedUp(jo, N, po) /\ Makes(jo[N], N, po) /\ jo[N] \in Seq(FineLines)
  BY <1>3, <1>4, JoinedParts
<1>9. PICK jt : JoinedUp(jt, N, pt) /\ Makes(jt[N], N, pt) /\ jt[N] \in Seq(FineLines)
  BY <1>3, <1>4, JoinedParts
<1> DEFINE a == jo[N]
           b == jt[N]
<1>10. \A i \in DOMAIN a : \E r \in 1..N : <<a[i]>> \in {o[r], t[r]}
  BY <1>2, <1>8 DEF Makes
<1>11. \A i \in DOMAIN b : \E r \in 1..N : <<b[i]>> \in {o[r], t[r]}
  BY <1>2, <1>9 DEF Makes
<1>12. CASE clash = {}
  <2>1. \A r \in 1..N : po[r] = Merged(f[r], o[r], t[r])
    BY <1>5, <1>12 DEF SideRow
  <2>2. Written(f, o, t, {}, diff3) = jo[N]
    BY <1>8, <2>1, WrittenPlain
  <2>3. z = a
    BY <1>7, <1>12, <2>2 DEF file
  <2>4. ButForOwn(z, a)
    <3>1. ButForOwn(a, a)
      BY <1>8 DEF ButForOwn
    <3> QED  BY <2>3, <3>1
  <2>5. Rowwise(po, ids, N, f, o, t)
    BY <1>2, <1>6, <1>12, <2>1 DEF Rowwise, RowLaw
  <2> QED  BY <1>8, <1>10, <2>3, <2>4, <2>5
<1>13. CASE clash # {}
  <2>1. z \in ResolveConflict(file, op)
    BY <1>7, <1>13
  <2>2. SplitConflict(file).ours = a /\ SplitConflict(file).theirs = b
    <3>1. LET split == SplitConflict(Written(f, o, t, clash, diff3)) IN
          split.state = "common" /\ split.ours = jo[N] /\ split.theirs = jt[N]
      BY <1>5, <1>8, <1>9, SplitsAsWritten
    <3> QED  BY <3>1 DEF file
  <2>3. z \in MergeSides(a, b, op)
    BY <2>1, <2>2 DEF ResolveConflict
  <2>4. FromSides(z, a, b, op)
    BY <1>8, <1>9, <2>3, SidesMerged
  <2>5. \A r \in 1..N : ids[r] \notin OwnKeys => po[r] = pt[r]
    <3>1. Makes(a, N, po) /\ Makes(b, N, pt)
      BY <1>8, <1>9
    <3>2. \A r \in 1..N : CellOf(po[r], ids[r]) /\ CellOf(pt[r], ids[r])
      BY <1>4
    <3> HIDE DEF a, b
    <3> QED  BY <2>4, <3>1, <3>2, SidesAgree
  <2>6. ASSUME NEW r \in 1..N, ids[r] \notin OwnKeys  PROVE RowLaw(f[r], o[r], t[r], po[r])
    <3>1. po[r] = pt[r]
      BY <2>5, <2>6
    <3>2. r \notin clash
      BY <1>5, <1>6, <3>1 DEF SideRow
    <3> QED  BY <1>5, <1>6, <3>2 DEF SideRow, RowLaw
  <2>7. Rowwise(po, ids, N, f, o, t)
    BY <1>2, <2>6 DEF Rowwise
  <2>8. /\ ButForOwn(z, a)
        /\ \A i \in DOMAIN z : (\E k \in DOMAIN a : z[i] = a[k]) \/ (\E k \in DOMAIN b : z[i] = b[k])
    BY <1>8, <1>9, <2>4, FromSidesFacts
  <2>9. \A i \in DOMAIN z : \E r \in 1..N : <<z[i]>> \in {o[r], t[r]}
    <3> TAKE i \in DOMAIN z
    <3> HIDE DEF a, b
    <3>1. CASE \E k \in DOMAIN a : z[i] = a[k]
      BY <1>10, <3>1
    <3>2. CASE \E k \in DOMAIN b : z[i] = b[k]
      BY <1>11, <3>2
    <3> QED  BY <2>8, <3>1, <3>2
  <2> QED  BY <1>8, <2>7, <2>8, <2>9
<1> QED  BY <1>12, <1>13

-----------------------------------------------------------------------------
(* A merge of three versions of a note.                                    *)

\* What can have become of a line: of what users write only the tag is new and
\* only b1 is deleted, and the lines of a block stay.
Grew(id, f, t) ==
  /\ id \notin BlockIds \cup {"tag"} /\ f = <<>> => t = <<>>
  /\ id # "b1" /\ f # <<>> => t # <<>>
  /\ id \in BlockIds /\ f # <<>> => t = f
Follows(f, t) == \A id : id \notin OwnKeys => Grew(id, At(f, id), At(t, id))

LEMMA RegularCells ==
  ASSUME NEW note, Regular(note)
  PROVE  /\ note \in Cells /\ Unique(note) /\ Ids(note) \in Seq(Words) /\ Len(Ids(note)) = Len(note)
         /\ DOMAIN note = 1..Len(note) /\ DOMAIN Ids(note) = DOMAIN note
         /\ \A i \in DOMAIN note : note[i] \in FineLines /\ Ids(note)[i] = note[i].id
         /\ Distinct(Ids(note))
         /\ \A id : Has(Ids(note), id) <=> At(note, id) # <<>>
<1>1. note \in Seq(FineLines) /\ Unique(note)
  BY DEF Regular
<1>2. FineLines \subseteq NoteLines /\ \A l \in FineLines : l.id \in Words
  BY DEF FineLines, NoteLines
<1>3. note \in Cells
  BY <1>1, <1>2 DEF Cells
<1>4. /\ DOMAIN note = 1..Len(note) /\ Len(note) \in Nat
      /\ \A i \in DOMAIN note : note[i] \in FineLines
  BY <1>1
<1>5. DOMAIN Ids(note) = DOMAIN note /\ \A i \in DOMAIN note : Ids(note)[i] = note[i].id
  BY DEF Ids
<1>6. Ids(note) \in Seq(Words) /\ Len(Ids(note)) = Len(note)
  <2>1. Ids(note) \in [1..Len(note) -> Words]
    BY <1>2, <1>4 DEF Ids
  <2>2. Ids(note) \in Seq(Words)
    BY <1>4, <2>1, SeqDef
  <2> QED  BY <1>4, <2>1, <2>2
<1>7. Distinct(Ids(note))
  BY <1>1, <1>5 DEF Distinct, Unique
<1>8. ASSUME NEW id  PROVE Has(Ids(note), id) <=> At(note, id) # <<>>
  <2>1. At(note, id) = <<>> <=> \A i \in DOMAIN note : note[i].id # id
    BY <1>3, AtFacts
  <2> QED  BY <1>5, <2>1 DEF Has
<1> QED  BY <1>1, <1>3, <1>4, <1>5, <1>6, <1>7, <1>8

\* Whether a note has a block does not depend on where it is looked for.
LEMMA RegularHead ==
  ASSUME NEW note, Regular(note)
  PROVE  /\ At(note, "open") # <<>> => note # <<>> /\ note[1].id = "open"
         /\ At(note, "open") = <<>> =>
              \A id : id \in OwnKeys \cup BlockIds \cup {"tag"} => At(note, id) = <<>>
<1>1. /\ note \in Cells
      /\ Has(Ids(note), "open") <=> At(note, "open") # <<>>
  BY RegularCells
<1>2. CASE At(note, "open") # <<>>
  <2>1. note[1].id = "open"
    BY <1>1, <1>2 DEF Regular, Headed
  <2>2. note # <<>>
    BY <1>1, <1>2, AtFacts
  <2> QED  BY <1>2, <2>1, <2>2
<1>3. CASE At(note, "open") = <<>>
  <2>1. \A i \in DOMAIN note : note[i].id \notin OwnKeys \cup BlockIds \cup {"tag"}
    BY <1>1, <1>3 DEF Regular, Headed
  <2>2. \A id : id \in OwnKeys \cup BlockIds \cup {"tag"} => At(note, id) = <<>>
    BY <1>1, <2>1, AtFacts
  <2> QED  BY <1>3, <2>2
<1> QED  BY <1>2, <1>3

\* The rows of a merge: every id once, and "open" first.
MergeIds(f, o, t) == Weave(Weave(Ids(f), Ids(o)), Ids(t))

LEMMA WeaveHas ==
  ASSUME NEW s \in Seq(Words), NEW t \in Seq(Words)
  PROVE  /\ Weave(s, t) \in Seq(Words)
         /\ \A x : Has(Weave(s, t), x) <=> Has(s, x) \/ Has(t, x)
         /\ Distinct(s) => Distinct(Weave(s, t))
         /\ (\A x : Has(t, x) => Has(s, x)) => Weave(s, t) = s
         /\ t # <<>> => Weave(s, t)[1] = IF Has(s, t[1]) THEN s[1] ELSE t[1]
<1>1. Weaves(Weave(s, t), s, t, Len(t)) /\ DOMAIN t = 1..Len(t)
  BY WeaveFacts
<1>2. \A x : Has(t, x) <=> \E k \in 1..Len(t) : t[k] = x
  BY <1>1 DEF Has
<1>3. t # <<>> => Len(t) >= 1
  OBVIOUS
<1> QED  BY <1>1, <1>2, <1>3 DEF Weaves

LEMMA MergeIdsFacts ==
  ASSUME NEW f, NEW o, NEW t, Regular(f), Regular(o), Regular(t), Follows(f, o), Follows(f, t)
  PROVE  /\ MergeIds(f, o, t) \in Seq(Words) /\ Distinct(MergeIds(f, o, t))
         /\ \A id : Has(MergeIds(f, o, t), id) <=>
                      At(f, id) # <<>> \/ At(o, id) # <<>> \/ At(t, id) # <<>>
         /\ Has(MergeIds(f, o, t), "open") => MergeIds(f, o, t)[1] = "open"
<1> DEFINE F == Ids(f)
           O == Ids(o)
           T == Ids(t)
           V == Weave(F, O)
           W == Weave(V, T)
<1>1. /\ F \in Seq(Words) /\ Distinct(F)
      /\ \A id : Has(F, id) <=> At(f, id) # <<>>
  BY RegularCells
<1>2. O \in Seq(Words) /\ \A id : Has(O, id) <=> At(o, id) # <<>>
  BY RegularCells
<1>3. T \in Seq(Words) /\ \A id : Has(T, id) <=> At(t, id) # <<>>
  BY RegularCells
<1>4. Has(F, "open") => F # <<>> /\ F[1] = "open"
  <2>1. Has(F, "open") => f # <<>> /\ f[1].id = "open" /\ f \in Cells
    BY <1>1, RegularHead, RegularCells
  <2> QED  BY <2>1 DEF Ids, Cells, Has
<1>5. Has(O, "open") => O # <<>> /\ O[1] = "open"
  <2>1. Has(O, "open") => o # <<>> /\ o[1].id = "open" /\ o \in Cells
    BY <1>2, RegularHead, RegularCells
  <2> QED  BY <2>1 DEF Ids, Cells, Has
<1>6. Has(T, "open") => T # <<>> /\ T[1] = "open"
  <2>1. Has(T, "open") => t # <<>> /\ t[1].id = "open" /\ t \in Cells
    BY <1>3, RegularHead, RegularCells
  <2> QED  BY <2>1 DEF Ids, Cells, Has
<1>7. Has(F, "open") => Has(O, "open") /\ Has(T, "open")
  <2>1. "open" \notin OwnKeys /\ "open" # "b1"
    BY DEF OwnKeys
  <2> QED  BY <1>1, <1>2, <1>3, <2>1 DEF Follows, Grew
<1>8. ~Has(O, "open") => \A x : Has(O, x) => Has(F, x)
  <2> SUFFICES ASSUME ~Has(O, "open"), NEW x, Has(O, x)  PROVE Has(F, x)
    OBVIOUS
  <2>1. x \notin OwnKeys \cup BlockIds \cup {"tag"}
    BY <1>2, RegularHead
  <2> QED  BY <1>1, <1>2, <2>1 DEF Follows, Grew
<1>9. ~Has(T, "open") => \A x : Has(T, x) => Has(F, x)
  <2> SUFFICES ASSUME ~Has(T, "open"), NEW x, Has(T, x)  PROVE Has(F, x)
    OBVIOUS
  <2>1. x \notin OwnKeys \cup BlockIds \cup {"tag"}
    BY <1>3, RegularHead
  <2> QED  BY <1>1, <1>3, <2>1 DEF Follows, Grew
<1> HIDE DEF F, O, T
<1>10. /\ V \in Seq(Words) /\ (\A x : Has(V, x) <=> Has(F, x) \/ Has(O, x)) /\ Distinct(V)
       /\ (\A x : Has(O, x) => Has(F, x)) => V = F
       /\ O # <<>> => V[1] = IF Has(F, O[1]) THEN F[1] ELSE O[1]
  BY <1>1, <1>2, WeaveHas
<1> HIDE DEF V
<1>11. /\ W \in Seq(Words) /\ (\A x : Has(W, x) <=> Has(V, x) \/ Has(T, x)) /\ Distinct(W)
       /\ (\A x : Has(T, x) => Has(V, x)) => W = V
       /\ T # <<>> => W[1] = IF Has(V, T[1]) THEN V[1] ELSE T[1]
  BY <1>3, <1>10, WeaveHas
<1> HIDE DEF W
<1>12. Has(V, "open") => V[1] = "open"
  BY <1>4, <1>5, <1>7, <1>8, <1>10
<1>13. Has(W, "open") => W[1] = "open"
  BY <1>6, <1>7, <1>9, <1>10, <1>11, <1>12
<1>14. MergeIds(f, o, t) = W
  BY DEF MergeIds, F, O, T, V, W
<1> QED  BY <1>1, <1>2, <1>3, <1>10, <1>11, <1>13, <1>14

\* What a merge that ends well makes of a line.
Law(f, o, t, z) == IF f = t THEN z = o ELSE z = t /\ o \in {f, t}

LEMMA RowsFacts ==
  ASSUME NEW note, Regular(note), NEW ids \in Seq(Words)
  PROVE  /\ Rows(note, ids) \in RowCells(Len(ids))
         /\ \A r \in 1..Len(ids) : /\ Rows(note, ids)[r] = At(note, ids[r])
                                   /\ CellOf(At(note, ids[r]), ids[r]) /\ FineCell(At(note, ids[r]))
<1>1. /\ note \in Cells /\ DOMAIN note = 1..Len(note)
      /\ \A i \in DOMAIN note : note[i] \in FineLines
  BY RegularCells
<1>2. DOMAIN ids = 1..Len(ids)
  OBVIOUS
<1>3. ASSUME NEW id  PROVE CellOf(At(note, id), id) /\ FineCell(At(note, id)) /\ At(note, id) \in Cells
  <2>1. CellOf(At(note, id), id)
    BY <1>1, AtFacts
  <2>2. FineCell(At(note, id))
    BY <1>1, AtFacts DEF FineCell
  <2>3. \A l \in NoteLines : <<l>> \in Cells
    BY DEF Cells
  <2>4. <<>> \in Cells
    BY DEF Cells
  <2> QED  BY <2>1, <2>2, <2>3, <2>4 DEF CellOf
<1>4. Rows(note, ids) = [r \in 1..Len(ids) |-> At(note, ids[r])]
  BY <1>2 DEF Rows
<1> QED  BY <1>3, <1>4 DEF RowCells

LEMMA ButForOwnFacts ==
  ASSUME NEW z, NEW a \in Cells, Unique(a), ButForOwn(z, a)
  PROVE  z \in Cells /\ Unique(z) /\ \A id : id \notin OwnKeys => At(z, id) = At(a, id)
<1>1. z \in Cells
  <2>1. FineLines \subseteq NoteLines
    BY DEF FineLines
  <2> QED  BY <2>1 DEF ButForOwn, Cells
<1>2. DOMAIN z = DOMAIN a
  BY <1>1 DEF ButForOwn, Cells
<1>3. \A i \in DOMAIN a : z[i].id \notin OwnKeys \/ a[i].id \notin OwnKeys => z[i] = a[i]
  BY DEF ButForOwn
<1>4. Unique(z)
  BY <1>2, <1>3 DEF Unique
<1>5. ASSUME NEW id, id \notin OwnKeys  PROVE At(z, id) = At(a, id)
  <2>1. \A i \in DOMAIN z : z[i].id = id => \E k \in DOMAIN a : a[k] = z[i]
    BY <1>2, <1>3, <1>5
  <2>2. \A k \in DOMAIN a : a[k].id = id => \E i \in DOMAIN z : a[k].id = z[i].id
    BY <1>2, <1>3, <1>5
  <2> QED  BY <1>1, <1>4, <1>5, <2>1, <2>2, AtSame
<1> QED  BY <1>1, <1>4, <1>5

\* A merge that ends well, with or without the resolver, takes every line
\* but created and modified from the side that changed it, and makes up none
\* (conflict.go ResolveConflict; conflict.go resolveTimestamps).
THEOREM MergeLaw ==
  ASSUME NEW f, NEW o, NEW t, Regular(f), Regular(o), Regular(t), Follows(f, o), Follows(f, t),
         NEW diff3 \in BOOLEAN, NEW op, NEW z \in Resolved(Merge(f, o, t, diff3), op)
  PROVE  /\ Regular(z)
         /\ \A i \in DOMAIN z : (\E k \in DOMAIN o : z[i] = o[k]) \/ (\E k \in DOMAIN t : z[i] = t[k])
         /\ \A id : id \notin OwnKeys => Law(At(f, id), At(o, id), At(t, id), At(z, id))
<1> DEFINE W == MergeIds(f, o, t)
           N == Len(W)
           F == Rows(f, W)
           O == Rows(o, W)
           T == Rows(t, W)
<1>1. /\ W \in Seq(Words) /\ Distinct(W)
      /\ \A id : Has(W, id) <=> At(f, id) # <<>> \/ At(o, id) # <<>> \/ At(t, id) # <<>>
      /\ Has(W, "open") => W[1] = "open"
  BY MergeIdsFacts
<1>2. z \in Resolved(MergeRows(F, O, T, diff3), op)
  BY DEF Merge, MergeIds
<1> HIDE DEF W
<1>3. N \in Nat /\ DOMAIN W = 1..N
  BY <1>1
<1>4. F \in RowCells(N) /\ \A r \in 1..N : F[r] = At(f, W[r])
  BY <1>1, RowsFacts
<1>5. O \in RowCells(N) /\ \A r \in 1..N : /\ O[r] = At(o, W[r])
                                           /\ CellOf(O[r], W[r]) /\ FineCell(O[r])
  BY <1>1, RowsFacts
<1>6. T \in RowCells(N) /\ \A r \in 1..N : /\ T[r] = At(t, W[r])
                                           /\ CellOf(T[r], W[r]) /\ FineCell(T[r])
  BY <1>1, RowsFacts
<1>7. IdRows(W, N)
  BY <1>1, <1>3 DEF IdRows, Distinct
<1> HIDE DEF N, F, O, T
<1>8. PICK a, parts : /\ Makes(a, N, parts) /\ Rowwise(parts, W, N, F, O, T) /\ ButForOwn(z, a)
                      /\ \A i \in DOMAIN z : \E r \in 1..N : <<z[i]>> \in {O[r], T[r]}
  <2>1. F \in RowCells(N) /\ O \in RowCells(N) /\ T \in RowCells(N)
    BY <1>4, <1>5, <1>6
  <2>2. \A r \in 1..N : /\ CellOf(O[r], W[r]) /\ FineCell(O[r])
                        /\ CellOf(T[r], W[r]) /\ FineCell(T[r])
    BY <1>5, <1>6
  <2> QED  BY <1>2, <1>3, <1>7, <2>1, <2>2, MergeParts
<1>9. /\ z \in Cells /\ Unique(z) /\ z \in Seq(FineLines)
      /\ \A id : id \notin OwnKeys => At(z, id) = At(a, id)
  <2>1. a \in Cells /\ Unique(a)
    BY <1>8 DEF Makes
  <2> QED  BY <1>8, <2>1, ButForOwnFacts DEF ButForOwn
<1>10. \A r \in 1..N : CellOf(parts[r], W[r])
  BY <1>5, <1>6, <1>8 DEF Rowwise
<1>11. /\ \A r \in 1..N : W[r] \notin OwnKeys => At(a, W[r]) = parts[r]
       /\ \A id : id \notin OwnKeys /\ (\A r \in 1..N : W[r] # id) => At(a, id) = <<>>
  <2>1. Makes(a, N, parts)
    BY <1>8
  <2>2. \A r, s \in 1..N : W[r] = W[s] /\ W[r] \notin OwnKeys => r = s
    BY <1>7 DEF IdRows
  <2> QED  BY <1>3, <1>10, <2>1, <2>2, AtMade
<1>12. ASSUME NEW id, id \notin OwnKeys  PROVE Law(At(f, id), At(o, id), At(t, id), At(z, id))
  <2>1. CASE \E r \in 1..N : W[r] = id
    <3>1. PICK r \in 1..N : W[r] = id
      BY <2>1
    <3>2. RowLaw(F[r], O[r], T[r], parts[r])
      BY <1>8, <1>12, <3>1 DEF Rowwise
    <3>3. At(z, id) = parts[r]
      BY <1>9, <1>11, <1>12, <3>1
    <3>4. F[r] = At(f, id) /\ O[r] = At(o, id) /\ T[r] = At(t, id)
      BY <1>4, <1>5, <1>6, <3>1
    <3> QED  BY <3>2, <3>3, <3>4 DEF RowLaw, Merged, Law
  <2>2. CASE \A r \in 1..N : W[r] # id
    <3>1. ~Has(W, id)
      BY <1>3, <2>2 DEF Has
    <3>2. At(f, id) = <<>> /\ At(o, id) = <<>> /\ At(t, id) = <<>>
      BY <1>1, <3>1
    <3>3. At(z, id) = <<>>
      BY <1>9, <1>11, <1>12, <2>2
    <3> QED  BY <3>2, <3>3 DEF Law
  <2> QED  BY <2>1, <2>2
<1>13. ASSUME NEW i \in DOMAIN z
       PROVE  (\E k \in DOMAIN o : z[i] = o[k]) \/ (\E k \in DOMAIN t : z[i] = t[k])
  <2>1. PICK r \in 1..N : <<z[i]>> \in {O[r], T[r]}
    BY <1>8
  <2>2. <<z[i]>> = At(o, W[r]) \/ <<z[i]>> = At(t, W[r])
    BY <1>5, <1>6, <2>1
  <2>3. o \in Cells /\ t \in Cells
    BY RegularCells
  <2> QED  BY <2>2, <2>3, AtFacts
<1>14. Headed(z)
  <2>1. Has(Ids(z), "open") <=> \E i \in DOMAIN z : z[i].id = "open"
    BY DEF Has, Ids
  <2>2. At(z, "open") # <<>> <=> Has(Ids(z), "open")
    BY <1>9, <2>1, AtFacts
  <2>3. "open" \notin OwnKeys
    BY DEF OwnKeys
  <2>4. CASE At(z, "open") # <<>>
    <3>1. At(f, "open") # <<>> \/ At(o, "open") # <<>> \/ At(t, "open") # <<>>
      BY <1>12, <2>3, <2>4 DEF Law
    <3>2. Has(W, "open") /\ W[1] = "open"
      BY <1>1, <3>1
    <3>3. 1 \in 1..N
      BY <1>3, <3>2 DEF Has
    <3>4. At(z, "open") = parts[1]
      BY <1>9, <1>11, <2>3, <3>2, <3>3
    <3>5. parts[1] # <<>> /\ N >= 1
      BY <1>3, <2>4, <3>3, <3>4
    <3>6. a # <<>> /\ parts[1] = <<a[1]>>
      BY <1>8, <3>5 DEF Makes
    <3>7. z[1] = a[1]
      BY <1>8, <3>6 DEF ButForOwn
    <3>8. \E k \in DOMAIN z : a[1] = z[k] /\ a[1].id = "open"
      BY <1>9, <3>4, <3>6, AtFacts
    <3> QED  BY <2>2, <2>4, <3>7, <3>8 DEF Headed
  <2>5. CASE At(z, "open") = <<>>
    <3>1. At(o, "open") = <<>> /\ At(t, "open") = <<>>
      <4>1. Law(At(f, "open"), At(o, "open"), At(t, "open"), <<>>)
        BY <1>12, <2>3, <2>5
      <4>2. Grew("open", At(f, "open"), At(o, "open")) /\ Grew("open", At(f, "open"), At(t, "open"))
        BY <2>3 DEF Follows
      <4> QED  BY <4>1, <4>2 DEF Law, Grew
    <3>2. /\ \A k \in DOMAIN o : o[k].id \notin OwnKeys \cup BlockIds \cup {"tag"}
          /\ \A k \in DOMAIN t : t[k].id \notin OwnKeys \cup BlockIds \cup {"tag"}
      <4>1. ~Has(Ids(o), "open") /\ ~Has(Ids(t), "open")
        BY <3>1, RegularCells
      <4> QED  BY <4>1 DEF Regular, Headed
    <3>3. \A i \in DOMAIN z : z[i].id \notin OwnKeys \cup BlockIds \cup {"tag"}
      BY <1>13, <3>2
    <3> QED  BY <2>2, <2>5, <3>3 DEF Headed
  <2> QED  BY <2>4, <2>5
<1>15. Regular(z)
  BY <1>9, <1>14 DEF Regular
<1> QED  BY <1>12, <1>13, <1>15

-----------------------------------------------------------------------------
(* The lines of notes that are put together.                               *)

\* No line of one is a line of the other, but for created and modified.
Apart(s, t) == \A l, m : Has(s, l) /\ Has(t, m) /\ l.id = m.id => l.id \in OwnKeys

LEMMA ConcatFacts ==
  ASSUME NEW s \in Cells, NEW t \in Cells
  PROVE  /\ s \o t \in Cells
         /\ \A l : Has(s \o t, l) <=> Has(s, l) \/ Has(t, l)
         /\ Unique(s \o t) <=> Unique(s) /\ Unique(t) /\ Apart(s, t)
<1> DEFINE u == s \o t
           n == Len(s)
           m == Len(t)
<1>1. /\ u \in Cells /\ DOMAIN u = 1..(n + m)
      /\ DOMAIN s = 1..n /\ DOMAIN t = 1..m /\ n \in Nat /\ m \in Nat
      /\ \A k \in 1..n : u[k] = s[k]
      /\ \A k \in (n + 1)..(n + m) : u[k] = t[k - n]
  BY DEF Cells
<1> HIDE DEF u, n, m
<1>2. \A k \in 1..m : k + n \in DOMAIN u /\ u[k + n] = t[k]
  <2> TAKE k \in 1..m
  <2>1. k + n \in (n + 1)..(n + m) /\ (k + n) - n = k
    BY <1>1
  <2> QED  BY <1>1, <2>1
<1>3. \A k \in 1..n : k \in DOMAIN u
  BY <1>1
<1>4. \A k \in DOMAIN u : k \in 1..n \/ (k - n \in 1..m /\ u[k] = t[k - n] /\ k \notin 1..n)
  BY <1>1
<1>5. \A l : Has(u, l) <=> Has(s, l) \/ Has(t, l)
  BY <1>1, <1>2, <1>3, <1>4 DEF Has
<1>6. ASSUME Unique(u)  PROVE Unique(s) /\ Unique(t) /\ Apart(s, t)
  <2>1. Unique(s)
    BY <1>1, <1>3, <1>6 DEF Unique
  <2>2. Unique(t)
    <3> SUFFICES ASSUME NEW i \in 1..m, NEW k \in 1..m, t[i].id = t[k].id, t[i].id \notin OwnKeys
                 PROVE  i = k
      BY <1>1 DEF Unique
    <3>1. i + n = k + n
      BY <1>2, <1>6 DEF Unique
    <3> QED  BY <1>1, <3>1
  <2>3. ASSUME NEW l, NEW x, Has(s, l), Has(t, x), l.id = x.id, l.id \notin OwnKeys  PROVE FALSE
    <3>1. PICK i \in 1..n : s[i] = l
      BY <1>1, <2>3 DEF Has
    <3>2. PICK k \in 1..m : t[k] = x
      BY <1>1, <2>3 DEF Has
    <3>3. u[i] = l /\ u[k + n] = x /\ i \in DOMAIN u /\ k + n \in DOMAIN u
      BY <1>1, <1>2, <1>3, <3>1, <3>2
    <3>4. i = k + n
      BY <1>6, <2>3, <3>3 DEF Unique
    <3> QED  BY <1>1, <3>4
  <2> QED  BY <2>1, <2>2, <2>3 DEF Apart
<1>7. ASSUME Unique(s), Unique(t), Apart(s, t)  PROVE Unique(u)
  <2> SUFFICES ASSUME NEW i \in DOMAIN u, NEW k \in DOMAIN u, u[i].id = u[k].id, u[i].id \notin OwnKeys
               PROVE  i = k
    BY DEF Unique
  <2>1. CASE i \in 1..n /\ k \in 1..n
    BY <1>1, <1>7, <2>1 DEF Unique
  <2>2. CASE i \in 1..n /\ k \notin 1..n
    <3>1. Has(s, u[i]) /\ Has(t, u[k])
      BY <1>1, <1>4, <2>2 DEF Has
    <3> QED  BY <1>7, <3>1 DEF Apart
  <2>3. CASE i \notin 1..n /\ k \in 1..n
    <3>1. Has(s, u[k]) /\ Has(t, u[i])
      BY <1>1, <1>4, <2>3 DEF Has
    <3> QED  BY <1>7, <3>1 DEF Apart
  <2>4. CASE i \notin 1..n /\ k \notin 1..n
    <3>1. i - n = k - n
      BY <1>1, <1>4, <1>7, <2>4 DEF Unique
    <3> QED  BY <1>1, <3>1
  <2> QED  BY <2>1, <2>2, <2>3, <2>4
<1> QED  BY <1>1, <1>5, <1>6, <1>7 DEF u

LEMMA OneFacts ==
  ASSUME NEW l \in NoteLines
  PROVE  <<l>> \in Cells /\ Unique(<<l>>) /\ \A x : Has(<<l>>, x) <=> x = l
  BY DEF Cells, Unique, Has

LEMMA CutFacts ==
  ASSUME NEW s \in Cells, NEW i \in 1..(Len(s) + 1)
  PROVE  /\ SubSeq(s, 1, i - 1) \in Cells /\ SubSeq(s, i, Len(s)) \in Cells
         /\ s = SubSeq(s, 1, i - 1) \o SubSeq(s, i, Len(s))
<1> DEFINE a == SubSeq(s, 1, i - 1)
           b == SubSeq(s, i, Len(s))
           d == a \o b
<1>1. a \in Cells /\ Len(a) = i - 1 /\ \A k \in 1..(i - 1) : a[k] = s[k]
  BY DEF Cells
<1>2. b \in Cells /\ Len(b) = Len(s) - i + 1 /\ \A k \in 1..(Len(s) - i + 1) : b[k] = s[i + k - 1]
  BY DEF Cells
<1> HIDE DEF a, b
<1>3. d \in Cells /\ Len(d) = Len(a) + Len(b) /\ (\A k \in 1..Len(a) : d[k] = a[k])
      /\ \A k \in (Len(a) + 1)..(Len(a) + Len(b)) : d[k] = b[k - Len(a)]
  <2>1. \A x, y \in Cells : /\ x \o y \in Cells /\ Len(x \o y) = Len(x) + Len(y)
                            /\ \A k \in 1..Len(x) : (x \o y)[k] = x[k]
                            /\ \A k \in (Len(x) + 1)..(Len(x) + Len(y)) : (x \o y)[k] = y[k - Len(x)]
    BY DEF Cells
  <2>2. a \in Cells /\ b \in Cells
    BY <1>1, <1>2
  <2> QED  BY <2>1, <2>2, Zenon
<1> HIDE DEF d
<1>4. Len(d) = Len(s) /\ Len(s) \in Nat
  BY <1>1, <1>2, <1>3 DEF Cells
<1>5. ASSUME NEW k \in 1..Len(s)  PROVE d[k] = s[k]
  <2>1. CASE k <= i - 1
    BY <1>1, <1>3, <1>4, <2>1
  <2>2. CASE k > i - 1
    <3>1. d[k] = b[k - (i - 1)]
      BY <1>1, <1>2, <1>3, <1>4, <2>2
    <3>2. k - (i - 1) \in 1..(Len(s) - i + 1) /\ i + (k - (i - 1)) - 1 = k
      BY <1>4, <2>2
    <3> QED  BY <1>2, <3>1, <3>2
  <2> QED  BY <1>4, <2>1, <2>2
<1>6. d = s
  BY <1>3, <1>4, <1>5 DEF Cells
<1> QED  BY <1>1, <1>2, <1>6 DEF a, b, d

LEMMA AtByLines ==
  ASSUME NEW x \in Cells, Unique(x), NEW y \in Cells, Unique(y), NEW id, id \notin OwnKeys,
         \A l : l.id = id => (Has(x, l) <=> Has(y, l))
  PROVE  At(x, id) = At(y, id)
<1>1. \A i \in DOMAIN x : x[i].id = id => \E k \in DOMAIN y : y[k] = x[i]
  BY DEF Has
<1>2. \A k \in DOMAIN y : y[k].id = id => \E i \in DOMAIN x : y[k].id = x[i].id
  BY DEF Has
<1> QED  BY <1>1, <1>2, AtSame

-----------------------------------------------------------------------------
(* The stamp.                                                              *)

\* The same lines but for created and modified.
Keeps(x, y) ==
  /\ y \in Seq(FineLines)
  /\ Unique(x) => Unique(y)
  /\ \A l : l.id \notin OwnKeys => (Has(x, l) <=> Has(y, l))

LEMMA FineCells ==
  /\ FineLines \subseteq NoteLines /\ Seq(FineLines) \subseteq Cells
  /\ \A s, t \in Seq(FineLines) : s \o t \in Seq(FineLines)
  /\ \A l \in FineLines : <<l>> \in Seq(FineLines)
<1>1. FineLines \subseteq NoteLines
  BY DEF FineLines
<1>2. \A s \in Seq(FineLines) : s \in Seq(NoteLines)
  BY <1>1, SeqMonotonic
<1> QED  BY <1>1, <1>2 DEF Cells

\* Written on its own line, the value of such a key.
LEMMA OwnLine ==
  ASSUME NEW key \in OwnKeys, NEW t \in Int
  PROVE  /\ Stamp(key, t) \in FineLines /\ Stamp(key, t).id \in OwnKeys
         /\ <<Stamp(key, t)>> \in Seq(FineLines)
<1>1. key \in Words
  BY DEF OwnKeys, Words
<1>2. Stamp(key, t) \in NoteLines
  BY <1>1, LineType DEF Stamp, Kinds
<1>3. key \notin {"open", "close"}
  BY DEF OwnKeys
<1>4. Stamp(key, t) \in FineLines /\ Stamp(key, t).id \in OwnKeys
  BY <1>2, <1>3 DEF FineLines, Stamp, Line
<1> QED  BY <1>4, FineCells

LEMMA KeepsTwice ==
  ASSUME NEW x, NEW y, NEW z, Keeps(x, y), Keeps(y, z)
  PROVE  Keeps(x, z)
  BY DEF Keeps

LEMMA KeepsIn ==
  ASSUME NEW x \in Seq(FineLines), NEW y, Keeps(x, y), NEW u \in Seq(FineLines), NEW v \in Seq(FineLines)
  PROVE  Keeps(u \o (x \o v), u \o (y \o v))
<1>1. u \in Cells /\ v \in Cells /\ x \in Cells /\ y \in Cells /\ y \in Seq(FineLines)
  BY FineCells DEF Keeps
<1>2. x \o v \in Cells /\ y \o v \in Cells /\ y \o v \in Seq(FineLines)
  BY <1>1, FineCells, ConcatFacts
<1>3. u \o (y \o v) \in Seq(FineLines)
  BY <1>2, FineCells
<1>4. /\ \A l : Has(x \o v, l) <=> Has(x, l) \/ Has(v, l)
      /\ \A l : Has(y \o v, l) <=> Has(y, l) \/ Has(v, l)
      /\ \A l : Has(u \o (x \o v), l) <=> Has(u, l) \/ Has(x \o v, l)
      /\ \A l : Has(u \o (y \o v), l) <=> Has(u, l) \/ Has(y \o v, l)
  BY <1>1, <1>2, ConcatFacts
<1>5. \A l : l.id \notin OwnKeys => (Has(u \o (x \o v), l) <=> Has(u \o (y \o v), l))
  BY <1>4 DEF Keeps
<1>6. ASSUME Unique(u \o (x \o v))  PROVE Unique(u \o (y \o v))
  <2>1. Unique(u) /\ Unique(x \o v) /\ Apart(u, x \o v)
    BY <1>1, <1>2, <1>6, ConcatFacts
  <2>2. Unique(x) /\ Unique(v) /\ Apart(x, v)
    BY <1>1, <2>1, ConcatFacts
  <2>3. Apart(y, v)
    BY <2>2 DEF Apart, Keeps
  <2>4. Unique(y \o v)
    BY <1>1, <2>2, <2>3, ConcatFacts DEF Keeps
  <2>5. Apart(u, y \o v)
    BY <1>4, <2>1 DEF Apart, Keeps
  <2> QED  BY <1>1, <1>2, <2>1, <2>4, <2>5, ConcatFacts
<1> QED  BY <1>3, <1>5, <1>6 DEF Keeps

\* A line more, which is created or modified or has a new id.
LEMMA Inserted ==
  ASSUME NEW x \in Seq(FineLines), NEW i \in 1..(Len(x) + 1), NEW e \in FineLines,
         e.id \in OwnKeys \/ \A l : Has(x, l) => l.id # e.id
  PROVE  /\ InsertAt(x, i, e) \in Seq(FineLines)
         /\ Unique(x) => Unique(InsertAt(x, i, e))
         /\ \A l : Has(InsertAt(x, i, e), l) <=> Has(x, l) \/ l = e
<1> DEFINE a == SubSeq(x, 1, i - 1)
           b == SubSeq(x, i, Len(x))
<1>1. a \in Seq(FineLines) /\ b \in Seq(FineLines) /\ a \in Cells /\ b \in Cells
  <2>1. a \in Seq(FineLines) /\ b \in Seq(FineLines)
    OBVIOUS
  <2> QED  BY <2>1, FineCells
<1>2. x = a \o b
  BY FineCells, CutFacts
<1>3. <<e>> \in Seq(FineLines) /\ e \in NoteLines
  BY FineCells
<1>4. InsertAt(x, i, e) = (a \o <<e>>) \o b
  BY DEF InsertAt
<1> HIDE DEF a, b
<1>5. <<e>> \in Cells /\ Unique(<<e>>) /\ \A l : Has(<<e>>, l) <=> l = e
  BY <1>3, OneFacts
<1>6. /\ a \o <<e>> \in Cells
      /\ \A l : Has(a \o <<e>>, l) <=> Has(a, l) \/ Has(<<e>>, l)
      /\ Unique(a \o <<e>>) <=> Unique(a) /\ Unique(<<e>>) /\ Apart(a, <<e>>)
  BY <1>1, <1>5, ConcatFacts
<1>7. /\ \A l : Has((a \o <<e>>) \o b, l) <=> Has(a \o <<e>>, l) \/ Has(b, l)
      /\ Unique((a \o <<e>>) \o b) <=> Unique(a \o <<e>>) /\ Unique(b) /\ Apart(a \o <<e>>, b)
  BY <1>1, <1>6, ConcatFacts
<1>8. /\ \A l : Has(a \o b, l) <=> Has(a, l) \/ Has(b, l)
      /\ Unique(a \o b) <=> Unique(a) /\ Unique(b) /\ Apart(a, b)
  BY <1>1, ConcatFacts
<1>9. \/ e.id \in OwnKeys
      \/ (\A l : Has(a, l) => l.id # e.id) /\ (\A l : Has(b, l) => l.id # e.id)
  BY <1>2, <1>8
<1>10. Apart(a, <<e>>)
  BY <1>5, <1>9 DEF Apart
<1>11. Apart(a, b) => Apart(a \o <<e>>, b)
  BY <1>5, <1>6, <1>9 DEF Apart
<1>12. (a \o <<e>>) \o b \in Seq(FineLines)
  BY <1>1, <1>3, FineCells
<1>13. Unique(a \o b) => Unique((a \o <<e>>) \o b)
  BY <1>5, <1>6, <1>7, <1>8, <1>10, <1>11
<1>14. \A l : Has((a \o <<e>>) \o b, l) <=> Has(a \o b, l) \/ l = e
  BY <1>5, <1>6, <1>7, <1>8
<1> QED  BY <1>2, <1>4, <1>12, <1>13, <1>14

LEMMA KeepsInserted ==
  ASSUME NEW x \in Seq(FineLines), NEW i \in 1..(Len(x) + 1), NEW key \in OwnKeys, NEW t \in Int
  PROVE  Keeps(x, InsertAt(x, i, Stamp(key, t)))
<1> DEFINE e == Stamp(key, t)
<1>1. e \in FineLines /\ e.id \in OwnKeys
  BY OwnLine
<1> HIDE DEF e
<1>2. /\ InsertAt(x, i, e) \in Seq(FineLines)
      /\ Unique(x) => Unique(InsertAt(x, i, e))
      /\ \A l : Has(InsertAt(x, i, e), l) <=> Has(x, l) \/ l = e
  BY <1>1, Inserted
<1>3. Keeps(x, InsertAt(x, i, e))
  BY <1>1, <1>2 DEF Keeps
<1> QED  BY <1>3 DEF e

\* An own line with another value.
LEMMA KeepsSet ==
  ASSUME NEW x \in Seq(FineLines), NEW i \in DOMAIN x, x[i].id \in OwnKeys, NEW t \in Int,
         NEW z, z = [x EXCEPT ![i].val = t]
  PROVE  Keeps(x, z)
<1> DEFINE e == [x[i] EXCEPT !.val = t]
           y == [x EXCEPT ![i] = e]
<1>1. x[i] \in FineLines
  OBVIOUS
<1>2. e \in FineLines /\ e.id = x[i].id
  <2>1. x[i] \in NoteLines
    BY <1>1, FineCells
  <2>2. e \in NoteLines /\ e.id = x[i].id /\ e.kind = x[i].kind /\ e.key = x[i].key
    BY <2>1 DEF NoteLines
  <2> QED  BY <1>1, <2>2 DEF FineLines
<1>3. [x EXCEPT ![i].val = t] = y
  OBVIOUS
<1> HIDE DEF e
<1>4. y \in Seq(FineLines) /\ DOMAIN y = DOMAIN x /\ y[i] = e /\ \A k \in DOMAIN x : k # i => y[k] = x[k]
  BY <1>2
<1> HIDE DEF y
<1>5. \A k \in DOMAIN x : y[k].id = x[k].id
  BY <1>2, <1>4
<1>6. Unique(x) => Unique(y)
  BY <1>4, <1>5 DEF Unique
<1>7. \A k \in DOMAIN x : x[k].id \notin OwnKeys => y[k] = x[k]
  BY <1>4
<1>8. \A l : l.id \notin OwnKeys => (Has(x, l) <=> Has(y, l))
  BY <1>4, <1>5, <1>7 DEF Has
<1>9. Keeps(x, y)
  BY <1>4, <1>6, <1>8 DEF Keeps
<1> QED  BY <1>3, <1>9

LEMMA FindKeyFacts ==
  ASSUME NEW x \in Seq(FineLines), NEW key \in OwnKeys
  PROVE  /\ FindKey(x, key) \in 0..Len(x)
         /\ FindKey(x, key) # 0 => FindKey(x, key) \in DOMAIN x /\ x[FindKey(x, key)].id \in OwnKeys
<1> DEFINE q == InQuoted(x)
           I == {i \in DOMAIN x : /\ ~q[i - 1] /\ x[i].kind = "key"
                                  /\ ~OddQuotes(x[i]) /\ x[i].key = key}
<1>1. FindKey(x, key) = IF I = {} THEN 0 ELSE CHOOSE i \in I : \A j \in I : i <= j
  BY DEF FindKey
<1>2. I # {} => (CHOOSE i \in I : \A j \in I : i <= j) \in I
  <2>1. I \in SUBSET Nat
    OBVIOUS
  <2> HIDE DEF I
  <2> QED  BY <2>1, LeastIndex
<1>3. \A i \in I : i \in DOMAIN x /\ x[i].id \in OwnKeys
  BY DEF FineLines
<1> QED  BY <1>1, <1>2, <1>3

LEMMA StampedKeeps ==
  ASSUME NEW x \in Seq(FineLines), NEW created \in Int, NEW modified \in Int, NEW o \in OptionSet
  PROVE  Keeps(x, Stamped(x, created, modified, o))
<1> DEFINE ci == IF o.created THEN FindKey(x, "created") ELSE 0
           mi == IF o.modified THEN FindKey(x, "modified") ELSE 0
           set == SetModified(x, mi, modified)
           kept == FillCreated(set, ci, created)
           missing == o.created /\ ci = 0
           both == IF missing THEN <<Stamp("created", created)>> \o kept ELSE kept
           at == IF missing THEN 1 ELSE ci
<1>0. "created" \in OwnKeys /\ "modified" \in OwnKeys
  BY DEF OwnKeys
<1>1. /\ ci \in 0..Len(x) /\ (ci # 0 => ci \in DOMAIN x /\ x[ci].id \in OwnKeys)
      /\ mi \in 0..Len(x) /\ (mi # 0 => mi \in DOMAIN x /\ x[mi].id \in OwnKeys)
  BY <1>0, FindKeyFacts
<1>2. Stamped(x, created, modified, o) =
        IF o.modified /\ mi = 0 THEN InsertAt(both, at + 1, Stamp("modified", modified)) ELSE both
  BY DEF Stamped, InsertModified
<1> HIDE DEF ci, mi
<1>3. Keeps(x, x)
  BY DEF Keeps
<1>4. Keeps(x, set) /\ Len(set) = Len(x) /\ \A i \in DOMAIN x : set[i].id = x[i].id
  <2>1. CASE mi = 0
    BY <1>3, <2>1 DEF SetModified
  <2>2. CASE mi # 0
    <3>1. set = [x EXCEPT ![mi].val = modified]
      BY <2>2 DEF SetModified
    <3>2. mi \in DOMAIN x /\ x[mi].id \in OwnKeys
      BY <1>1, <2>2
    <3>3. Keeps(x, set)
      BY <3>1, <3>2, KeepsSet
    <3>4. \A i \in DOMAIN x : x[i] \in [id : Words, kind : Kinds, key : Words, val : Int, quote : Words]
      BY FineCells DEF NoteLines
    <3>5. Len(set) = Len(x) /\ \A i \in DOMAIN x : set[i].id = x[i].id
      BY <3>1, <3>2, <3>4
    <3> QED  BY <3>3, <3>5
  <2> QED  BY <2>1, <2>2
<1>5. set \in Seq(FineLines) /\ DOMAIN set = DOMAIN x
  <2>1. set \in Seq(FineLines)
    BY <1>4 DEF Keeps
  <2> QED  BY <1>4, <2>1
<1> HIDE DEF set
<1>6. Keeps(set, kept) /\ Len(kept) = Len(x)
  <2>1. CASE ci # 0 /\ set[ci].val = Empty
    <3>1. kept = [set EXCEPT ![ci].val = created]
      BY <2>1 DEF FillCreated
    <3>2. ci \in DOMAIN set /\ set[ci].id \in OwnKeys
      BY <1>1, <1>4, <1>5, <2>1
    <3>3. Keeps(set, kept)
      BY <1>5, <3>1, <3>2, KeepsSet
    <3>4. Len(kept) = Len(set)
      BY <1>5, <3>1
    <3> QED  BY <1>4, <3>3, <3>4
  <2>2. CASE ~(ci # 0 /\ set[ci].val = Empty)
    <3>1. kept = set
      BY <2>2 DEF FillCreated
    <3>2. Keeps(set, set)
      BY <1>5 DEF Keeps
    <3> QED  BY <1>4, <3>1, <3>2
  <2> QED  BY <2>1, <2>2
<1> HIDE DEF kept
<1>7. Keeps(x, kept) /\ kept \in Seq(FineLines)
  BY <1>4, <1>6, KeepsTwice DEF Keeps
<1>8. Keeps(x, both) /\ both \in Seq(FineLines) /\ at + 1 \in 1..(Len(both) + 1)
  <2>1. CASE missing
    <3> DEFINE y == InsertAt(kept, 1, Stamp("created", created))
    <3>1. Keeps(kept, y)
      <4>1. 1 \in 1..(Len(kept) + 1)
        BY <1>6
      <4> QED  BY <1>0, <1>7, <4>1, KeepsInserted
    <3>2. y = <<Stamp("created", created)>> \o kept
      <4>1. SubSeq(kept, 1, 1 - 1) = <<>> /\ SubSeq(kept, 1, Len(kept)) = kept
        BY <1>7
      <4>2. <<Stamp("created", created)>> \in Seq(FineLines)
        BY <1>0, OwnLine
      <4>3. <<>> \o <<Stamp("created", created)>> = <<Stamp("created", created)>>
        BY <4>2
      <4> QED  BY <4>1, <4>3 DEF InsertAt
    <3>3. both = y /\ at = 1
      BY <2>1, <3>2
    <3>4. Keeps(x, y) /\ y \in Seq(FineLines)
      BY <1>7, <3>1, KeepsTwice DEF Keeps
    <3>5. Len(y) = Len(kept) + 1
      <4>1. Stamp("created", created) \in FineLines /\ 1 \in 1..(Len(kept) + 1)
        BY <1>0, <1>6, OwnLine
      <4>2. kept \in Seq(FineLines)
        BY <1>7
      <4>3. \A e \in FineLines : Len(InsertAt(kept, 1, e)) = Len(kept) + 1
        BY <4>1, <4>2, InsertFacts
      <4> QED  BY <4>1, <4>3
    <3> HIDE DEF y, both, at
    <3> QED  BY <1>6, <3>3, <3>4, <3>5
  <2>2. CASE ~missing
    <3>1. both = kept /\ at = ci
      BY <2>2
    <3> QED  BY <1>1, <1>6, <1>7, <3>1
  <2> QED  BY <2>1, <2>2
<1> HIDE DEF both, at
<1>9. Keeps(both, InsertAt(both, at + 1, Stamp("modified", modified)))
  BY <1>0, <1>8, KeepsInserted
<1> QED  BY <1>2, <1>8, <1>9, KeepsTwice

\* The same lines, and the same first one, make a note of the same kind.
LEMMA KeepsRegular ==
  ASSUME NEW x, Regular(x), NEW z, Keeps(x, z), z # <<>>, z[1] = x[1], x[1].id = "open", x # <<>>
  PROVE  Regular(z) /\ \A id : id \notin OwnKeys => At(z, id) = At(x, id)
<1>1. x \in Cells /\ Unique(x)
  BY RegularCells
<1>2. z \in Seq(FineLines) /\ z \in Cells /\ Unique(z)
  BY <1>1, FineCells DEF Keeps
<1>3. Headed(z)
  <2>1. 1 \in DOMAIN z
    BY <1>2
  <2> QED  BY <2>1 DEF Headed, Has, Ids
<1>4. \A id : id \notin OwnKeys => At(z, id) = At(x, id)
  BY <1>1, <1>2, AtByLines DEF Keeps
<1> QED  BY <1>2, <1>3, <1>4 DEF Regular

LEMMA OpenedFirst ==
  ASSUME NEW note, Regular(note)
  PROVE  /\ Opened(note) => note # <<>> /\ note[1].id = "open"
         /\ ~Opened(note) => At(note, "open") = <<>>
<1>1. /\ note \in Cells /\ DOMAIN note = 1..Len(note)
      /\ \A i \in DOMAIN note : note[i] \in FineLines
  BY RegularCells
<1>2. note # <<>> => 1 \in DOMAIN note
  BY <1>1 DEF Cells
<1>3. note # <<>> => (note[1].kind = "fence" <=> note[1].id \in {"open", "close"})
  BY <1>1, <1>2 DEF FineLines
<1>4. At(note, "open") # <<>> => note # <<>> /\ note[1].id = "open"
  BY RegularHead
<1>5. At(note, "open") = <<>> => note = <<>> \/ note[1].id \notin {"open", "close"}
  <2>1. At(note, "open") = <<>> => At(note, "close") = <<>>
    BY RegularHead DEF BlockIds
  <2>2. At(note, "open") = <<>> => \A i \in DOMAIN note : note[i].id # "open" /\ note[i].id # "close"
    BY <1>1, <2>1, AtFacts
  <2> QED  BY <1>2, <2>2
<1> QED  BY <1>3, <1>4, <1>5 DEF Opened

LEMMA ApplyBlock ==
  ASSUME NEW note, Regular(note), Close(note) # 0, NEW y, Keeps(Inner(note), y)
  PROVE  LET z == <<note[1]>> \o y \o SubSeq(note, Close(note), Len(note)) IN
         Regular(z) /\ \A id : id \notin OwnKeys => At(z, id) = At(note, id)
<1> DEFINE c == Close(note)
           u == <<note[1]>>
           x == Inner(note)
           v == SubSeq(note, c, Len(note))
<1>1. note \in Seq(FineLines) /\ note \in Cells /\ Len(note) \in Nat
  BY RegularCells DEF Regular, Cells
<1>2. c \in 2..Len(note) /\ Opened(note)
  BY <1>1, CloseFacts
<1>3. note # <<>> /\ note[1].id = "open"
  BY <1>2, OpenedFirst
<1> HIDE DEF c
<1>4. u \in Seq(FineLines) /\ x \in Seq(FineLines) /\ v \in Seq(FineLines)
  BY <1>1, <1>2 DEF Inner, c
<1>5. note = u \o (x \o v)
  <2>1. c \in 1..(Len(note) + 1)
    BY <1>1, <1>2
  <2>2. note = SubSeq(note, 1, c - 1) \o v
    BY <1>1, <2>1, CutFacts
  <2>3. SubSeq(note, 1, c - 1) = u \o x
    <3> DEFINE p == SubSeq(note, 1, c - 1)
               r == u \o x
    <3>1. p \in Seq(FineLines) /\ Len(p) = c - 1 /\ \A k \in 1..(c - 1) : p[k] = note[k]
      BY <1>1, <1>2
    <3>2. x = SubSeq(note, 2, c - 1)
      BY DEF Inner, c
    <3>3. Len(x) = c - 2 /\ \A k \in 1..(c - 2) : x[k] = note[k + 1]
      BY <1>1, <1>2, <3>2
    <3>4. u \in Seq(FineLines) /\ Len(u) = 1 /\ u[1] = note[1]
      BY <1>4
    <3> HIDE DEF p, u, x
    <3>5. /\ r \in Seq(FineLines) /\ Len(r) = 1 + Len(x) /\ r[1] = note[1]
          /\ \A k \in 2..(1 + Len(x)) : r[k] = x[k - 1]
      <4>1. \A a, b \in Seq(FineLines) :
              /\ a \o b \in Seq(FineLines) /\ Len(a \o b) = Len(a) + Len(b)
              /\ \A k \in 1..Len(a) : (a \o b)[k] = a[k]
              /\ \A k \in (Len(a) + 1)..(Len(a) + Len(b)) : (a \o b)[k] = b[k - Len(a)]
        OBVIOUS
      <4>2. u \in Seq(FineLines) /\ x \in Seq(FineLines) /\ Len(x) \in Nat
        BY <1>4, <3>2, <3>4 DEF u, x
      <4>3. /\ r \in Seq(FineLines) /\ Len(r) = Len(u) + Len(x)
            /\ \A k \in 1..Len(u) : r[k] = u[k]
            /\ \A k \in (Len(u) + 1)..(Len(u) + Len(x)) : r[k] = x[k - Len(u)]
        BY <4>1, <4>2
      <4> HIDE DEF r
      <4> QED  BY <3>4, <4>2, <4>3
    <3> HIDE DEF r
    <3>6. Len(r) = Len(p) /\ \A k \in 1..Len(p) : r[k] = p[k]
      <4>1. Len(r) = Len(p)
        BY <1>2, <3>1, <3>3, <3>5
      <4>2. ASSUME NEW k \in 2..(c - 1)  PROVE r[k] = p[k]
        <5>1. k - 1 \in 1..(c - 2) /\ (k - 1) + 1 = k
          BY <1>2
        <5>2. r[k] = x[k - 1] /\ x[k - 1] = note[k]
          BY <1>2, <3>3, <3>5, <5>1
        <5> QED  BY <1>2, <3>1, <5>2
      <4>3. r[1] = p[1]
        BY <1>2, <3>1, <3>5
      <4> QED  BY <1>2, <3>1, <4>1, <4>2, <4>3
    <3>7. r = p
      BY <3>1, <3>5, <3>6
    <3> QED  BY <3>7 DEF p, r
  <2>4. (u \o x) \o v = u \o (x \o v)
    <3> HIDE DEF u, x, v
    <3> QED  BY <1>4, ConcatAssoc
  <2> QED  BY <2>2, <2>3, <2>4
<1>6. y \in Seq(FineLines)
  BY DEF Keeps
<1>7. Keeps(note, u \o (y \o v))
  <2> HIDE DEF u, x, v
  <2>1. Keeps(x, y)
    BY DEF x
  <2> QED  BY <1>4, <1>5, <2>1, KeepsIn
<1>8. (u \o y) \o v = u \o (y \o v)
  <2> HIDE DEF u, v
  <2> QED  BY <1>4, <1>6, ConcatAssoc
<1>9. u \o (y \o v) # <<>> /\ (u \o (y \o v))[1] = note[1]
  <2> DEFINE w == y \o v
  <2>1. w \in Seq(FineLines)
    BY <1>4, <1>6, FineCells
  <2> HIDE DEF w
  <2>2. note[1] \in FineLines
    BY <1>1, <1>2
  <2>3. u \o w # <<>> /\ (u \o w)[1] = note[1]
    BY <2>1, <2>2
  <2> QED  BY <2>3 DEF w
<1>10. Regular((u \o y) \o v) /\ \A id : id \notin OwnKeys => At((u \o y) \o v, id) = At(note, id)
  <2> HIDE DEF u, v
  <2> QED  BY <1>3, <1>7, <1>8, <1>9, KeepsRegular
<1> QED  BY <1>10 DEF c

LEMMA NewBlockFacts ==
  ASSUME NEW created \in Int, NEW modified \in Int, NEW o \in OptionSet
  PROVE  LET new == NewBlock(created, modified, o) IN
         /\ new \in Seq(FineLines) /\ Unique(new) /\ new # <<>> /\ new[1].id = "open"
         /\ \A l : Has(new, l) => l.id \in OwnKeys \cup BlockIds
<1> DEFINE a == Fence("open")
           c == IF o.created THEN <<Stamp("created", created)>> ELSE <<>>
           m == IF o.modified THEN <<Stamp("modified", modified)>> ELSE <<>>
           d == Fence("close")
           g == Text("gap")
           e == <<d, g>>
<1>1. NewBlock(created, modified, o) = <<a>> \o c \o m \o e
  BY DEF NewBlock
<1>2. /\ a \in FineLines /\ a.id = "open"
      /\ d \in FineLines /\ d.id = "close"
      /\ g \in FineLines /\ g.id = "gap"
  <2>1. "open" \in Words /\ "close" \in Words /\ "gap" \in Words /\ "" \in Words /\ 0 \in Int
    BY DEF Words
  <2>2. a \in NoteLines /\ d \in NoteLines /\ g \in NoteLines
    BY <2>1, LineType DEF Fence, Text, Kinds
  <2> QED  BY <2>2 DEF FineLines, Fence, Text, Line, OwnKeys
<1>3. "created" \in OwnKeys /\ "modified" \in OwnKeys
  BY DEF OwnKeys
<1>4. c \in Seq(FineLines) /\ \A i \in DOMAIN c : c[i].id \in OwnKeys
  <2>1. CASE o.created
    BY <1>3, <2>1, OwnLine
  <2>2. CASE ~o.created
    BY <2>2
  <2> QED  BY <2>1, <2>2
<1>5. m \in Seq(FineLines) /\ \A i \in DOMAIN m : m[i].id \in OwnKeys
  <2>1. CASE o.modified
    BY <1>3, <2>1, OwnLine
  <2>2. CASE ~o.modified
    BY <2>2
  <2> QED  BY <2>1, <2>2
<1> HIDE DEF a, c, m, d, g
<1>6. /\ <<a>> \in Seq(FineLines) /\ Unique(<<a>>) /\ \A l : Has(<<a>>, l) <=> l = a
  BY <1>2, FineCells, OneFacts
<1>7. e \in Seq(FineLines) /\ Unique(e) /\ \A l : Has(e, l) <=> l = d \/ l = g
  BY <1>2 DEF Unique, Has
<1> HIDE DEF e
<1>8. Unique(c) /\ Unique(m)
  BY <1>4, <1>5 DEF Unique
<1>9. /\ \A l : Has(c, l) => l.id \in OwnKeys
      /\ \A l : Has(m, l) => l.id \in OwnKeys
  BY <1>4, <1>5 DEF Has
<1> DEFINE p == <<a>> \o c
           q == p \o m
           w == q \o e
<1>10. /\ p \in Seq(FineLines) /\ Unique(p) /\ \A l : Has(p, l) => l.id \in OwnKeys \/ l = a
  <2>1. Apart(<<a>>, c)
    BY <1>6, <1>9 DEF Apart
  <2>2. <<a>> \in Cells /\ c \in Cells
    BY <1>4, <1>6, FineCells
  <2> QED  BY <1>4, <1>6, <1>8, <1>9, <2>1, <2>2, ConcatFacts, FineCells
<1>11. p[1] = a /\ p # <<>>
  BY <1>2, <1>4
<1> HIDE DEF p
<1>12. /\ q \in Seq(FineLines) /\ Unique(q) /\ \A l : Has(q, l) => l.id \in OwnKeys \/ l = a
  <2>1. Apart(p, m)
    BY <1>9, <1>10 DEF Apart
  <2>2. p \in Cells /\ m \in Cells
    BY <1>5, <1>10, FineCells
  <2> QED  BY <1>5, <1>8, <1>9, <1>10, <2>1, <2>2, ConcatFacts, FineCells
<1>13. q[1] = a /\ q # <<>>
  BY <1>5, <1>10, <1>11
<1> HIDE DEF q
<1>14. /\ w \in Seq(FineLines) /\ Unique(w) /\ \A l : Has(w, l) => l.id \in OwnKeys \cup BlockIds
  <2>1. Apart(q, e)
    BY <1>2, <1>7, <1>12 DEF Apart
  <2>2. q \in Cells /\ e \in Cells
    BY <1>7, <1>12, FineCells
  <2>3. w \in Seq(FineLines) /\ Unique(w) /\ \A l : Has(w, l) <=> Has(q, l) \/ Has(e, l)
    BY <1>7, <1>12, <2>1, <2>2, ConcatFacts, FineCells
  <2> QED  BY <1>2, <1>7, <1>12, <2>3 DEF BlockIds
<1>15. w[1] = a /\ w # <<>>
  BY <1>7, <1>12, <1>13
<1>16. NewBlock(created, modified, o) = w
  BY <1>1 DEF p, q, w
<1> QED  BY <1>2, <1>14, <1>15, <1>16

\* A stamp leaves every line but created and modified as it is, or adds a
\* block to a note that has none: wherever the keys are, and whatever quotes
\* are around them (frontmatter.go Apply).
THEOREM StampLaw ==
  ASSUME NEW note, Regular(note), NEW created \in Int, NEW modified \in Int, NEW o \in OptionSet
  PROVE  LET z == Apply(note, created, modified, o) IN
         /\ Regular(z)
         /\ \A id : id \notin OwnKeys /\ (At(note, id) # <<>> \/ id \notin BlockIds) => At(z, id) = At(note, id)
<1> DEFINE z == Apply(note, created, modified, o)
           new == NewBlock(created, modified, o)
<1>1. /\ note \in Seq(FineLines) /\ note \in Cells /\ Unique(note)
  BY RegularCells DEF Regular
<1>2. CASE z = note
  BY <1>2
<1>3. CASE Close(note) # 0 /\ (o.created \/ o.modified)
  <2> DEFINE y == Stamped(Inner(note), created, modified, o)
  <2>1. z = <<note[1]>> \o y \o SubSeq(note, Close(note), Len(note))
    BY <1>3 DEF Apply
  <2>2. Inner(note) \in Seq(FineLines)
    <3>1. Close(note) \in 2..Len(note) /\ Len(note) \in Nat
      BY <1>1, <1>3, CloseFacts DEF Cells
    <3> QED  BY <1>1, <3>1 DEF Inner
  <2>3. Keeps(Inner(note), y)
    BY <2>2, StampedKeeps
  <2> HIDE DEF z, y
  <2> QED  BY <1>3, <2>1, <2>3, ApplyBlock DEF z
<1>4. CASE ~Opened(note) /\ z = new \o note
  <2>1. /\ new \in Seq(FineLines) /\ Unique(new) /\ new # <<>> /\ new[1].id = "open"
        /\ \A l : Has(new, l) => l.id \in OwnKeys \cup BlockIds
    BY NewBlockFacts
  <2>2. \A id : id \in OwnKeys \cup BlockIds => At(note, id) = <<>>
    BY <1>4, OpenedFirst, RegularHead
  <2>3. \A id : id \in OwnKeys \cup BlockIds => \A l : Has(note, l) => l.id # id
    BY <1>1, <2>2, AtFacts DEF Has
  <2> HIDE DEF new
  <2>4. Apart(new, note)
    BY <2>1, <2>3 DEF Apart
  <2>5. new \in Cells
    BY <2>1, FineCells
  <2>6. /\ z \in Seq(FineLines) /\ z \in Cells /\ Unique(z)
        /\ \A l : Has(z, l) <=> Has(new, l) \/ Has(note, l)
    BY <1>1, <1>4, <2>1, <2>4, <2>5, ConcatFacts, FineCells
  <2>7. z[1] = new[1] /\ z # <<>>
    BY <1>1, <1>4, <2>1
  <2> HIDE DEF z
  <2>8. Headed(z)
    <3>1. 1 \in DOMAIN z
      BY <2>6, <2>7
    <3> QED  BY <2>1, <2>7, <3>1 DEF Headed, Has, Ids
  <2>9. ASSUME NEW id, id \notin OwnKeys, At(note, id) # <<>> \/ id \notin BlockIds
        PROVE  At(z, id) = At(note, id)
    <3>1. id \notin BlockIds
      BY <2>2, <2>9
    <3>2. \A l : l.id = id => (Has(z, l) <=> Has(note, l))
      BY <2>1, <2>6, <2>9, <3>1
    <3> QED  BY <1>1, <2>6, <2>9, <3>2, AtByLines
  <2>10. Regular(z)
    BY <2>6, <2>8 DEF Regular
  <2> QED  BY <2>9, <2>10 DEF z
<1> QED  BY <1>2, <1>3, <1>4 DEF Apply

-----------------------------------------------------------------------------
(* What a user saves.                                                      *)

\* One line is new, gone, or written at time t, and the others are as they were.
Saved(was, id, t, now) ==
  /\ Regular(now) /\ id \in Users
  /\ \A x : x \notin OwnKeys /\ x # id => At(now, x) = At(was, x)
  /\ Grew(id, At(was, id), At(now, id))
  /\ At(now, id) = <<>> \/ \E l \in NoteLines : At(now, id) = <<l>> /\ l.val = t
  /\ At(now, id) = <<>> => At(was, id) # <<>>

LEMMA UserIds ==
  /\ Users \cap OwnKeys = {} /\ Users \cap BlockIds = {} /\ Users \subseteq Words
  BY DEF Users, OwnKeys, BlockIds, Words

LEMMA RewrittenSaved ==
  ASSUME NEW note, Regular(note), NEW id \in {"title", "b1", "b2"}, NEW t \in Int,
         At(note, id) # <<>>
  PROVE  Saved(note, id, t, Rewritten(note, id, t))
<1> DEFINE y == Rewritten(note, id, t)
<1>1. /\ note \in Seq(FineLines) /\ note \in Cells /\ Unique(note)
      /\ DOMAIN note = 1..Len(note) /\ \A i \in DOMAIN note : note[i] \in FineLines
  BY RegularCells DEF Regular
<1>2. id \in Users /\ id \notin OwnKeys /\ id # "tag" /\ id \notin BlockIds
  BY DEF Users, OwnKeys, BlockIds
<1>3. ASSUME NEW i \in DOMAIN note
      PROVE  /\ y[i] \in FineLines /\ y[i].id = note[i].id
             /\ note[i].id # id => y[i] = note[i]
             /\ note[i].id = id => y[i].val = t
  <2>1. note[i] \in NoteLines
    BY <1>1, FineCells
  <2>2. note[i].id # id => y[i] = note[i]
    BY DEF Rewritten
  <2>3. CASE note[i].id = id
    <3>1. y[i] = [note[i] EXCEPT !.val = t]
      BY <2>3 DEF Rewritten
    <3>2. /\ y[i] \in NoteLines /\ y[i].id = note[i].id /\ y[i].val = t
          /\ y[i].kind = note[i].kind /\ y[i].key = note[i].key
      BY <2>1, <3>1 DEF NoteLines
    <3> QED  BY <1>1, <2>3, <3>2 DEF FineLines
  <2> QED  BY <1>1, <2>2, <2>3
<1>4. DOMAIN y = DOMAIN note
  BY DEF Rewritten
<1>5. y \in Seq(FineLines)
  <2>1. y \in [1..Len(note) -> FineLines] /\ Len(note) \in Nat
    <3>1. y \in [DOMAIN note -> FineLines]
      BY <1>3 DEF Rewritten
    <3> QED  BY <1>1, <3>1
  <2> QED  BY <2>1, SeqDef
<1> HIDE DEF y
<1>6. Unique(y) /\ y \in Cells
  BY <1>1, <1>3, <1>4, <1>5, FineCells DEF Unique
<1>7. Ids(y) = Ids(note)
  BY <1>3, <1>4 DEF Ids
<1>8. Regular(y)
  <2>1. 1 \in DOMAIN note \/ ~Has(Ids(note), "open")
    BY <1>1 DEF Has, Ids
  <2>2. Headed(y)
    BY <1>3, <1>4, <1>7, <2>1 DEF Regular, Headed
  <2> QED  BY <1>5, <1>6, <2>2 DEF Regular
<1>9. ASSUME NEW x, x \notin OwnKeys, x # id  PROVE At(y, x) = At(note, x)
  <2>1. \A i \in DOMAIN y : y[i].id = x => \E k \in DOMAIN note : note[k] = y[i]
    BY <1>3, <1>4, <1>9
  <2>2. \A k \in DOMAIN note : note[k].id = x => \E i \in DOMAIN y : note[k].id = y[i].id
    BY <1>3, <1>4
  <2> QED  BY <1>1, <1>6, <1>9, <2>1, <2>2, AtSame
<1>10. PICK i \in DOMAIN note : note[i].id = id
  BY <1>1, AtFacts
<1>11. At(y, id) = <<y[i]>> /\ y[i].val = t /\ y[i] \in NoteLines
  <2>1. At(y, y[i].id) = <<y[i]>>
    BY <1>2, <1>3, <1>4, <1>6, <1>10, AtUnique
  <2> QED  BY <1>3, <1>10, <2>1, FineCells
<1>12. At(y, id) # <<>>
  BY <1>11
<1>13. Saved(note, id, t, y)
  BY <1>2, <1>8, <1>9, <1>11, <1>12 DEF Saved, Grew
<1> QED  BY <1>13 DEF y

LEMMA RemovedSaved ==
  ASSUME NEW note, Regular(note), NEW i \in DOMAIN note, note[i].id = "b1", NEW t
  PROVE  Saved(note, "b1", t, RemoveAt(note, i))
<1> DEFINE y == RemoveAt(note, i)
           n == Len(note)
           h(k) == IF k < i THEN k ELSE k + 1
<1>1. /\ note \in Seq(FineLines) /\ note \in Cells /\ Unique(note)
      /\ DOMAIN note = 1..n /\ n \in Nat
  BY RegularCells DEF Regular, Cells
<1>2. /\ y \in Seq(FineLines) /\ Len(y) = n - 1
      /\ \A k \in 1..(i - 1) : y[k] = note[k]
      /\ \A k \in i..(n - 1) : y[k] = note[k + 1]
  <2>1. i \in 1..Len(note) /\ note \in Seq(FineLines)
    BY <1>1
  <2> QED  BY <2>1, RemoveFacts
<1>3. "b1" \notin OwnKeys /\ "b1" \in Users /\ "b1" \notin BlockIds /\ "b1" # "open" /\ "b1" # "tag"
  BY DEF OwnKeys, Users, BlockIds
<1> HIDE DEF y, n
<1>4. DOMAIN y = 1..(n - 1) /\ y \in Cells
  BY <1>1, <1>2, FineCells
<1>5. \A k \in DOMAIN y : h(k) \in DOMAIN note /\ h(k) # i /\ y[k] = note[h(k)]
  BY <1>1, <1>2, <1>4
<1>6. \A k \in DOMAIN note : k # i => \E m \in DOMAIN y : h(m) = k
  <2> SUFFICES ASSUME NEW k \in DOMAIN note, k # i  PROVE \E m \in DOMAIN y : h(m) = k
    OBVIOUS
  <2>1. CASE k < i
    BY <1>1, <1>4, <2>1
  <2>2. CASE k > i
    <3>1. k - 1 \in DOMAIN y /\ h(k - 1) = k
      BY <1>1, <1>4, <2>2
    <3> QED  BY <3>1
  <2> QED  BY <1>1, <2>1, <2>2
<1>7. \A k, m \in DOMAIN y : h(k) = h(m) => k = m
  BY <1>1, <1>4
<1>8. i # 1 => h(1) = 1
  BY <1>1
<1> HIDE DEF h
<1>9. Unique(y)
  BY <1>1, <1>5, <1>7 DEF Unique
<1>10. \A k \in DOMAIN note : note[k].id = "b1" => k = i
  BY <1>1, <1>3 DEF Unique
<1>11. Headed(y)
  <2>1. CASE Has(Ids(note), "open")
    <3>1. note[1].id = "open"
      BY <2>1 DEF Regular, Headed
    <3>2. PICK k \in DOMAIN note : note[k].id = "open"
      BY <2>1 DEF Has, Ids
    <3>3. i # 1 /\ 1 \in DOMAIN note
      BY <1>1, <1>3, <3>1, <3>2
    <3>4. PICK m \in DOMAIN y : h(m) = 1
      BY <1>6, <3>3
    <3>5. 1 \in DOMAIN y
      BY <1>1, <1>4, <3>4
    <3>6. y[1] = note[1]
      BY <1>5, <1>8, <3>3, <3>5
    <3> QED  BY <3>1, <3>5, <3>6 DEF Headed, Has, Ids
  <2>2. CASE ~Has(Ids(note), "open")
    <3>1. \A k \in DOMAIN note : note[k].id \notin OwnKeys \cup BlockIds \cup {"tag"}
      BY <2>2 DEF Regular, Headed
    <3>2. \A k \in DOMAIN y : y[k].id \notin OwnKeys \cup BlockIds \cup {"tag"}
      BY <1>5, <3>1
    <3> QED  BY <3>2 DEF Headed, Has, Ids, BlockIds
  <2> QED  BY <2>1, <2>2
<1>12. Regular(y)
  BY <1>2, <1>9, <1>11 DEF Regular
<1>13. ASSUME NEW x, x \notin OwnKeys, x # "b1"  PROVE At(y, x) = At(note, x)
  <2>1. \A k \in DOMAIN y : y[k].id = x => \E m \in DOMAIN note : note[m] = y[k]
    BY <1>5
  <2>2. \A m \in DOMAIN note : note[m].id = x => \E k \in DOMAIN y : note[m].id = y[k].id
    <3> SUFFICES ASSUME NEW m \in DOMAIN note, note[m].id = x  PROVE \E k \in DOMAIN y : note[m].id = y[k].id
      OBVIOUS
    <3>1. m # i
      BY <1>13
    <3>2. PICK k \in DOMAIN y : h(k) = m
      BY <1>6, <3>1
    <3> QED  BY <1>5, <3>2
  <2> QED  BY <1>1, <1>4, <1>9, <1>13, <2>1, <2>2, AtSame
<1>14. At(y, "b1") = <<>>
  <2>1. \A k \in DOMAIN y : y[k].id # "b1"
    BY <1>5, <1>10
  <2> QED  BY <1>4, <2>1, AtFacts
<1>15. At(note, "b1") # <<>>
  BY <1>1, AtFacts
<1>16. Saved(note, "b1", t, y)
  BY <1>3, <1>12, <1>13, <1>14, <1>15 DEF Saved, Grew
<1> QED  BY <1>16 DEF y

LEMMA TagSaved ==
  ASSUME NEW note, Regular(note), Close(note) # 0, At(note, "tag") = <<>>, NEW t \in Int
  PROVE  Saved(note, "tag", t, InsertAt(note, Close(note), Line("tag", "key", "tag", t)))
<1> DEFINE e == Line("tag", "key", "tag", t)
           c == Close(note)
           y == InsertAt(note, c, e)
<1>1. /\ note \in Seq(FineLines) /\ note \in Cells /\ Unique(note) /\ Len(note) \in Nat
      /\ DOMAIN note = 1..Len(note)
  BY RegularCells DEF Regular, Cells
<1>2. "tag" \notin OwnKeys /\ "tag" \in Users /\ "tag" \notin BlockIds /\ "tag" # "b1" /\ "tag" \in Words
  BY DEF OwnKeys, Users, BlockIds, Words
<1>3. e \in FineLines /\ e.id = "tag" /\ e.val = t
  <2>1. e \in NoteLines
    BY <1>2, LineType DEF Kinds
  <2> QED  BY <1>2, <2>1 DEF FineLines, Line, BlockIds
<1>4. c \in 2..Len(note) /\ Opened(note)
  BY <1>1, CloseFacts
<1> HIDE DEF c, e
<1>5. note # <<>> /\ note[1].id = "open"
  BY <1>4, OpenedFirst
<1>6. \A l : Has(note, l) => l.id # "tag"
  BY <1>1, AtFacts DEF Has
<1>7. /\ y \in Seq(FineLines) /\ Unique(y)
      /\ \A l : Has(y, l) <=> Has(note, l) \/ l = e
  <2>1. c \in 1..(Len(note) + 1)
    BY <1>1, <1>4
  <2> QED  BY <1>1, <1>3, <1>6, <2>1, Inserted
<1>8. y[1] = note[1] /\ y \in Cells /\ 1 \in DOMAIN y
  <2>1. /\ y \in Seq(FineLines) /\ Len(y) = Len(note) + 1
        /\ \A k \in 1..(c - 1) : y[k] = note[k]
    <3>1. c \in 1..(Len(note) + 1)
      BY <1>1, <1>4
    <3>2. note \in Seq(FineLines) /\ e \in FineLines
      BY <1>1, <1>3
    <3> QED  BY <3>1, <3>2, InsertFacts
  <2> HIDE DEF y
  <2> QED  BY <1>1, <1>4, <2>1, FineCells
<1> HIDE DEF y
<1>9. Regular(y)
  <2>1. Headed(y)
    BY <1>5, <1>8 DEF Headed, Has, Ids
  <2> QED  BY <1>7, <2>1 DEF Regular
<1>10. ASSUME NEW x, x \notin OwnKeys, x # "tag"  PROVE At(y, x) = At(note, x)
  <2>1. \A l : l.id = x => (Has(y, l) <=> Has(note, l))
    BY <1>3, <1>7, <1>10
  <2> QED  BY <1>1, <1>7, <1>8, <1>10, <2>1, AtByLines
<1>11. At(y, "tag") = <<e>>
  <2>1. PICK i \in DOMAIN y : y[i] = e
    BY <1>7 DEF Has
  <2> QED  BY <1>2, <1>3, <1>7, <1>8, <2>1, AtUnique
<1>12. <<e>> # <<>> /\ e \in NoteLines
  BY <1>3, FineCells
<1>13. Saved(note, "tag", t, y)
  BY <1>2, <1>3, <1>9, <1>10, <1>11, <1>12 DEF Saved, Grew
<1> QED  BY <1>13 DEF y, c, e

LEMMA SaveFacts ==
  ASSUME NEW note, Regular(note), NEW t \in Int, Quoting = FALSE, NEW now \in Saves(note, t)
  PROVE  \E id : Saved(note, id, t, now)
<1>1. CASE \E id \in Range(Ids(note)) \cap {"title", "b1", "b2"} : now = Rewritten(note, id, t)
  <2>1. PICK id \in Range(Ids(note)) \cap {"title", "b1", "b2"} : now = Rewritten(note, id, t)
    BY <1>1
  <2>2. Has(Ids(note), id)
    BY DEF Range, Has
  <2>3. At(note, id) # <<>>
    BY <2>2, RegularCells
  <2> QED  BY <2>1, <2>3, RewrittenSaved
<1>2. CASE \E i \in DOMAIN note : note[i].id = "b1" /\ now = RemoveAt(note, i)
  BY <1>2, RemovedSaved
<1>3. CASE /\ Close(note) # 0 /\ At(note, "tag") = <<>>
           /\ now = InsertAt(note, Close(note), Line("tag", "key", "tag", t))
  BY <1>3, TagSaved
<1> QED  BY <1>1, <1>2, <1>3 DEF Saves
=============================================================================
