-------------------------- MODULE SharedNoteProofs --------------------------
(* Theorems about SharedNote, for any number of machines, saves and lines: *)
(* a pull or a push never loses what either side wrote, no note gets a key *)
(* twice, and the timestamps of merged notes are right.                    *)
EXTENDS LayoutProofs

\* the note after the first i local commits
After(m, i) == IF i = 0 THEN base[m] ELSE local[m][i]

\* a version another machine may have
Elsewhere(m, v) ==
  \/ v = remote
  \/ \E x \in Machines \ {m} : v = base[x] \/ \E k \in DOMAIN local[x] : v = local[x][k]

Good(v) == Regular(v) /\ Dated(v, clock)

NotesInv ==
  /\ Good(remote)
  /\ \A m \in Machines : Good(base[m]) /\ \A i \in DOMAIN local[m] : Good(local[m][i])

ShapeInv ==
  /\ opts \in [Machines -> OptionSet] /\ clock \in Nat
  /\ base \in [Machines -> Cells] /\ local \in [Machines -> Seq(Cells)]

\* From commit to commit, and from where they begin to the remote, lines only
\* become what they can become.
ChainInv ==
  \A m \in Machines : /\ Follows(base[m], remote)
                      /\ \A i \in DOMAIN local[m] : Follows(After(m, i - 1), local[m][i])

\* What this machine wrote and has not pushed, nobody else has.
Own(m, id, c) == \A v : Elsewhere(m, v) => At(v, id) # c
MineInv ==
  \A m \in Machines : \A i \in DOMAIN local[m] : \A id : id \notin OwnKeys \cup BlockIds =>
    At(local[m][i], id) \in {At(base[m], id), <<>>} \/ Own(m, id, At(local[m][i], id))

IInv == ShapeInv /\ NotesInv /\ ChainInv /\ MineInv

\* Besides, where the note was tidy at first: every version is laid out alike,
\* no date is of a time to come, and from commit to commit dates only become
\* what they can become.
Fit(g, v) == Laid(g, v) /\ (g.closed => OwnDated(v, clock))
Version(v) ==
  \/ v = remote
  \/ \E m \in Machines : v = base[m] \/ \E i \in DOMAIN local[m] : v = local[m][i]
LaidInv(g) ==
  /\ Frame(g) /\ \A v : Version(v) => Fit(g, v)
  /\ g.closed => \A m \in Machines : /\ Aged(base[m], remote)
                                     /\ \A i \in DOMAIN local[m] : Aged(After(m, i - 1), local[m][i])

\* no line was written after the time modified tells, but without a stamp
Recent(v) ==
  \A i \in DOMAIN v :
    v[i].id \in Users /\ v[i].val > 0 /\ v[i].val \notin unstamped => v[i].val <= Val(v, "modified")
RecentInv == \A v : Version(v) => Recent(v)

-----------------------------------------------------------------------------
(* Lines from version to version.                                          *)

LEMMA FollowsAgain ==
  /\ \A f : Follows(f, f)
  /\ \A f, g, t : Follows(f, g) /\ Follows(g, t) => Follows(f, t)
  BY DEF Follows, Grew

LEMMA DatedCell ==
  ASSUME NEW note \in Cells, NEW t, Dated(note, t), NEW id \in Users, NEW l, At(note, id) = <<l>>
  PROVE  l.val <= t
<1>1. PICK i \in DOMAIN note : l = note[i] /\ l.id = id
  BY AtFacts
<1> QED  BY <1>1 DEF Dated

\* A save, and its stamp if it gets one: one line of the user's, and what a new
\* block has.
Edited(was, id, t, now) ==
  /\ Regular(now) /\ Dated(now, t) /\ Follows(was, now) /\ id \in Users
  /\ \A x : x \notin OwnKeys /\ x # id /\ (x \notin BlockIds \/ At(was, x) # <<>>) => At(now, x) = At(was, x)
  /\ At(now, id) = <<>> \/ \E l : At(now, id) = <<l>> /\ l.val = t
  /\ At(now, id) # At(was, id)

LEMMA EditFacts ==
  ASSUME NEW was, Regular(was), NEW s \in Nat, Dated(was, s), Quoting = FALSE,
         NEW note \in Saves(was, s + 1), NEW now,
         now = note \/ \E created \in Int, o \in OptionSet : now = Apply(note, created, s + 1, o)
  PROVE  \E id : Edited(was, id, s + 1, now)
<1> DEFINE t == s + 1
<1>1. t \in Int /\ t \in Nat /\ s <= t
  OBVIOUS
<1> HIDE DEF t
<1>2. PICK id : Saved(was, id, t, note)
  BY <1>1, SaveFacts DEF t
<1>3. /\ Regular(now)
      /\ \A x : x \notin OwnKeys /\ (At(note, x) # <<>> \/ x \notin BlockIds) => At(now, x) = At(note, x)
  <2>1. CASE now = note
    BY <1>2, <2>1 DEF Saved
  <2>2. ASSUME NEW created \in Int, NEW o \in OptionSet, now = Apply(note, created, t, o)
        PROVE  /\ Regular(now)
               /\ \A x : x \notin OwnKeys /\ (At(note, x) # <<>> \/ x \notin BlockIds) => At(now, x) = At(note, x)
    BY <1>1, <1>2, <2>2, StampLaw DEF Saved
  <2> QED  BY <2>1, <2>2 DEF t
<1>4. id \in Users /\ id \notin OwnKeys /\ id \notin BlockIds
  BY <1>2, UserIds DEF Saved
<1>5. At(now, id) = At(note, id)
  BY <1>3, <1>4
<1>6. \A x : x \notin OwnKeys /\ x # id /\ (x \notin BlockIds \/ At(was, x) # <<>>) => At(now, x) = At(was, x)
  BY <1>2, <1>3 DEF Saved
<1>7. Follows(was, now)
  <2> SUFFICES ASSUME NEW x, x \notin OwnKeys  PROVE Grew(x, At(was, x), At(now, x))
    BY DEF Follows
  <2>1. CASE x = id
    BY <1>2, <1>5, <2>1 DEF Saved
  <2>2. CASE x # id /\ (x \notin BlockIds \/ At(was, x) # <<>>)
    <3>1. At(now, x) = At(was, x)
      BY <1>6, <2>2
    <3> QED  BY <3>1 DEF Grew
  <2>3. CASE x \in BlockIds /\ At(was, x) = <<>>
    BY <2>3 DEF Grew
  <2> QED  BY <2>1, <2>2, <2>3
<1>8. Dated(now, t)
  <2> SUFFICES ASSUME NEW i \in DOMAIN now, now[i].id \in Users  PROVE now[i].val <= t
    BY DEF Dated
  <2>1. now \in Cells /\ Unique(now) /\ was \in Cells /\ now[i].id \notin OwnKeys /\ now[i].id \notin BlockIds
    BY <1>3, RegularCells, UserIds
  <2>2. At(now, now[i].id) = <<now[i]>>
    BY <2>1, AtUnique
  <2>3. CASE now[i].id = id
    <3>1. PICK l \in NoteLines : At(now, id) = <<l>> /\ l.val = t
      <4>1. <<now[i]>> # <<>>
        OBVIOUS
      <4> QED  BY <1>2, <1>5, <2>2, <2>3, <4>1 DEF Saved
    <3>2. now[i] = l
      BY <2>2, <2>3, <3>1
    <3> QED  BY <1>1, <3>1, <3>2
  <2>4. CASE now[i].id # id
    <3>1. At(was, now[i].id) = <<now[i]>>
      BY <1>6, <2>1, <2>2, <2>4
    <3>2. now[i].val <= s
      BY <2>1, <3>1, DatedCell
    <3>3. now[i].val \in Int
      <4>1. now[i] \in NoteLines
        BY <2>1 DEF Cells
      <4> QED  BY <4>1 DEF NoteLines
    <3> QED  BY <1>1, <3>2, <3>3
  <2> QED  BY <2>3, <2>4
<1>9. At(now, id) = <<>> \/ \E l : At(now, id) = <<l>> /\ l.val = t
  BY <1>2, <1>5 DEF Saved
<1>10. At(now, id) # At(was, id)
  <2>1. CASE At(now, id) = <<>>
    BY <1>2, <1>5, <2>1 DEF Saved
  <2>2. CASE At(now, id) # <<>>
    <3>1. PICK l : At(now, id) = <<l>> /\ l.val = t
      BY <1>9, <2>2
    <3>2. was \in Cells
      BY RegularCells
    <3>3. At(was, id) = <<l>> => l.val <= s
      BY <1>4, <3>2, DatedCell
    <3>4. t = s + 1 /\ s \in Nat
      BY DEF t
    <3> QED  BY <3>1, <3>3, <3>4
  <2> QED  BY <2>1, <2>2
<1>11. Edited(was, id, t, now)
  BY <1>3, <1>4, <1>6, <1>7, <1>8, <1>9, <1>10 DEF Edited
<1> QED  BY <1>11 DEF t

\* While this side's commits are replayed: what the note has of a line by now,
\* given what it had where they begin, on the remote, and after the commits
\* that are replayed.
Fits(b, r, l, x) == /\ r # b => x = r
                    /\ l # b => x = l
                    /\ r = b /\ l = b => x = b

LEMMA FitsNext ==
  ASSUME NEW b, NEW r, NEW f, NEW o, NEW t, NEW z, Fits(b, r, f, o), Law(f, o, t, z),
         r # b /\ r = f => t = f
  PROVE  /\ Fits(b, r, t, z)
         /\ z = r \/ (r = b /\ z = t)
         /\ z = o \/ (z = t /\ o = f)
  BY DEF Fits, Law

LEMMA FitsGrew ==
  ASSUME NEW id, NEW b, NEW r, NEW f, NEW o, Fits(b, r, f, o), Grew(id, b, r)
  PROVE  Grew(id, f, o)
  BY DEF Fits, Grew

-----------------------------------------------------------------------------
(* Replaying local commits on the remote.                                  *)

Accs == [tip : Cells, local : Seq(Cells), stopped : BOOLEAN, steps : Nat, skipped : BOOLEAN]

Last1(acc) == IF acc.local = <<>> THEN remote ELSE Last(acc.local)

\* what is known after the first i commits
Kept(m, x, id) ==
  \/ At(x, id) = At(remote, id)
  \/ /\ At(remote, id) = At(base[m], id)
     /\ \E i \in DOMAIN local[m] : At(x, id) = At(local[m][i], id)
Link(acc, k) == IF k = 1 THEN remote ELSE acc.local[k - 1]
Tracks(g, m, i, acc) ==
  /\ Fit(g, acc.tip) /\ \A k \in DOMAIN acc.local : Fit(g, acc.local[k])
  /\ g.closed =>
       /\ Aged(After(m, i), acc.tip) /\ \A k \in DOMAIN acc.local : Aged(Link(acc, k), acc.local[k])
       /\ RecentInv => Recent(acc.tip) /\ \A k \in DOMAIN acc.local : Recent(acc.local[k])
Replays(m, i, acc) ==
  /\ acc \in Accs
  /\ ~acc.stopped =>
       /\ Good(acc.tip) /\ acc.tip = Last1(acc)
       /\ \A id : id \notin OwnKeys => Fits(At(base[m], id), At(remote, id), At(After(m, i), id), At(acc.tip, id))
       /\ \A k \in DOMAIN acc.local :
            /\ Good(acc.local[k]) /\ Follows(Link(acc, k), acc.local[k]) /\ acc.local[k] # Link(acc, k)
            /\ \A id : id \notin OwnKeys => Kept(m, acc.local[k], id)
       /\ \A g : LaidInv(g) => Tracks(g, m, i, acc)

LEMMA GoodCells ==
  ASSUME NEW v, Good(v)
  PROVE  v \in Cells /\ Regular(v) /\ Dated(v, clock)
  BY RegularCells DEF Good

LEMMA AfterFacts ==
  ASSUME IInv, NEW m \in Machines
  PROVE  /\ local[m] \in Seq(Cells) /\ DOMAIN local[m] = 1..Len(local[m]) /\ Len(local[m]) \in Nat
         /\ \A i \in 0..Len(local[m]) : Good(After(m, i)) /\ After(m, i) \in Cells
         /\ \A i \in 1..Len(local[m]) : /\ Follows(After(m, i - 1), After(m, i))
                                        /\ Before(m, i) = After(m, i - 1) /\ After(m, i) = local[m][i]
         /\ Tip(m) = After(m, Len(local[m]))
         /\ opts[m] \in OptionSet
<1>1. local[m] \in Seq(Cells) /\ opts[m] \in OptionSet
  BY DEF IInv, ShapeInv
<1>2. DOMAIN local[m] = 1..Len(local[m]) /\ Len(local[m]) \in Nat
  BY <1>1
<1>3. ASSUME NEW i \in 0..Len(local[m])  PROVE Good(After(m, i)) /\ After(m, i) \in Cells
  <2>1. Good(After(m, i))
    BY <1>2 DEF IInv, NotesInv, After
  <2> QED  BY <2>1, GoodCells
<1>4. ASSUME NEW i \in 1..Len(local[m])
      PROVE  /\ Follows(After(m, i - 1), After(m, i))
             /\ Before(m, i) = After(m, i - 1) /\ After(m, i) = local[m][i]
  <2>1. After(m, i) = local[m][i]
    BY <1>2 DEF After
  <2>2. Before(m, i) = After(m, i - 1)
    BY <1>2 DEF Before, After
  <2>3. Follows(After(m, i - 1), local[m][i])
    BY <1>2 DEF IInv, ChainInv
  <2> QED  BY <2>1, <2>2, <2>3
<1>5. Tip(m) = After(m, Len(local[m]))
  BY <1>1, <1>2 DEF Tip, After, Last
<1> QED  BY <1>1, <1>2, <1>3, <1>4, <1>5

\* A line both sides changed alike is not changed again by this side.
LEMMA ChangedOnce ==
  ASSUME IInv, NEW m \in Machines, NEW i \in 1..Len(local[m]), NEW id, id \notin OwnKeys,
         At(remote, id) # At(base[m], id), At(remote, id) = At(After(m, i - 1), id)
  PROVE  At(After(m, i), id) = At(After(m, i - 1), id)
<1> DEFINE b == At(base[m], id)
           r == At(remote, id)
           f == At(After(m, i - 1), id)
           t == At(After(m, i), id)
<1>1. Grew(id, b, r)
  BY DEF IInv, ChainInv, Follows
<1>2. Grew(id, f, t)
  BY AfterFacts DEF Follows
<1>3. ASSUME id \notin BlockIds  PROVE f = <<>>
  <2>1. i - 1 # 0 /\ i - 1 \in DOMAIN local[m]
    <3>1. Len(local[m]) \in Nat /\ DOMAIN local[m] = 1..Len(local[m])
      BY AfterFacts
    <3>2. i - 1 # 0
      BY DEF After
    <3> QED  BY <3>1, <3>2
  <2>2. f = At(local[m][i - 1], id)
    BY <2>1 DEF After
  <2>3. f \in {b, <<>>} \/ Own(m, id, f)
    BY <1>3, <2>1, <2>2 DEF IInv, MineInv
  <2>4. ~Own(m, id, f)
    BY DEF Own, Elsewhere
  <2> QED  BY <2>3, <2>4
<1> QED  BY <1>1, <1>2, <1>3 DEF Grew

LEMMA AfterFits ==
  ASSUME IInv, NEW g, LaidInv(g), NEW m \in Machines, NEW i \in 0..Len(local[m])
  PROVE  /\ Fit(g, After(m, i)) /\ (RecentInv => Recent(After(m, i)))
         /\ i # 0 /\ g.closed => Aged(After(m, i - 1), After(m, i))
<1>1. i = 0 \/ (i # 0 /\ i \in DOMAIN local[m])
  BY AfterFacts
<1> QED  BY <1>1 DEF After, Version, LaidInv, RecentInv

\* A merge goes on from both sides.
LEMMA MergeFits ==
  ASSUME NEW g, Frame(g), NEW f, NEW o, NEW t, Good(f), Good(o), Good(t),
         Follows(f, o), Follows(f, t), Fit(g, f), Fit(g, o), Fit(g, t),
         g.closed => Aged(f, o) /\ Aged(f, t),
         NEW diff3 \in BOOLEAN, NEW op, NEW z \in Resolved(Merge(f, o, t, diff3), op)
  PROVE  /\ Fit(g, z)
         /\ g.closed => Aged(o, z) /\ Aged(t, z) /\ (Recent(o) /\ Recent(t) => Recent(z))
<1>1. Regular(f) /\ Regular(o) /\ Regular(t) /\ Laid(g, f) /\ Laid(g, o) /\ Laid(g, t)
  BY DEF Good, Fit
<1>2. /\ Regular(z) /\ Laid(g, z)
      /\ \A i \in DOMAIN z : (\E k \in DOMAIN o : z[i] = o[k]) \/ (\E k \in DOMAIN t : z[i] = t[k])
  BY <1>1, MergeLaid, MergeLaw
<1>3. CASE ~g.closed
  BY <1>2, <1>3 DEF Fit
<1>4. CASE g.closed
  <2>1. OwnDated(f, clock) /\ OwnDated(o, clock) /\ OwnDated(t, clock) /\ Aged(f, o) /\ Aged(f, t)
    BY <1>4 DEF Fit
  <2>2. OwnDated(z, clock) /\ Aged(o, z) /\ Aged(t, z)
    BY <1>1, <1>4, <2>1, MergeAges, SMTT(60)
  <2>3. ASSUME Recent(o), Recent(t)  PROVE Recent(z)
    <3>1. ASSUME NEW v \in {o, t}, Aged(v, z), NEW k \in DOMAIN v, v[k].id \in Users, v[k].val > 0,
                 v[k].val \notin unstamped
          PROVE  v[k].val <= Val(z, "modified")
      <4>1. v \in Cells /\ z \in Cells /\ Once(Ids(v)) /\ Once(Ids(z)) /\ OwnDated(v, clock) /\ "modified" \in OwnKeys
        BY <1>1, <1>2, <1>4, <2>1, RegularCells DEF Laid, LaidIds, OwnKeys
      <4>2. Val(v, "modified") \in Int /\ Val(z, "modified") \in Int
        BY <2>2, <4>1, ValInt
      <4>3. v[k].val \in Int
        <5>1. v[k] \in NoteLines
          BY <3>1, <4>1 DEF Cells
        <5> QED  BY <5>1 DEF NoteLines
      <4>4. v[k].val <= Val(v, "modified")
        BY <2>3, <3>1 DEF Recent
      <4>5. LaterDate(Val(v, "modified"), Val(z, "modified"))
        BY <3>1 DEF Aged
      <4> QED  BY <4>2, <4>3, <4>4, <4>5 DEF LaterDate
    <3> QED  BY <1>2, <2>2, <3>1 DEF Recent
  <2> QED  BY <1>2, <2>2, <2>3 DEF Fit
<1> QED  BY <1>3, <1>4

One(results) == CHOOSE n \in results : TRUE
Follow(acc, z, next) ==
  /\ next \in Accs
  /\ z = acc.tip => next.tip = acc.tip /\ next.local = acc.local
  /\ z # acc.tip => next.tip = z /\ next.local = Append(acc.local, z) /\ ~next.stopped

\* What becomes of a commit that git merged, or the resolver: it is there then,
\* or it adds nothing and is dropped, or its --skip is one step too many.
LEMMA CommittedFacts ==
  ASSUME NEW acc \in Accs, ~acc.stopped, NEW clash, NEW results, results # {}, NEW o \in OptionSet,
         One(results) \in Cells
  PROVE  Follow(acc, One(results), Committed(acc, clash, results, o))
<1> DEFINE z == One(results)
           next == Committed(acc, clash, results, o)
           after == [acc EXCEPT !.steps = IF clash THEN @ + 1 ELSE @]
<1> SUFFICES Follow(acc, z, next)
  OBVIOUS
<1>0. z \in Cells
  OBVIOUS
<1>1. /\ after \in Accs /\ after.tip = acc.tip /\ after.local = acc.local
      /\ after.stopped = acc.stopped /\ after.steps \in Nat
  BY DEF Accs
<1>2. next = IF z # acc.tip THEN [after EXCEPT !.tip = z, !.local = Append(@, z)]
             ELSE IF clash /\ o.stops THEN Skipped(after, o)
             ELSE after
  BY DEF Committed, One
<1> HIDE DEF after, z, next
<1>3. CASE z # acc.tip
  <2>1. next = [after EXCEPT !.tip = z, !.local = Append(@, z)]
    BY <1>2, <1>3
  <2>2. Append(acc.local, z) \in Seq(Cells)
    BY <1>0 DEF Accs
  <2> QED  BY <1>0, <1>1, <1>3, <2>1, <2>2 DEF Accs, Follow
<1>4. CASE z = acc.tip /\ clash /\ o.stops
  <2>1. next = Skipped(after, o)
    BY <1>2, <1>4
  <2>2. next = IF after.steps >= o.steps THEN [after EXCEPT !.stopped = TRUE]
                 ELSE [after EXCEPT !.steps = @ + 1, !.skipped = TRUE]
    BY <2>1 DEF Skipped
  <2>3. next \in Accs
    <3>1. CASE after.steps >= o.steps
      <4>1. next = [after EXCEPT !.stopped = TRUE]
        BY <2>2, <3>1
      <4> QED  BY <1>1, <4>1 DEF Accs
    <3>2. CASE ~(after.steps >= o.steps)
      <4>1. next = [after EXCEPT !.steps = @ + 1, !.skipped = TRUE]
        BY <2>2, <3>2
      <4>2. after.steps + 1 \in Nat /\ after.tip \in Cells /\ after.local \in Seq(Cells) /\ after.stopped \in BOOLEAN
        BY <1>1 DEF Accs
      <4>3. next = [tip |-> after.tip, local |-> after.local, stopped |-> after.stopped,
                    steps |-> after.steps + 1, skipped |-> TRUE]
        BY <1>1, <4>1 DEF Accs
      <4> QED  BY <4>2, <4>3 DEF Accs
    <3> QED  BY <3>1, <3>2
  <2>4. next.tip = after.tip /\ next.local = after.local
    BY <1>1, <2>2 DEF Accs
  <2> QED  BY <1>1, <1>4, <2>3, <2>4 DEF Follow
<1>5. CASE z = acc.tip /\ ~(clash /\ o.stops)
  BY <1>1, <1>2, <1>5 DEF Follow
<1> QED  BY <1>3, <1>4, <1>5

\* One commit more.
LEMMA PickFacts ==
  ASSUME IInv, NEW m \in Machines, NEW i \in 1..Len(local[m]), NEW acc, Replays(m, i - 1, acc)
  PROVE  Replays(m, i, Pick(acc, Before(m, i), local[m][i], opts[m]))
<1> DEFINE f == After(m, i - 1)
           t == After(m, i)
           o == acc.tip
           merged == Merge(f, o, t, opts[m].diff3)
           results == Offered(acc, merged, opts[m])
           z == One(results)
           next == Pick(acc, Before(m, i), local[m][i], opts[m])
<1>1. /\ Follows(f, t) /\ Before(m, i) = f /\ local[m][i] = t /\ Good(f) /\ Good(t)
      /\ opts[m] \in OptionSet /\ opts[m].diff3 \in BOOLEAN /\ i \in DOMAIN local[m]
  <2>1. /\ Follows(f, t) /\ Before(m, i) = f /\ local[m][i] = t /\ opts[m] \in OptionSet
        /\ Len(local[m]) \in Nat /\ DOMAIN local[m] = 1..Len(local[m])
    BY AfterFacts
  <2>2. i \in 0..Len(local[m]) /\ i - 1 \in 0..Len(local[m])
    BY <2>1
  <2>3. Good(f) /\ Good(t)
    BY <2>2, AfterFacts
  <2> QED  BY <2>1, <2>3 DEF OptionSet
<1>2. next = Committed(acc, merged.clash, results, opts[m])
  BY <1>1 DEF Pick
<1> HIDE DEF f, t, merged, results, next
<1>3. CASE acc.stopped \/ results = {}
  <2>1. next = [acc EXCEPT !.stopped = TRUE]
    BY <1>2, <1>3 DEF Committed
  <2>2. next \in Accs /\ next.stopped
    BY <2>1 DEF Replays, Accs
  <2>3. Replays(m, i, next)
    BY <2>2 DEF Replays
  <2> QED  BY <2>3 DEF next
<1>4. CASE ~acc.stopped /\ results # {}
  <2>1. /\ acc \in Accs /\ Good(o) /\ o = Last1(acc)
        /\ \A id : id \notin OwnKeys => Fits(At(base[m], id), At(remote, id), At(f, id), At(o, id))
        /\ \A k \in DOMAIN acc.local :
             /\ Good(acc.local[k]) /\ Follows(Link(acc, k), acc.local[k]) /\ acc.local[k] # Link(acc, k)
             /\ \A id : id \notin OwnKeys => Kept(m, acc.local[k], id)
    BY <1>4 DEF Replays, f
  <2>2. z \in results
    BY <1>4 DEF One
  <2>3. ASSUME z \in Cells
        PROVE  /\ next \in Accs
               /\ z = o => next.tip = o /\ next.local = acc.local
               /\ z # o => next.tip = z /\ next.local = Append(acc.local, z) /\ ~next.stopped
    <3>1. Follow(acc, One(results), Committed(acc, merged.clash, results, opts[m]))
      BY <1>1, <1>4, <2>1, <2>3, CommittedFacts
    <3> QED  BY <1>2, <3>1 DEF Follow
  <2> HIDE DEF z, o
  <2>4. Follows(f, o)
    <3> SUFFICES ASSUME NEW id, id \notin OwnKeys  PROVE Grew(id, At(f, id), At(o, id))
      BY DEF Follows
    <3>1. Grew(id, At(base[m], id), At(remote, id))
      BY DEF IInv, ChainInv, Follows
    <3> QED  BY <2>1, <3>1, FitsGrew
  <2>5. /\ Regular(z)
        /\ \A k \in DOMAIN z : (\E n \in DOMAIN o : z[k] = o[n]) \/ (\E n \in DOMAIN t : z[k] = t[n])
        /\ \A id : id \notin OwnKeys => Law(At(f, id), At(o, id), At(t, id), At(z, id))
    <3>1. Regular(f) /\ Regular(o) /\ Regular(t)
      BY <1>1, <2>1 DEF Good
    <3>2. z \in Resolved(Merge(f, o, t, opts[m].diff3), opts[m])
      BY <2>2 DEF results, merged, Offered
    <3> QED  BY <1>1, <2>4, <3>1, <3>2, MergeLaw
  <2>6. Good(z) /\ z \in Cells
    <3>1. Dated(o, clock) /\ Dated(t, clock)
      BY <1>1, <2>1 DEF Good
    <3>2. Dated(z, clock)
      BY <2>5, <3>1 DEF Dated
    <3>3. Good(z)
      BY <2>5, <3>2 DEF Good
    <3> QED  BY <3>3, GoodCells
  <2>7. ASSUME NEW id, id \notin OwnKeys
        PROVE  /\ Fits(At(base[m], id), At(remote, id), At(t, id), At(z, id))
               /\ Kept(m, z, id)
               /\ Grew(id, At(o, id), At(z, id))
    <3>1. At(remote, id) # At(base[m], id) /\ At(remote, id) = At(f, id) => At(t, id) = At(f, id)
      BY <2>7, ChangedOnce DEF f, t
    <3>2. /\ Fits(At(base[m], id), At(remote, id), At(t, id), At(z, id))
          /\ At(z, id) = At(remote, id) \/ (At(remote, id) = At(base[m], id) /\ At(z, id) = At(t, id))
          /\ At(z, id) = At(o, id) \/ (At(z, id) = At(t, id) /\ At(o, id) = At(f, id))
      <4>1. Fits(At(base[m], id), At(remote, id), At(f, id), At(o, id))
        BY <2>1, <2>7
      <4>2. Law(At(f, id), At(o, id), At(t, id), At(z, id))
        BY <2>5, <2>7
      <4> QED  BY <3>1, <4>1, <4>2, FitsNext
    <3>3. Kept(m, z, id)
      BY <1>1, <3>2 DEF Kept
    <3>4. Grew(id, At(f, id), At(t, id))
      BY <1>1, <2>7 DEF Follows
    <3>5. Grew(id, At(o, id), At(z, id))
      BY <3>2, <3>4 DEF Grew
    <3> QED  BY <3>2, <3>3, <3>5
  <2>10. \A g : LaidInv(g) => Tracks(g, m, i - 1, acc)
    BY <1>4 DEF Replays
  <2>11. ASSUME NEW g, LaidInv(g)
         PROVE  /\ Fit(g, z)
                /\ g.closed => Aged(o, z) /\ Aged(t, z) /\ (RecentInv => Recent(z))
    <3>1. Frame(g) /\ Tracks(g, m, i - 1, acc)
      BY <2>10, <2>11 DEF LaidInv
    <3>2. i \in 0..Len(local[m]) /\ i - 1 \in 0..Len(local[m]) /\ i # 0
      BY AfterFacts
    <3>3. /\ Fit(g, f) /\ Fit(g, t) /\ (g.closed => Aged(f, t)) /\ (RecentInv => Recent(f) /\ Recent(t))
      BY <2>11, <3>2, AfterFits DEF f, t
    <3>4. Fit(g, o) /\ (g.closed => Aged(f, o) /\ (RecentInv => Recent(o)))
      BY <3>1 DEF Tracks, f, o
    <3>5. z \in Resolved(Merge(f, o, t, opts[m].diff3), opts[m])
      BY <2>2 DEF results, merged, Offered
    <3>6. Good(f) /\ Good(o) /\ Good(t) /\ Follows(f, o) /\ Follows(f, t) /\ opts[m].diff3 \in BOOLEAN
      BY <1>1, <2>1, <2>4
    <3>7. /\ Fit(g, z)
          /\ g.closed => Aged(o, z) /\ Aged(t, z) /\ (Recent(o) /\ Recent(t) => Recent(z))
      BY <3>1, <3>3, <3>4, <3>5, <3>6, MergeFits, SMTT(60)
    <3> QED  BY <3>3, <3>4, <3>7
  <2>8. CASE z = o
    <3>1. next \in Accs /\ next.tip = o /\ next.local = acc.local
      BY <2>3, <2>6, <2>8
    <3>2. (\A k : Link(next, k) = Link(acc, k)) /\ Last1(next) = Last1(acc)
      BY <3>1 DEF Link, Last1
    <3>3. ASSUME NEW g, LaidInv(g)  PROVE Tracks(g, m, i, next)
      BY <2>8, <2>10, <2>11, <3>1, <3>2, <3>3 DEF Tracks, t, o
    <3>4. \A id : id \notin OwnKeys => Fits(At(base[m], id), At(remote, id), At(After(m, i), id), At(next.tip, id))
      BY <2>7, <2>8, <3>1 DEF t
    <3>5. Replays(m, i, next)
      BY <2>1, <3>1, <3>2, <3>3, <3>4 DEF Replays
    <3> QED  BY <3>5 DEF next
  <2>9. CASE z # o
    <3> DEFINE new == Append(acc.local, z)
               e == Len(acc.local) + 1
    <3>1. acc.local \in Seq(Cells) /\ acc.tip \in Cells
      BY <2>1 DEF Accs
    <3>2. /\ next \in Accs /\ next.tip = z /\ next.local = new /\ ~next.stopped
      BY <2>3, <2>6, <2>9
    <3>3. /\ DOMAIN new = DOMAIN acc.local \cup {e} /\ new[e] = z
          /\ \A k \in DOMAIN acc.local : new[k] = acc.local[k] /\ k # e
          /\ new # <<>> /\ Last(new) = z /\ e \in Nat \ {0}
      BY <2>6, <3>1 DEF Last
    <3>4. Link(next, e) = o
      <4>1. CASE acc.local = <<>>
        <5>1. e = 1
          BY <4>1
        <5> QED  BY <2>1, <4>1, <5>1 DEF Link, Last1
      <4>2. CASE acc.local # <<>>
        <5>1. e # 1 /\ e - 1 = Len(acc.local) /\ Len(acc.local) \in DOMAIN acc.local
          BY <3>1, <4>2
        <5>2. Link(next, e) = acc.local[Len(acc.local)]
          BY <3>2, <3>3, <5>1 DEF Link
        <5> QED  BY <2>1, <4>2, <5>2 DEF Last1, Last
      <4> QED  BY <4>1, <4>2
    <3>5. \A k \in DOMAIN acc.local : Link(next, k) = Link(acc, k)
      <4> TAKE k \in DOMAIN acc.local
      <4>1. k # 1 => k - 1 \in DOMAIN acc.local
        BY <3>1
      <4> QED  BY <3>2, <3>3, <4>1 DEF Link
    <3>6. Follows(o, z)
      BY <2>7 DEF Follows
    <3> HIDE DEF new, e
    <3>7. ASSUME NEW k \in DOMAIN new
          PROVE  /\ Good(new[k]) /\ Follows(Link(next, k), new[k]) /\ new[k] # Link(next, k)
                 /\ \A id : id \notin OwnKeys => Kept(m, new[k], id)
      <4>1. CASE k = e
        BY <2>6, <2>7, <2>9, <3>3, <3>4, <3>6, <4>1
      <4>2. CASE k \in DOMAIN acc.local
        BY <2>1, <3>3, <3>5, <4>2
      <4> QED  BY <3>3, <4>1, <4>2
    <3>8. next.tip = Last1(next)
      BY <3>2, <3>3 DEF Last1
    <3>9. \A id : id \notin OwnKeys => Fits(At(base[m], id), At(remote, id), At(After(m, i), id), At(next.tip, id))
      BY <2>7, <3>2 DEF t
    <3>11. ASSUME NEW g, LaidInv(g)  PROVE Tracks(g, m, i, next)
      <4>1. /\ Fit(g, z)
            /\ g.closed => Aged(o, z) /\ Aged(t, z) /\ (RecentInv => Recent(z))
        BY <2>11, <3>11
      <4>2. Tracks(g, m, i - 1, acc)
        BY <2>10, <3>11
      <4>3. ASSUME NEW k \in DOMAIN new
            PROVE  Fit(g, new[k]) /\ (g.closed => Aged(Link(next, k), new[k]) /\ (RecentInv => Recent(new[k])))
        <5>1. CASE k = e
          BY <3>3, <3>4, <4>1, <5>1
        <5>2. CASE k \in DOMAIN acc.local
          BY <3>3, <3>5, <4>2, <5>2 DEF Tracks
        <5> QED  BY <3>3, <5>1, <5>2
      <4> QED  BY <3>2, <4>1, <4>3 DEF Tracks, t
    <3>10. Replays(m, i, next)
      BY <2>6, <3>2, <3>7, <3>8, <3>9, <3>11 DEF Replays
    <3> QED  BY <3>10 DEF next
  <2> QED  BY <2>8, <2>9
<1> QED  BY <1>3, <1>4

LEMMA RebasedFacts ==
  ASSUME IInv, NEW m \in Machines
  PROVE  Replays(m, Len(local[m]), Rebased(m))
<1> DEFINE N == Len(local[m])
           start == [tip |-> remote, local |-> <<>>, stopped |-> FALSE, steps |-> 0, skipped |-> FALSE]
           Step(acc, i) == Pick(acc, Before(m, i), local[m][i], opts[m])
           step == [i \in 1..N |-> [acc \in Accs |-> IF Step(acc, i) \in Accs THEN Step(acc, i) ELSE acc]]
           Is(q) == q = [i \in 0..N |-> IF i = 0 THEN start ELSE Step(q[i - 1], i)]
<1>1. N \in Nat
  BY AfterFacts
<1>2. Rebased(m) = (CHOOSE q : Is(q))[N]
  BY DEF Rebased
<1>3. start \in Accs /\ Replays(m, 0, start)
  <2>1. Good(remote) /\ remote \in Cells
    <3>1. Good(remote)
      BY DEF IInv, NotesInv
    <3> QED  BY <3>1, GoodCells
  <2>2. start \in Accs
    BY <2>1 DEF Accs
  <2>3. After(m, 0) = base[m]
    BY DEF After
  <2>4. ASSUME NEW g, LaidInv(g)  PROVE Tracks(g, m, 0, start)
    <3>1. start.tip = remote /\ DOMAIN start.local = {}
      OBVIOUS
    <3> HIDE DEF start
    <3> QED  BY <2>3, <2>4, <3>1 DEF Tracks, Version, LaidInv, RecentInv
  <2>5. start.tip = remote /\ start.local = <<>> /\ start.stopped = FALSE /\ DOMAIN start.local = {}
    OBVIOUS
  <2> HIDE DEF start
  <2>6. start.tip = Last1(start)
    BY <2>5 DEF Last1
  <2>7. \A id : Fits(At(base[m], id), At(remote, id), At(After(m, 0), id), At(start.tip, id))
    BY <2>3, <2>5 DEF Fits
  <2> QED  BY <2>1, <2>2, <2>4, <2>5, <2>6, <2>7 DEF Replays
<1>4. \A i \in 1..N : \A acc : Replays(m, i - 1, acc) => Replays(m, i, Step(acc, i))
  BY PickFacts
<1> HIDE DEF N, start, Step
<1>5. PICK r : Taken(r, Accs, N, start, step)
  <2>1. step \in Steps(Accs, N)
    BY DEF Steps
  <2> HIDE DEF step
  <2> QED  BY <1>1, <1>3, <2>1, FoldExists
<1>6. r \in [0..N -> Accs] /\ r[0] = start /\ \A i \in 1..N : r[i] = step[i][r[i - 1]]
  BY <1>5 DEF Taken
<1> DEFINE S == {i \in 0..N : Replays(m, i, r[i])}
<1>7. 0 \in S
  BY <1>1, <1>3, <1>6
<1>8. ASSUME NEW i \in 1..N, i - 1 \in S  PROVE i \in S /\ r[i] = Step(r[i - 1], i)
  <2>1. Replays(m, i, Step(r[i - 1], i))
    BY <1>4, <1>8
  <2>2. Step(r[i - 1], i) \in Accs /\ r[i - 1] \in Accs
    <3>1. Step(r[i - 1], i) \in Accs
      BY <2>1 DEF Replays
    <3>2. i - 1 \in 0..N
      BY <1>8
    <3> QED  BY <1>6, <3>1, <3>2
  <2>3. r[i] = Step(r[i - 1], i)
    BY <1>6, <2>2
  <2> QED  BY <1>1, <2>1, <2>3
<1>9. \A i \in 0..N : i \in S
  <2> HIDE DEF S
  <2> QED  BY <1>1, <1>7, <1>8, UpTo
<1>10. \A i \in 1..N : i - 1 \in 0..N
  BY <1>1
<1>11. \A i \in 1..N : r[i] = Step(r[i - 1], i)
  BY <1>8, <1>9, <1>10
<1>12. Is(r)
  BY <1>6, <1>11
<1> DEFINE q == CHOOSE q : Is(q)
<1>13. Is(q)
  BY <1>12
<1> HIDE DEF q
<1> DEFINE Same == {i \in 0..N : q[i] = r[i]}
<1>14. 0 \in Same
  BY <1>1, <1>6, <1>13
<1>15. ASSUME NEW i \in 1..N, i - 1 \in Same  PROVE i \in Same
  BY <1>1, <1>11, <1>13, <1>15
<1>16. q[N] = r[N]
  <2>1. \A i \in 0..N : i \in Same
    <3> HIDE DEF Same
    <3> QED  BY <1>1, <1>14, <1>15, UpTo
  <2> QED  BY <1>1, <2>1
<1>17. Replays(m, N, r[N])
  BY <1>1, <1>9
<1>18. Rebased(m) = r[N]
  BY <1>2, <1>16 DEF q
<1> QED  BY <1>17, <1>18 DEF N

-----------------------------------------------------------------------------
(* The invariant.                                                          *)

OrdinaryStarts == \A s \in Starts : Ordinary(s.note)

LEMMA InitIInv ==
  ASSUME OrdinaryStarts, Init  PROVE IInv
<1>1. PICK s \in Starts : opts = s.opts /\ remote = s.note /\ edits = s.edits
  BY DEF Init
<1>2. opts \in [Machines -> OptionSet]
  BY <1>1, NoteAssumption
<1>3. clock = 1 /\ base = [m \in Machines |-> remote] /\ local = [m \in Machines |-> <<>>]
  BY DEF Init
<1>4. Good(remote) /\ remote \in Cells
  <2>1. Ordinary(remote)
    BY <1>1 DEF OrdinaryStarts
  <2>2. Good(remote)
    BY <1>3, <2>1 DEF Ordinary, Good
  <2> QED  BY <2>2, GoodCells
<1>5. ShapeInv
  <2>1. <<>> \in Seq(Cells)
    OBVIOUS
  <2> QED  BY <1>2, <1>3, <1>4, <2>1 DEF ShapeInv
<1>6. \A m \in Machines : base[m] = remote /\ DOMAIN local[m] = {}
  BY <1>3
<1>7. NotesInv
  BY <1>4, <1>6 DEF NotesInv
<1>8. ChainInv
  BY <1>6, FollowsAgain DEF ChainInv
<1>9. MineInv
  BY <1>6 DEF MineInv
<1> QED  BY <1>5, <1>7, <1>8, <1>9 DEF IInv

\* The tip is a version of the machine.
LEMMA TipFacts ==
  ASSUME IInv, NEW m \in Machines
  PROVE  /\ Good(Tip(m)) /\ Tip(m) \in Cells
         /\ \A x \in Machines \ {m} : Elsewhere(x, Tip(m))
         /\ local[m] = <<>> => Tip(m) = base[m]
         /\ local[m] # <<>> => Len(local[m]) \in DOMAIN local[m] /\ Tip(m) = local[m][Len(local[m])]
         /\ Follows(base[m], Tip(m))
<1> DEFINE N == Len(local[m])
<1>1. /\ N \in Nat /\ DOMAIN local[m] = 1..N /\ local[m] \in Seq(Cells) /\ Tip(m) = After(m, N)
      /\ \A i \in 0..N : Good(After(m, i)) /\ After(m, i) \in Cells
      /\ \A i \in 1..N : Follows(After(m, i - 1), After(m, i))
  BY AfterFacts
<1>2. /\ local[m] = <<>> => Tip(m) = base[m]
      /\ local[m] # <<>> => N \in DOMAIN local[m] /\ Tip(m) = local[m][N]
  BY <1>1 DEF After
<1> HIDE DEF N
<1>3. Good(Tip(m)) /\ Tip(m) \in Cells
  BY <1>1
<1>4. \A x \in Machines \ {m} : Elsewhere(x, Tip(m))
  BY <1>2 DEF Elsewhere
<1>5. Follows(base[m], After(m, N))
  <2> DEFINE S == {i \in 0..N : Follows(base[m], After(m, i))}
  <2>1. 0 \in S
    BY <1>1, FollowsAgain DEF After
  <2>2. ASSUME NEW i \in 1..N, i - 1 \in S  PROVE i \in S
    BY <1>1, <2>2, FollowsAgain
  <2>3. \A i \in 0..N : i \in S
    <3> HIDE DEF S
    <3> QED  BY <1>1, <2>1, <2>2, UpTo
  <2> QED  BY <1>1, <2>3
<1> QED  BY <1>1, <1>2, <1>3, <1>4, <1>5 DEF N

-----------------------------------------------------------------------------
(* A save.                                                                 *)

Saving(m, id, n) ==
  /\ local' = [local EXCEPT ![m] = Append(@, n)] /\ clock' = clock + 1
  /\ opts' = opts /\ base' = base /\ remote' = remote /\ unstamped \subseteq unstamped'
  /\ Edited(Tip(m), id, clock + 1, n)
  /\ \E note \in Saves(Tip(m), clock + 1) :
       n = WithStamp(m, note) \/ (n = note /\ clock + 1 \in unstamped')

LEMMA SavingFacts ==
  ASSUME Quoting = FALSE, IInv, NEW m \in Machines, NEW note \in Saves(Tip(m), clock + 1),
         EditAndCommit(m, note)
  PROVE  \E id, n : Saving(m, id, n)
<1>1. PICK n : /\ local' = [local EXCEPT ![m] = Append(@, n)]
               /\ n = WithStamp(m, note) \/ (n = note /\ clock + 1 \in unstamped')
  BY DEF EditAndCommit
<1>2. clock' = clock + 1 /\ opts' = opts /\ base' = base /\ remote' = remote /\ unstamped \subseteq unstamped'
  BY DEF EditAndCommit
<1>3. clock \in Nat /\ opts[m] \in OptionSet /\ Regular(Tip(m)) /\ Dated(Tip(m), clock)
  BY TipFacts DEF IInv, ShapeInv, Good
<1>4. n = note \/ \E created \in Int, o \in OptionSet : n = Apply(note, created, clock + 1, o)
  <2> DEFINE created == IF opts[m].backfill THEN Born ELSE clock + 1
  <2>1. created \in Int
    BY <1>3 DEF Born
  <2>2. n = note \/ n = Apply(note, created, clock + 1, opts[m])
    BY <1>1 DEF WithStamp
  <2> HIDE DEF created
  <2> QED  BY <1>3, <2>1, <2>2
<1>5. \E id : Edited(Tip(m), id, clock + 1, n)
  BY <1>3, <1>4, EditFacts
<1> QED  BY <1>1, <1>2, <1>5 DEF Saving

LEMMA SavingNew ==
  ASSUME IInv, NEW m \in Machines, NEW id, NEW n, Saving(m, id, n)
  PROVE  /\ local[m] \in Seq(Cells) /\ Len(local[m]) \in Nat /\ n \in Cells
         /\ local' \in [Machines -> Seq(Cells)]
         /\ DOMAIN local'[m] = DOMAIN local[m] \cup {Len(local[m]) + 1}
         /\ local'[m][Len(local[m]) + 1] = n
         /\ \A i \in DOMAIN local[m] : local'[m][i] = local[m][i] /\ i # Len(local[m]) + 1
         /\ \A x \in Machines : x # m => local'[x] = local[x]
         /\ Tip(m)' = n
<1>1. local \in [Machines -> Seq(Cells)]
  BY DEF IInv, ShapeInv
<1>2. n \in Cells
  BY RegularCells DEF Saving, Edited
<1>3. local' = [local EXCEPT ![m] = Append(@, n)]
  BY DEF Saving
<1>4. local[m] \in Seq(Cells) /\ Append(local[m], n) \in Seq(Cells)
  BY <1>1, <1>2
<1>5. local'[m] = Append(local[m], n) /\ \A x \in Machines : x # m => local'[x] = local[x]
  BY <1>1, <1>3
<1>6. local' \in [Machines -> Seq(Cells)]
  BY <1>1, <1>3, <1>4
<1>7. /\ Len(local[m]) \in Nat
      /\ DOMAIN local'[m] = DOMAIN local[m] \cup {Len(local[m]) + 1}
      /\ local'[m][Len(local[m]) + 1] = n
      /\ \A i \in DOMAIN local[m] : local'[m][i] = local[m][i] /\ i # Len(local[m]) + 1
      /\ local'[m] # <<>> /\ Last(local'[m]) = n
  BY <1>2, <1>4, <1>5 DEF Last
<1>8. Tip(m)' = IF local'[m] = <<>> THEN base'[m] ELSE Last(local'[m])
  BY DEF Tip
<1> QED  BY <1>2, <1>4, <1>5, <1>6, <1>7, <1>8

\* A save adds a commit and leaves the others.
LEMMA SavingAfter ==
  ASSUME IInv, NEW m \in Machines, NEW id, NEW n, Saving(m, id, n)
  PROVE  /\ \A x \in Machines : \A i \in DOMAIN local'[x] :
              \/ i \in DOMAIN local[x] /\ local'[x][i] = local[x][i] /\ After(x, i - 1)' = After(x, i - 1)
              \/ x = m /\ local'[x][i] = n /\ After(x, i - 1)' = Tip(m)
         /\ \A v : Version(v)' => Version(v) \/ v = n
<1>1. /\ local \in [Machines -> Seq(Cells)] /\ base' = base /\ remote' = remote
      /\ Len(local[m]) \in Nat
      /\ DOMAIN local'[m] = DOMAIN local[m] \cup {Len(local[m]) + 1}
      /\ local'[m][Len(local[m]) + 1] = n
      /\ \A i \in DOMAIN local[m] : local'[m][i] = local[m][i] /\ i # Len(local[m]) + 1
      /\ \A x \in Machines : x # m => local'[x] = local[x]
  BY SavingNew DEF Saving, IInv, ShapeInv
<1>2. ASSUME NEW x \in Machines, NEW i \in DOMAIN local[x]
      PROVE  /\ i \in DOMAIN local'[x] /\ local'[x][i] = local[x][i]
             /\ After(x, i - 1)' = After(x, i - 1)
  <2>1. local'[x][i] = local[x][i] /\ i - 1 \in DOMAIN local[x] \cup {0}
    <3>1. local[x] \in Seq(Cells)
      BY <1>1
    <3> QED  BY <1>1, <3>1
  <2>2. \A k \in DOMAIN local[x] : local'[x][k] = local[x][k]
    BY <1>1
  <2> QED  BY <1>1, <2>1, <2>2 DEF After
<1>3. ASSUME NEW x \in Machines, NEW i \in DOMAIN local'[x], i \notin DOMAIN local[x]
      PROVE  x = m /\ local'[x][i] = n /\ After(x, i - 1)' = Tip(m)
  <2>1. x = m /\ i = Len(local[m]) + 1 /\ local'[x][i] = n
    BY <1>1, <1>3
  <2>2. Tip(m) = After(m, Len(local[m])) /\ DOMAIN local[m] = 1..Len(local[m])
    BY AfterFacts
  <2>4. After(x, i - 1)' = IF i - 1 = 0 THEN base'[m] ELSE local'[m][i - 1]
    BY <2>1 DEF After
  <2>5. i - 1 = Len(local[m])
    BY <1>1, <2>1
  <2>6. After(m, Len(local[m])) = IF Len(local[m]) = 0 THEN base[m] ELSE local[m][Len(local[m])]
    BY DEF After
  <2>7. Len(local[m]) # 0 => Len(local[m]) \in DOMAIN local[m]
    BY <1>1, <2>2
  <2> QED  BY <1>1, <2>1, <2>2, <2>4, <2>5, <2>6, <2>7
<1> QED  BY <1>1, <1>2, <1>3 DEF Version

\* Later is good as well.
LEMMA GoodLater ==
  ASSUME IInv, NEW v, Good(v), clock' = clock + 1
  PROVE  Good(v)'
<1>1. clock \in Nat /\ v \in Cells
  BY GoodCells DEF IInv, ShapeInv
<1>2. \A i \in DOMAIN v : v[i].val \in Int
  <2>1. \A i \in DOMAIN v : v[i] \in NoteLines
    BY <1>1 DEF Cells
  <2> QED  BY <2>1 DEF NoteLines
<1>3. Dated(v, clock')
  BY <1>1, <1>2 DEF Good, Dated
<1> QED  BY <1>3 DEF Good

LEMMA SavingIInv ==
  ASSUME IInv, NEW m \in Machines, NEW id, NEW n, Saving(m, id, n)
  PROVE  IInv'
<1>0. PICK e \in Nat : e = Len(local[m]) + 1
  BY SavingNew
<1>1. /\ local[m] \in Seq(Cells) /\ Len(local[m]) \in Nat /\ n \in Cells
      /\ local' \in [Machines -> Seq(Cells)]
      /\ DOMAIN local'[m] = DOMAIN local[m] \cup {e}
      /\ local'[m][e] = n
      /\ \A i \in DOMAIN local[m] : local'[m][i] = local[m][i] /\ i # e
      /\ \A x \in Machines : x # m => local'[x] = local[x]
  BY <1>0, SavingNew
<1>2. /\ opts' = opts /\ base' = base /\ remote' = remote /\ clock' = clock + 1
      /\ Edited(Tip(m), id, clock + 1, n)
  BY DEF Saving
<1>3. ShapeInv'
  BY <1>1, <1>2 DEF IInv, ShapeInv
<1>4. NotesInv'
  <2>1. Good(n)'
    BY <1>2 DEF Edited, Good
  <2>2. Good(remote)'
    BY <1>2, GoodLater DEF IInv, NotesInv
  <2>3. ASSUME NEW x \in Machines  PROVE Good(base[x])'
    <3>1. Good(base[x])
      BY DEF IInv, NotesInv
    <3> QED  BY <1>2, <3>1, GoodLater DEF Good
  <2>4. ASSUME NEW x \in Machines, NEW i \in DOMAIN local'[x]  PROVE Good(local[x][i])'
    <3>1. CASE x = m /\ i = e
      BY <1>1, <2>1, <3>1 DEF Good
    <3>2. CASE ~(x = m /\ i = e)
      <4>1. i \in DOMAIN local[x] /\ local'[x][i] = local[x][i]
        BY <1>1, <3>2
      <4>2. Good(local[x][i])
        BY <4>1 DEF IInv, NotesInv
      <4> QED  BY <1>2, <4>1, <4>2, GoodLater DEF Good
    <3> QED  BY <3>1, <3>2
  <2> QED  BY <2>2, <2>3, <2>4 DEF NotesInv
<1>5. ChainInv'
  <2> SUFFICES ASSUME NEW x \in Machines
               PROVE  /\ Follows(base[x]', remote')
                      /\ \A i \in DOMAIN local'[x] : Follows(After(x, i - 1)', local'[x][i])
    BY DEF ChainInv
  <2>1. Follows(base[x]', remote')
    BY <1>2 DEF IInv, ChainInv
  <2>2. ASSUME NEW i \in DOMAIN local[x], local'[x][i] = local[x][i], local[x] \in Seq(Cells),
               \A k \in DOMAIN local[x] : local'[x][k] = local[x][k]
        PROVE  Follows(After(x, i - 1)', local'[x][i])
    <3>1. After(x, i - 1)' = After(x, i - 1)
      BY <1>2, <2>2 DEF After
    <3>2. Follows(After(x, i - 1), local[x][i])
      BY DEF IInv, ChainInv
    <3> QED  BY <2>2, <3>1, <3>2
  <2>3. CASE x # m
    <3>1. local[x] \in Seq(Cells) /\ local'[x] = local[x]
      BY <1>1, <2>3 DEF IInv, ShapeInv
    <3> QED  BY <2>1, <2>2, <3>1
  <2>4. CASE x = m
    <3>1. After(m, e - 1)' = Tip(m)
      <4>1. Tip(m) = After(m, Len(local[m])) /\ e - 1 = Len(local[m]) /\ DOMAIN local[m] = 1..Len(local[m])
        BY <1>0, <1>1, AfterFacts
      <4>2. CASE Len(local[m]) = 0
        <5>1. After(m, e - 1)' = base'[m] /\ After(m, Len(local[m])) = base[m]
          BY <4>1, <4>2 DEF After
        <5> QED  BY <1>2, <4>1, <5>1
      <4>3. CASE Len(local[m]) # 0
        <5>1. Len(local[m]) \in DOMAIN local[m]
          BY <1>1, <4>1, <4>3
        <5>2. /\ After(m, e - 1)' = local'[m][Len(local[m])]
              /\ After(m, Len(local[m])) = local[m][Len(local[m])]
          BY <4>1, <4>3 DEF After
        <5>3. local'[m][Len(local[m])] = local[m][Len(local[m])]
          BY <1>1, <5>1
        <5> QED  BY <4>1, <5>2, <5>3
      <4> QED  BY <4>2, <4>3
    <3>2. Follows(After(m, e - 1)', local'[m][e])
      BY <1>1, <1>2, <3>1 DEF Edited
    <3>3. ASSUME NEW i \in DOMAIN local[m]  PROVE Follows(After(m, i - 1)', local'[m][i])
      <4>1. i \in DOMAIN local[x] /\ local'[x][i] = local[x][i] /\ local[x] \in Seq(Cells)
        BY <1>1, <2>4
      <4>2. \A k \in DOMAIN local[x] : local'[x][k] = local[x][k]
        BY <1>1, <2>4
      <4>3. Follows(After(x, i - 1)', local'[x][i])
        BY <2>2, <4>1, <4>2
      <4> QED  BY <2>4, <4>3
    <3> QED  BY <1>1, <2>1, <2>4, <3>2, <3>3
  <2> QED  BY <2>3, <2>4
<1>6. clock \in Nat /\ Good(Tip(m)) /\ Tip(m) \in Cells
  BY TipFacts DEF IInv, ShapeInv
\* what is new about n is at line id, and new to all
<1>7. ASSUME NEW y, y \notin OwnKeys \cup BlockIds
      PROVE  \/ At(n, y) = At(Tip(m), y)
             \/ At(n, y) = <<>>
             \/ \A v : Good(v) => At(v, y) # At(n, y)
  <2>1. y # id => At(n, y) = At(Tip(m), y)
    BY <1>2, <1>7 DEF Edited
  <2>2. ASSUME y = id, At(n, id) # <<>>, NEW v, Good(v)  PROVE At(v, id) # At(n, id)
    <3>1. PICK l : At(n, id) = <<l>> /\ l.val = clock + 1
      BY <1>2, <2>2 DEF Edited
    <3>2. At(v, id) = <<l>> => l.val <= clock
      BY <1>2, <2>2, GoodCells, DatedCell DEF Edited
    <3> QED  BY <1>6, <3>1, <3>2
  <2> QED  BY <2>1, <2>2
<1>8. \A x \in Machines : \A v : Elsewhere(x, v) => Good(v)
  BY DEF IInv, NotesInv, Elsewhere
<1>9. \A x \in Machines : \A v : Elsewhere(x, v)' => Elsewhere(x, v) \/ (x # m /\ v = n)
  <2> SUFFICES ASSUME NEW x \in Machines, NEW v, Elsewhere(x, v)'
               PROVE  Elsewhere(x, v) \/ (x # m /\ v = n)
    OBVIOUS
  <2>1. \/ v = remote
        \/ \E y \in Machines \ {x} : v = base[y] \/ \E k \in DOMAIN local'[y] : v = local'[y][k]
    BY <1>2 DEF Elsewhere
  <2>2. ASSUME NEW y \in Machines \ {x}, NEW k \in DOMAIN local'[y]
        PROVE  (k \in DOMAIN local[y] /\ local'[y][k] = local[y][k]) \/ (x # m /\ local'[y][k] = n)
    BY <1>1
  <2> QED  BY <2>1, <2>2 DEF Elsewhere
<1>10. MineInv'
  <2> SUFFICES ASSUME NEW x \in Machines, NEW i \in DOMAIN local'[x], NEW y, y \notin OwnKeys \cup BlockIds,
                      At(local'[x][i], y) \notin {At(base[x], y), <<>>}, NEW v, Elsewhere(x, v)'
               PROVE  At(v, y) # At(local'[x][i], y)
    BY <1>2 DEF MineInv, Own
  <2>1. CASE x = m /\ i = e
    <3>1. local'[x][i] = n /\ Elsewhere(m, v) /\ Good(v)
      BY <1>1, <1>8, <1>9, <2>1
    <3>2. CASE At(n, y) = At(Tip(m), y)
      <4>1. local[m] # <<>>
        BY <2>1, <3>1, <3>2, TipFacts
      <4>2. Len(local[m]) \in DOMAIN local[m] /\ Tip(m) = local[m][Len(local[m])]
        BY <4>1, TipFacts
      <4>3. At(Tip(m), y) \in {At(base[m], y), <<>>} \/ Own(m, y, At(Tip(m), y))
        BY <4>2 DEF IInv, MineInv
      <4> QED  BY <2>1, <3>1, <3>2, <4>3 DEF Own
    <3> QED  BY <1>7, <3>1, <3>2
  <2>2. CASE ~(x = m /\ i = e)
    <3>1. i \in DOMAIN local[x] /\ local'[x][i] = local[x][i]
      BY <1>1, <2>2
    <3>2. Own(x, y, At(local[x][i], y))
      BY <3>1 DEF IInv, MineInv
    <3>3. CASE Elsewhere(x, v)
      BY <3>1, <3>2, <3>3 DEF Own
    <3>4. CASE x # m /\ v = n
      <4>1. Elsewhere(x, Tip(m))
        BY <3>4, TipFacts
      <4>2. At(Tip(m), y) # At(local[x][i], y)
        BY <3>2, <4>1 DEF Own
      <4>3. Good(local[x][i])
        BY <3>1 DEF IInv, NotesInv
      <4> QED  BY <1>7, <3>1, <3>4, <4>2, <4>3
    <3> QED  BY <1>9, <3>3, <3>4
  <2> QED  BY <2>1, <2>2
<1> QED  BY <1>3, <1>4, <1>5, <1>10 DEF IInv

-----------------------------------------------------------------------------
(* A pull.                                                                 *)

LEMMA SameIInv ==
  ASSUME IInv, opts' = opts, remote' = remote, base' = base, local' = local, clock' = clock
  PROVE  IInv'
<1>1. ShapeInv' /\ NotesInv'
  BY DEF IInv, ShapeInv, NotesInv, Good
<1>2. \A m, i : After(m, i)' = After(m, i)
  BY DEF After
<1>3. ChainInv'
  BY <1>2 DEF IInv, ChainInv
<1>4. \A m, v : Elsewhere(m, v)' <=> Elsewhere(m, v)
  BY DEF Elsewhere
<1>5. \A m, id, c : Own(m, id, c)' <=> Own(m, id, c)
  BY <1>4 DEF Own
<1>6. MineInv'
  BY <1>5 DEF IInv, MineInv
<1> QED  BY <1>1, <1>3, <1>6 DEF IInv

\* A rebase that ended well.
Pulled(m, acc) ==
  /\ base' = [base EXCEPT ![m] = remote] /\ local' = [local EXCEPT ![m] = acc.local]
  /\ opts' = opts /\ remote' = remote /\ clock' = clock
  /\ Replays(m, Len(local[m]), acc) /\ ~acc.stopped

LEMMA PullFacts ==
  ASSUME IInv, NEW m \in Machines, Pull(m)
  PROVE  \/ opts' = opts /\ remote' = remote /\ base' = base /\ local' = local /\ clock' = clock
         \/ \E acc : Pulled(m, acc)
<1>1. PICK acc : acc = Rebased(m)
  OBVIOUS
<1>2. Replays(m, Len(local[m]), acc)
  BY <1>1, RebasedFacts
<1>3. /\ base' = [base EXCEPT ![m] = Origin(m, acc.stopped)]
      /\ local' = [local EXCEPT ![m] = IF acc.stopped THEN @ ELSE acc.local]
      /\ opts' = opts /\ remote' = remote /\ clock' = clock
  BY <1>1 DEF Pull, PullAs
<1>4. base \in [Machines -> Cells] /\ local \in [Machines -> Seq(Cells)]
  BY DEF IInv, ShapeInv
<1>5. CASE acc.stopped
  BY <1>3, <1>4, <1>5 DEF Origin
<1>6. CASE ~acc.stopped
  BY <1>2, <1>3, <1>6 DEF Origin, Pulled
<1> QED  BY <1>5, <1>6

LEMMA PulledNew ==
  ASSUME IInv, NEW m \in Machines, NEW acc, Pulled(m, acc)
  PROVE  /\ acc.local \in Seq(Cells) /\ Tip(m)' = acc.tip /\ Good(acc.tip)
         /\ base' \in [Machines -> Cells] /\ local' \in [Machines -> Seq(Cells)]
         /\ base'[m] = remote /\ local'[m] = acc.local
         /\ \A x \in Machines : x # m => base'[x] = base[x] /\ local'[x] = local[x]
         /\ \A k \in DOMAIN acc.local :
              /\ Good(acc.local[k]) /\ Follows(Link(acc, k), acc.local[k]) /\ acc.local[k] # Link(acc, k)
              /\ \A id : id \notin OwnKeys => Kept(m, acc.local[k], id)
<1>1. base \in [Machines -> Cells] /\ local \in [Machines -> Seq(Cells)] /\ remote \in Cells
  BY GoodCells DEF IInv, ShapeInv, NotesInv
<1>2. /\ acc \in Accs /\ Good(acc.tip) /\ acc.tip = Last1(acc)
      /\ \A k \in DOMAIN acc.local :
           /\ Good(acc.local[k]) /\ Follows(Link(acc, k), acc.local[k]) /\ acc.local[k] # Link(acc, k)
           /\ \A id : id \notin OwnKeys => Kept(m, acc.local[k], id)
  BY DEF Pulled, Replays
<1>3. acc.local \in Seq(Cells)
  BY <1>2 DEF Accs
<1>4. base' = [base EXCEPT ![m] = remote] /\ local' = [local EXCEPT ![m] = acc.local]
  BY DEF Pulled
<1>5. /\ base' \in [Machines -> Cells] /\ local' \in [Machines -> Seq(Cells)]
      /\ base'[m] = remote /\ local'[m] = acc.local
      /\ \A x \in Machines : x # m => base'[x] = base[x] /\ local'[x] = local[x]
  BY <1>1, <1>3, <1>4
<1>6. Tip(m)' = IF local'[m] = <<>> THEN base'[m] ELSE Last(local'[m])
  BY DEF Tip
<1>7. Tip(m)' = acc.tip
  BY <1>2, <1>5, <1>6 DEF Last1
<1> QED  BY <1>2, <1>3, <1>5, <1>7

LEMMA PulledIInv ==
  ASSUME IInv, NEW m \in Machines, NEW acc, Pulled(m, acc)
  PROVE  IInv'
<1>1. /\ acc.local \in Seq(Cells)
      /\ base' \in [Machines -> Cells] /\ local' \in [Machines -> Seq(Cells)]
      /\ base'[m] = remote /\ local'[m] = acc.local
      /\ \A x \in Machines : x # m => base'[x] = base[x] /\ local'[x] = local[x]
      /\ \A k \in DOMAIN acc.local :
           /\ Good(acc.local[k]) /\ Follows(Link(acc, k), acc.local[k]) /\ acc.local[k] # Link(acc, k)
           /\ \A id : id \notin OwnKeys => Kept(m, acc.local[k], id)
  BY PulledNew
<1>2. opts' = opts /\ remote' = remote /\ clock' = clock
  BY DEF Pulled
<1>3. ShapeInv'
  BY <1>1, <1>2 DEF IInv, ShapeInv
<1>4. \A v : Good(v)' <=> Good(v)
  BY <1>2 DEF Good
<1>5. NotesInv'
  <2>1. Good(remote') /\ \A x \in Machines : Good(base'[x])
    BY <1>1, <1>2 DEF IInv, NotesInv
  <2>2. \A x \in Machines : \A i \in DOMAIN local'[x] : Good(local'[x][i])
    BY <1>1 DEF IInv, NotesInv
  <2> QED  BY <1>2, <2>1, <2>2 DEF NotesInv, Good
<1>6. ChainInv'
  <2> SUFFICES ASSUME NEW x \in Machines
               PROVE  /\ Follows(base[x]', remote')
                      /\ \A i \in DOMAIN local'[x] : Follows(After(x, i - 1)', local'[x][i])
    BY DEF ChainInv
  <2>1. CASE x # m
    <3>1. \A i : After(x, i)' = After(x, i)
      BY <1>1, <2>1 DEF After
    <3> QED  BY <1>1, <1>2, <2>1, <3>1 DEF IInv, ChainInv
  <2>2. CASE x = m
    <3>1. Follows(base'[m], remote')
      BY <1>1, <1>2, FollowsAgain
    <3>2. ASSUME NEW i \in DOMAIN local'[m]  PROVE Follows(After(m, i - 1)', local'[m][i])
      <4>1. i \in DOMAIN acc.local /\ i \in Nat
        BY <1>1
      <4>2. After(m, i - 1)' = Link(acc, i)
        BY <1>1, <4>1 DEF After, Link
      <4> QED  BY <1>1, <4>1, <4>2
    <3> QED  BY <2>2, <3>1, <3>2
  <2> QED  BY <2>1, <2>2
<1>7. MineInv'
  <2> SUFFICES ASSUME NEW x \in Machines, NEW i \in DOMAIN local'[x], NEW y, y \notin OwnKeys \cup BlockIds,
                      At(local'[x][i], y) \notin {At(base'[x], y), <<>>}, NEW v, Elsewhere(x, v)'
               PROVE  At(v, y) # At(local'[x][i], y)
    BY DEF MineInv, Own
  <2>1. \/ v = remote
        \/ \E z \in Machines \ {x} : v = base'[z] \/ \E k \in DOMAIN local'[z] : v = local'[z][k]
    BY <1>2 DEF Elsewhere
  <2>2. CASE x = m
    <3>1. Elsewhere(m, v)
      BY <1>1, <2>1, <2>2 DEF Elsewhere
    <3>2. i \in DOMAIN acc.local /\ local'[x][i] = acc.local[i] /\ base'[x] = remote
      BY <1>1, <2>2
    <3>3. Kept(m, acc.local[i], y)
      BY <1>1, <3>2
    <3>4. At(acc.local[i], y) \notin {At(remote, y), <<>>}
      BY <3>2
    <3>5. PICK j \in DOMAIN local[m] : At(acc.local[i], y) = At(local[m][j], y) /\ At(remote, y) = At(base[m], y)
      BY <3>3, <3>4 DEF Kept
    <3>6. Own(m, y, At(local[m][j], y))
      BY <3>4, <3>5 DEF IInv, MineInv
    <3> QED  BY <3>1, <3>2, <3>5, <3>6 DEF Own
  <2>3. CASE x # m
    <3>1. i \in DOMAIN local[x] /\ local'[x][i] = local[x][i] /\ base'[x] = base[x]
      BY <1>1, <2>3
    <3>2. Own(x, y, At(local[x][i], y))
      BY <3>1 DEF IInv, MineInv
    <3>3. CASE Elsewhere(x, v)
      BY <3>1, <3>2, <3>3 DEF Own
    <3>4. CASE \E k \in DOMAIN acc.local : v = acc.local[k]
      <4>1. Kept(m, v, y)
        BY <1>1, <3>4
      <4>2. Elsewhere(x, remote) /\ \A j \in DOMAIN local[m] : Elsewhere(x, local[m][j])
        BY <2>3 DEF Elsewhere
      <4> QED  BY <3>1, <3>2, <4>1, <4>2 DEF Kept, Own
    <3>5. Elsewhere(x, v) \/ \E k \in DOMAIN acc.local : v = acc.local[k]
      BY <1>1, <2>1 DEF Elsewhere
    <3> QED  BY <3>3, <3>4, <3>5
  <2> QED  BY <2>2, <2>3
<1> QED  BY <1>3, <1>5, <1>6, <1>7 DEF IInv

-----------------------------------------------------------------------------
(* A push.                                                                 *)

LEMMA PushIInv ==
  ASSUME IInv, NEW m \in Machines, Push(m)
  PROVE  IInv'
<1>1. PICK tip : tip = Tip(m)
  OBVIOUS
<1>2. /\ remote' = tip /\ base' = [base EXCEPT ![m] = tip] /\ local' = [local EXCEPT ![m] = <<>>]
      /\ opts' = opts /\ clock' = clock /\ base[m] = remote
  BY <1>1 DEF Push
<1>3. /\ Good(tip) /\ tip \in Cells /\ Follows(remote, tip)
      /\ \A x \in Machines \ {m} : Elsewhere(x, tip)
  BY <1>1, <1>2, TipFacts
<1>4. base \in [Machines -> Cells] /\ local \in [Machines -> Seq(Cells)] /\ <<>> \in Seq(Cells)
  BY DEF IInv, ShapeInv
<1>5. /\ base' \in [Machines -> Cells] /\ local' \in [Machines -> Seq(Cells)]
      /\ base'[m] = tip /\ local'[m] = <<>> /\ DOMAIN local'[m] = {}
      /\ \A x \in Machines : x # m => base'[x] = base[x] /\ local'[x] = local[x]
  BY <1>2, <1>3, <1>4
<1>6. ShapeInv'
  BY <1>2, <1>5 DEF IInv, ShapeInv
<1>7. NotesInv'
  <2>1. Good(remote') /\ \A x \in Machines : Good(base'[x])
    BY <1>2, <1>3, <1>5 DEF IInv, NotesInv
  <2>2. \A x \in Machines : \A i \in DOMAIN local'[x] : Good(local'[x][i])
    BY <1>5 DEF IInv, NotesInv
  <2> QED  BY <1>2, <2>1, <2>2 DEF NotesInv, Good
<1>8. ChainInv'
  <2> SUFFICES ASSUME NEW x \in Machines
               PROVE  /\ Follows(base[x]', remote')
                      /\ \A i \in DOMAIN local'[x] : Follows(After(x, i - 1)', local'[x][i])
    BY DEF ChainInv
  <2>1. CASE x # m
    <3>1. \A i : After(x, i)' = After(x, i)
      BY <1>5, <2>1 DEF After
    <3>2. Follows(base[x], remote)
      BY DEF IInv, ChainInv
    <3>3. Follows(base[x], tip)
      BY <1>3, <3>2, FollowsAgain
    <3> QED  BY <1>2, <1>5, <2>1, <3>1, <3>3 DEF IInv, ChainInv
  <2>2. CASE x = m
    BY <1>2, <1>5, <2>2, FollowsAgain
  <2> QED  BY <2>1, <2>2
<1>9. MineInv'
  <2> SUFFICES ASSUME NEW x \in Machines, NEW i \in DOMAIN local'[x], NEW y, y \notin OwnKeys \cup BlockIds,
                      At(local'[x][i], y) \notin {At(base'[x], y), <<>>}, NEW v, Elsewhere(x, v)'
               PROVE  At(v, y) # At(local'[x][i], y)
    BY DEF MineInv, Own
  <2>1. \/ v = remote'
        \/ \E z \in Machines \ {x} : v = base'[z] \/ \E k \in DOMAIN local'[z] : v = local'[z][k]
    BY DEF Elsewhere
  <2>2. x # m
    BY <1>5
  <2>3. i \in DOMAIN local[x] /\ local'[x][i] = local[x][i] /\ base'[x] = base[x]
    BY <1>5, <2>2
  <2>4. Own(x, y, At(local[x][i], y))
    BY <2>3 DEF IInv, MineInv
  <2>5. v = tip \/ Elsewhere(x, v)
    BY <1>2, <1>5, <2>1 DEF Elsewhere
  <2>6. Elsewhere(x, v)
    BY <1>3, <2>2, <2>5
  <2> QED  BY <2>3, <2>4, <2>6 DEF Own
<1> QED  BY <1>6, <1>7, <1>8, <1>9 DEF IInv

-----------------------------------------------------------------------------
(* The theorems.                                                           *)

LEMMA StepIInv ==
  ASSUME Quoting = FALSE, IInv, [Next]_vars  PROVE IInv'
<1>1. CASE UNCHANGED vars
  BY <1>1, SameIInv DEF vars
<1>2. ASSUME NEW m \in Machines, NEW note \in Saves(Tip(m), clock + 1), EditAndCommit(m, note)
      PROVE  IInv'
  BY <1>2, SavingFacts, SavingIInv
<1>3. ASSUME NEW m \in Machines, Pull(m)  PROVE IInv'
  BY <1>3, PullFacts, SameIInv, PulledIInv
<1>4. ASSUME NEW m \in Machines, Push(m)  PROVE IInv'
  BY <1>4, PushIInv
<1> QED  BY <1>1, <1>2, <1>3, <1>4 DEF Next

\* Every version of the note is one that the merges and the stamps can be
\* relied on for, lines only become what they can become, and what a machine
\* has not pushed nobody else has.
THEOREM VersionsStaySound ==
  ASSUME Quoting = FALSE, OrdinaryStarts  PROVE Spec => []IInv
<1>1. Init => IInv
  BY InitIInv
<1>2. IInv /\ [Next]_vars => IInv'
  BY StepIInv
<1> QED  BY <1>1, <1>2, PTL DEF Spec

\* What one pull or push keeps.
Spared(m) ==
  base[m]' # base[m] =>
    \A id \in Others(base[m]) \cup Others(remote) \cup Others(Tip(m)) :
      LET was == At(base[m], id)
          now == At(Tip(m)', id)
      IN /\ At(remote, id) # was => now = At(remote, id)
         /\ At(Tip(m), id) # was => now = At(Tip(m), id)

LEMMA StepSpares ==
  ASSUME Quoting = FALSE, IInv, Next, NEW m \in Machines
  PROVE  Spared(m)
<1> SUFFICES ASSUME base[m]' # base[m]
             PROVE  \A id : id \notin OwnKeys =>
                      LET was == At(base[m], id)
                          now == At(Tip(m)', id)
                      IN /\ At(remote, id) # was => now = At(remote, id)
                         /\ At(Tip(m), id) # was => now = At(Tip(m), id)
  BY DEF Spared, Others
<1>1. ASSUME NEW x \in Machines, NEW note \in Saves(Tip(x), clock + 1), EditAndCommit(x, note)
      PROVE  FALSE
  BY <1>1 DEF EditAndCommit
<1>2. ASSUME NEW x \in Machines, Pull(x)
      PROVE  \E acc : Pulled(m, acc)
  <2>1. PICK acc : Pulled(x, acc)
    BY <1>2, PullFacts
  <2>2. x = m
    BY <2>1, PulledNew
  <2> QED  BY <2>1, <2>2
<1>3. ASSUME NEW acc, Pulled(m, acc)
      PROVE  \A id : id \notin OwnKeys =>
               /\ At(remote, id) # At(base[m], id) => At(Tip(m)', id) = At(remote, id)
               /\ At(Tip(m), id) # At(base[m], id) => At(Tip(m)', id) = At(Tip(m), id)
  <2>1. Tip(m)' = acc.tip
    BY <1>3, PulledNew
  <2>2. Tip(m) = After(m, Len(local[m]))
    BY AfterFacts
  <2>3. \A id : id \notin OwnKeys => Fits(At(base[m], id), At(remote, id), At(Tip(m), id), At(acc.tip, id))
    BY <1>3, <2>2 DEF Pulled, Replays
  <2> QED  BY <2>1, <2>3 DEF Fits
<1>4. ASSUME NEW x \in Machines, Push(x)
      PROVE  Tip(m)' = Tip(m) /\ base[m] = remote
  <2>1. base \in [Machines -> Cells] /\ local \in [Machines -> Seq(Cells)]
    BY DEF IInv, ShapeInv
  <2>2. PICK tip : tip = Tip(x)
    OBVIOUS
  <2>3. base' = [base EXCEPT ![x] = tip] /\ local' = [local EXCEPT ![x] = <<>>] /\ base[x] = remote
    BY <1>4, <2>2 DEF Push
  <2>4. x = m
    BY <2>1, <2>3
  <2>5. base'[m] = tip /\ local'[m] = <<>>
    BY <2>1, <2>3, <2>4
  <2> QED  BY <2>2, <2>3, <2>4, <2>5 DEF Tip
<1>5. (\E acc : Pulled(m, acc)) \/ (Tip(m)' = Tip(m) /\ base[m] = remote)
  BY <1>1, <1>2, <1>4 DEF Next
<1> QED  BY <1>3, <1>5

\* A rebase that ends well has every line that either side wrote, changed or
\* deleted exactly as that side left it, and never takes one of two lines that
\* both wrote differently: for any number of machines and commits, notes of any
\* length, and whatever git's merges conflict about (gitx Rebase,
\* conflict.go ResolveConflict, "a wrong projection would silently discard one
\* side's work").
THEOREM NoEditIsLost ==
  ASSUME Quoting = FALSE, OrdinaryStarts  PROVE Spec => NoEditLost
<1>1. IInv /\ [Next]_vars => [\A m \in Machines : Spared(m)]_vars
  BY StepSpares
<1>2. [\A m \in Machines : Spared(m)]_vars <=>
      [\A m \in Machines : base[m]' # base[m] =>
         \A id \in Others(base[m]) \cup Others(remote) \cup Others(Tip(m)) :
           LET was == At(base[m], id)
               now == At(Tip(m)', id)
           IN /\ At(remote, id) # was => now = At(remote, id)
              /\ At(Tip(m), id) # was => now = At(Tip(m), id)]_vars
  BY DEF Spared
<1>3. Spec => []IInv
  BY VersionsStaySound
<1> QED  BY <1>1, <1>2, <1>3, PTL DEF Spec, NoEditLost

\* A step leaves the commits of a machine, appends one that changes the note,
\* or puts others in their place.
LEMMA StepTypeOK ==
  ASSUME Quoting = FALSE, IInv, TypeOK, [Next]_vars  PROVE TypeOK'
<1>1. PICK s \in Starts : opts = s.opts /\ edits \in Nat /\ clock = s.edits - edits + 1
  BY DEF TypeOK
<1>2. s.edits \in Nat
  BY NoteAssumption
<1>3. IInv'
  BY StepIInv
<1>4. /\ remote' \in Seq(NoteLines) /\ base' \in [Machines -> Seq(NoteLines)]
      /\ local' \in [Machines -> Seq(Seq(NoteLines))]
  <2>1. (Good(remote))'
    BY <1>3 DEF IInv, NotesInv
  <2>2. remote' \in Cells
    BY <2>1, RegularCells DEF Good
  <2> QED  BY <1>3, <2>2 DEF IInv, ShapeInv, Cells
<1>5. blocked \in [Machines -> BOOLEAN] /\ local \in [Machines -> Seq(Cells)]
  BY DEF TypeOK, Cells
<1>0. unstamped' \subseteq Nat
  <2>1. unstamped \subseteq Nat /\ clock + 1 \in Nat
    BY DEF TypeOK, IInv, ShapeInv
  <2> QED  BY <2>1 DEF Next, EditAndCommit, Pull, Push, vars
<1> DEFINE Differ == \A m \in Machines : \A i \in DOMAIN local[m] : local[m][i] # Before(m, i)
           Timed == \E t \in Starts : opts = t.opts /\ edits \in Nat /\ clock = t.edits - edits + 1
<1>6. Differ
  BY DEF TypeOK
<1>7. ASSUME opts' = opts, edits' = edits, clock' = clock  PROVE Timed'
  BY <1>1, <1>7
<1>8. CASE UNCHANGED vars
  <2>1. Differ'
    BY <1>6, <1>8 DEF vars, Before
  <2>2. Timed' /\ blocked' \in [Machines -> BOOLEAN]
    BY <1>5, <1>7, <1>8 DEF vars
  <2> QED  BY <1>0, <1>4, <2>1, <2>2 DEF TypeOK
<1>9. ASSUME NEW m \in Machines, NEW note \in Saves(Tip(m), clock + 1), EditAndCommit(m, note)
      PROVE  TypeOK'
  <2>1. PICK id, n : Saving(m, id, n)
    BY <1>9, SavingFacts
  <2>2. PICK e : e = Len(local[m]) + 1
    OBVIOUS
  <2>3. /\ local[m] \in Seq(Cells) /\ Len(local[m]) \in Nat
        /\ DOMAIN local'[m] = DOMAIN local[m] \cup {e} /\ local'[m][e] = n
        /\ \A i \in DOMAIN local[m] : local'[m][i] = local[m][i] /\ i # e
        /\ \A x \in Machines : x # m => local'[x] = local[x]
    BY <2>1, <2>2, SavingNew
  <2>4. base' = base /\ n # Tip(m)
    BY <2>1 DEF Saving, Edited
  <2>5. Differ'
    <3> SUFFICES ASSUME NEW x \in Machines, NEW i \in DOMAIN local'[x]  PROVE local'[x][i] # Before(x, i)'
      OBVIOUS
    <3>1. Before(x, i)' = IF i = 1 THEN base'[x] ELSE local'[x][i - 1]
      BY DEF Before
    <3>2. CASE x = m /\ i = e
      <4>1. Tip(m) = IF local[m] = <<>> THEN base[m] ELSE local[m][Len(local[m])]
        BY DEF Tip, Last
      <4>2. CASE local[m] = <<>>
        <5>1. Before(x, i)' = Tip(m)
          BY <2>2, <2>4, <3>1, <3>2, <4>1, <4>2
        <5> QED  BY <2>3, <2>4, <3>2, <5>1
      <4>3. CASE local[m] # <<>>
        <5>1. Len(local[m]) \in DOMAIN local[m] /\ e # 1 /\ e - 1 = Len(local[m])
          BY <2>2, <2>3, <4>3
        <5>2. Before(x, i)' = Tip(m)
          BY <2>3, <3>1, <3>2, <4>1, <4>3, <5>1
        <5> QED  BY <2>3, <2>4, <3>2, <5>2
      <4> QED  BY <4>2, <4>3
    <3>3. CASE ~(x = m /\ i = e)
      <4>1. local[x] \in Seq(Cells) /\ i \in DOMAIN local[x] /\ local'[x][i] = local[x][i]
        BY <1>5, <2>3, <3>3
      <4>2. i # 1 => i - 1 \in DOMAIN local[x]
        BY <4>1
      <4>3. i # 1 => local'[x][i - 1] = local[x][i - 1]
        BY <2>3, <4>2
      <4>4. Before(x, i)' = Before(x, i)
        BY <2>4, <3>1, <4>3 DEF Before
      <4> QED  BY <1>6, <4>1, <4>4
    <3> QED  BY <3>2, <3>3
  <2>6. Timed'
    <3>1. opts' = opts /\ edits > 0 /\ edits' = edits - 1 /\ clock' = clock + 1
      BY <1>9 DEF EditAndCommit
    <3>2. edits' \in Nat /\ clock' = s.edits - edits' + 1
      BY <1>1, <1>2, <3>1
    <3> QED  BY <1>1, <3>1, <3>2
  <2>7. blocked' \in [Machines -> BOOLEAN]
    BY <1>5, <1>9 DEF EditAndCommit
  <2> QED  BY <1>0, <1>4, <2>5, <2>6, <2>7 DEF TypeOK
<1>10. ASSUME NEW m \in Machines, Pull(m)  PROVE TypeOK'
  <2>1. Timed'
    BY <1>7, <1>10 DEF Pull
  <2>2. blocked' \in [Machines -> BOOLEAN]
    <3>1. PICK acc : acc = Rebased(m)
      OBVIOUS
    <3>2. acc.stopped \in BOOLEAN
      BY <3>1, RebasedFacts DEF Replays, Accs
    <3>3. blocked' = [blocked EXCEPT ![m] = acc.stopped]
      BY <1>10, <3>1 DEF Pull, PullAs
    <3> QED  BY <1>5, <3>2, <3>3
  <2>3. CASE base' = base /\ local' = local
    <3>1. Differ'
      BY <1>6, <2>3 DEF Before
    <3> QED  BY <1>0, <1>4, <2>1, <2>2, <3>1 DEF TypeOK
  <2>4. CASE \E acc : Pulled(m, acc)
    <3>1. PICK acc : Pulled(m, acc)
      BY <2>4
    <3>2. /\ base'[m] = remote /\ local'[m] = acc.local
          /\ \A x \in Machines : x # m => base'[x] = base[x] /\ local'[x] = local[x]
          /\ \A k \in DOMAIN acc.local : acc.local[k] # Link(acc, k)
      BY <3>1, PulledNew
    <3>3. Differ'
      <4> SUFFICES ASSUME NEW x \in Machines, NEW i \in DOMAIN local'[x]  PROVE local'[x][i] # Before(x, i)'
        OBVIOUS
      <4>1. Before(x, i)' = IF i = 1 THEN base'[x] ELSE local'[x][i - 1]
        BY DEF Before
      <4>2. CASE x = m
        BY <3>2, <4>1, <4>2 DEF Link
      <4>3. CASE x # m
        BY <1>6, <3>2, <4>1, <4>3 DEF Before
      <4> QED  BY <4>2, <4>3
    <3> QED  BY <1>0, <1>4, <2>1, <2>2, <3>3 DEF TypeOK
  <2> QED  BY <1>10, <2>3, <2>4, PullFacts
<1>11. ASSUME NEW m \in Machines, Push(m)  PROVE TypeOK'
  <2>1. Timed'
    BY <1>7, <1>11 DEF Push
  <2>2. base \in [Machines -> Cells]
    BY DEF IInv, ShapeInv
  <2>3. PICK tip : tip = Tip(m)
    OBVIOUS
  <2>4. base' = [base EXCEPT ![m] = tip] /\ local' = [local EXCEPT ![m] = <<>>] /\ blocked' = blocked
    BY <1>11, <2>3 DEF Push
  <2>5. /\ local'[m] = <<>>
        /\ \A x \in Machines : x # m => base'[x] = base[x] /\ local'[x] = local[x]
    BY <1>5, <2>2, <2>4
  <2>6. Differ'
    <3> SUFFICES ASSUME NEW x \in Machines, NEW i \in DOMAIN local'[x]  PROVE local'[x][i] # Before(x, i)'
      OBVIOUS
    <3>1. x # m
      BY <2>5
    <3>2. Before(x, i)' = Before(x, i)
      BY <2>5, <3>1 DEF Before
    <3> QED  BY <1>6, <2>5, <3>1, <3>2
  <2> QED  BY <1>0, <1>4, <1>5, <2>1, <2>4, <2>6 DEF TypeOK
<1> QED  BY <1>8, <1>9, <1>10, <1>11 DEF Next

\* The options stay, the clock goes with the saves, every version is a note,
\* and no machine has a commit that changes nothing, also after its commits
\* were replayed: git drops those that add nothing, and stampFile leaves no
\* note as it was that its user changed (syncer.go commit, gitx Rebase).
THEOREM NoCommitIsEmpty ==
  ASSUME Quoting = FALSE, OrdinaryStarts  PROVE Spec => []TypeOK
<1>1. Init => TypeOK
  <2> SUFFICES ASSUME Init  PROVE TypeOK
    OBVIOUS
  <2>1. PICK s \in Starts : opts = s.opts /\ remote = s.note /\ edits = s.edits
    BY DEF Init
  <2>2. clock = s.edits - edits + 1 /\ edits \in Nat
    BY <2>1, NoteAssumption DEF Init
  <2>3. /\ remote \in Seq(NoteLines) /\ base \in [Machines -> Seq(NoteLines)]
        /\ local \in [Machines -> Seq(Seq(NoteLines))]
    <3>1. Good(remote) /\ ShapeInv
      BY InitIInv DEF IInv, NotesInv
    <3> QED  BY <3>1, RegularCells DEF Good, ShapeInv, Cells
  <2>4. blocked \in [Machines -> BOOLEAN] /\ unstamped = {} /\ \A m \in Machines : DOMAIN local[m] = {}
    BY DEF Init
  <2> QED  BY <2>1, <2>2, <2>3, <2>4 DEF TypeOK
<1>2. IInv /\ TypeOK /\ [Next]_vars => TypeOK'
  BY StepTypeOK
<1>3. Spec => []IInv
  BY VersionsStaySound
<1> QED  BY <1>1, <1>2, <1>3, PTL DEF Spec

-----------------------------------------------------------------------------
(* Where the notes were tidy at first.                                     *)

TidyStarts == \A s \in Starts : Tidy(s.note)

LEMMA VersionFacts ==
  ASSUME IInv, NEW v, Version(v)
  PROVE  Good(v) /\ Regular(v) /\ v \in Cells
<1>1. Good(v)
  BY DEF IInv, NotesInv, Version
<1> QED  BY <1>1, GoodCells

LEMMA FitFacts ==
  ASSUME IInv, NEW g, LaidInv(g), NEW v, Version(v)
  PROVE  /\ Frame(g) /\ Fit(g, v) /\ Laid(g, v) /\ Regular(v) /\ v \in Cells /\ Good(v)
         /\ g.closed => OwnDated(v, clock)
  BY VersionFacts DEF LaidInv, Fit

LEMMA FitAges ==
  ASSUME NEW g, g.closed, NEW u, NEW v, NEW w, Good(u), Good(v), Good(w),
         Fit(g, u), Fit(g, v), Fit(g, w)
  PROVE  Aged(u, u) /\ (Aged(u, v) /\ Aged(v, w) => Aged(u, w))
<1>1. u \in Cells /\ v \in Cells /\ w \in Cells
  BY GoodCells
<1>2. Once(Ids(u)) /\ Once(Ids(v)) /\ Once(Ids(w))
  BY DEF Fit, Laid, LaidIds
<1>3. OwnDated(u, clock) /\ OwnDated(v, clock) /\ OwnDated(w, clock)
  BY DEF Fit
<1> QED  BY <1>1, <1>2, <1>3, AgedFacts

LEMMA InitLaid ==
  ASSUME OrdinaryStarts, TidyStarts, Init  PROVE \E g : LaidInv(g)
<1>1. PICK s \in Starts : remote = s.note
  BY DEF Init
<1>2. /\ clock = 1 /\ \A m \in Machines : base[m] = remote /\ DOMAIN local[m] = {}
      /\ Good(remote) /\ Regular(remote) /\ Tidy(remote)
  <2>1. Good(remote)
    BY InitIInv DEF IInv, NotesInv
  <2>2. clock = 1 /\ \A m \in Machines : base[m] = remote /\ DOMAIN local[m] = {}
    BY DEF Init
  <2> QED  BY <1>1, <2>1, <2>2 DEF TidyStarts, Good
<1>3. PICK g : Frame(g) /\ Laid(g, remote)
  BY <1>2, TidyLaid
<1>4. OwnDated(remote, clock)
  <2> SUFFICES ASSUME NEW i \in DOMAIN remote, remote[i].id \in OwnKeys
               PROVE  Junk <= remote[i].val /\ remote[i].val <= 1
    BY <1>2 DEF OwnDated, OwnIn
  <2>1. remote[i].val \in Junk..1
    BY <1>2 DEF Tidy
  <2> QED  BY <2>1 DEF Junk
<1>5. Fit(g, remote)
  BY <1>3, <1>4 DEF Fit
<1>6. \A v : Version(v) => v = remote
  BY <1>2 DEF Version
<1>7. g.closed => Aged(remote, remote)
  BY <1>2, <1>5, FitAges
<1>8. LaidInv(g)
  BY <1>2, <1>3, <1>5, <1>6, <1>7 DEF LaidInv
<1> QED  BY <1>8

\* From where the local commits begin to the last of them.
LEMMA TipFits ==
  ASSUME IInv, NEW g, LaidInv(g), NEW m \in Machines
  PROVE  /\ Version(Tip(m)) /\ Fit(g, Tip(m)) /\ Good(Tip(m))
         /\ g.closed => Aged(base[m], Tip(m))
<1> DEFINE N == Len(local[m])
<1>1. /\ N \in Nat /\ Tip(m) = After(m, N) /\ Good(Tip(m))
      /\ \A i \in 0..N : Good(After(m, i)) /\ Fit(g, After(m, i))
      /\ \A i \in 1..N : g.closed => Aged(After(m, i - 1), After(m, i))
  <2>1. /\ N \in Nat /\ Tip(m) = After(m, N) /\ Good(Tip(m))
        /\ \A i \in 0..N : Good(After(m, i))
    BY AfterFacts, TipFacts
  <2>2. ASSUME NEW i \in 0..N  PROVE Fit(g, After(m, i)) /\ (i # 0 /\ g.closed => Aged(After(m, i - 1), After(m, i)))
    BY <2>2, AfterFits
  <2>3. \A i \in 1..N : i \in 0..N /\ i # 0
    BY <2>1
  <2> QED  BY <2>1, <2>2, <2>3
<1>2. Version(Tip(m))
  BY TipFacts DEF Version
<1> HIDE DEF N
<1>3. ASSUME g.closed  PROVE Aged(base[m], Tip(m))
  <2> DEFINE S == {i \in 0..N : Aged(base[m], After(m, i))}
  <2>1. After(m, 0) = base[m] /\ 0 \in 0..N /\ N \in 0..N
    BY <1>1 DEF After
  <2>2. 0 \in S
    BY <1>1, <1>3, <2>1, FitAges
  <2>3. ASSUME NEW i \in 1..N, i - 1 \in S  PROVE i \in S
    <3>1. i \in 0..N /\ i - 1 \in 0..N
      BY <1>1
    <3>2. Good(base[m]) /\ Good(After(m, i - 1)) /\ Good(After(m, i))
      BY <1>1, <2>1, <3>1
    <3>3. Fit(g, base[m]) /\ Fit(g, After(m, i - 1)) /\ Fit(g, After(m, i))
      BY <1>1, <2>1, <3>1
    <3>4. Aged(base[m], After(m, i - 1)) /\ Aged(After(m, i - 1), After(m, i))
      BY <1>1, <1>3, <2>3
    <3>5. Aged(base[m], After(m, i))
      BY <1>3, <3>2, <3>3, <3>4, FitAges
    <3> QED  BY <3>1, <3>5
  <2>4. \A i \in 0..N : i \in S
    <3> HIDE DEF S
    <3> QED  BY <1>1, <2>2, <2>3, UpTo
  <2> QED  BY <1>1, <2>1, <2>4
<1>4. Fit(g, Tip(m))
  <2>1. N \in 0..N
    BY <1>1
  <2> QED  BY <1>1, <2>1
<1> QED  BY <1>1, <1>2, <1>3, <1>4

BlockIn(v) == At(v, "open") # <<>>

\* What a save writes, and what its stamp makes of it.
LEMMA SavingFits ==
  ASSUME Quoting = FALSE, IInv, NEW g, LaidInv(g), NEW m \in Machines, NEW id, NEW n, Saving(m, id, n)
  PROVE  /\ Fit(g, n)' /\ (g.closed => Aged(Tip(m), n))
         /\ g.closed /\ opts[m].modified /\ (opts[m].create \/ BlockIn(Tip(m))) =>
              \/ Val(n, "modified") = clock + 1
              \/ clock + 1 \in unstamped' /\ Val(n, "modified") = Val(Tip(m), "modified")
         /\ ~opts[m].create /\ ~BlockIn(Tip(m)) => ~BlockIn(n)
<1> DEFINE o == opts[m]
           created == IF o.backfill THEN Born ELSE clock + 1
           v == Tip(m)
           t == clock + 1
<1>1. PICK note \in Saves(v, t) : n = Apply(note, created, t, o) \/ (n = note /\ t \in unstamped')
  BY DEF Saving, WithStamp
<1>2. Good(v) /\ Regular(v) /\ Fit(g, v) /\ Frame(g) /\ Laid(g, v) /\ (g.closed => OwnDated(v, clock))
  BY TipFits, FitFacts
<1>3. /\ clock \in Nat /\ o \in OptionSet /\ created \in Int /\ 0 < created /\ created <= t
      /\ t \in Int /\ clock < t /\ 0 < t /\ clock' = t
  BY DEF IInv, ShapeInv, Born, Saving
<1> HIDE DEF v, t, created, o
<1>4. PICK x : Saved(v, x, t, note)
  BY <1>2, <1>3, SaveFacts
<1>5. Regular(note) /\ Laid(g, note)
  BY <1>2, <1>3, <1>4, SaveLaid DEF Saved
<1>6. Laid(g, n)
  BY <1>1, <1>2, <1>3, <1>5, ApplyLaid
<1>7. ASSUME g.closed
      PROVE  /\ OwnDated(n, t) /\ Aged(v, n)
             /\ o.modified /\ (Opened(note) \/ o.create) =>
                  \/ Val(n, "modified") = t
                  \/ t \in unstamped' /\ Val(n, "modified") = Val(v, "modified")
  <2>1. Regular(v) /\ Laid(g, v) /\ OwnDated(v, clock) /\ Frame(g) /\ Regular(note)
    BY <1>2, <1>5, <1>7
  <2>2. /\ clock \in Int /\ t \in Int /\ clock < t /\ 0 < t
        /\ created \in Int /\ 0 < created /\ created <= t /\ o \in OptionSet
    BY <1>3
  <2>3. CASE n = Apply(note, created, t, o)
    <3>1. note \in Saves(v, t) /\ Quoting = FALSE /\ n = Apply(note, created, t, o)
      BY <2>3
    <3>2. OwnDated(n, t)
      BY <1>7, <2>1, <2>2, <3>1, StampAges
    <3>3. Aged(v, n)
      BY <1>7, <2>1, <2>2, <3>1, StampAges
    <3>4. ASSUME o.modified, Opened(note) \/ o.create  PROVE Val(n, "modified") = t
      BY <1>7, <2>1, <2>2, <3>1, <3>4, StampIsOfSave
    <3> QED  BY <3>2, <3>3, <3>4
  <2>4. CASE n = note /\ t \in unstamped'
    <3>1. OwnDated(note, t) /\ Aged(v, note) /\ \A k \in OwnKeys : Val(note, k) = Val(v, k)
      BY <1>7, <2>1, <2>2, SaveAges
    <3> QED  BY <2>4, <3>1 DEF OwnKeys
  <2> QED  BY <1>1, <2>3, <2>4
<1>8. Fit(g, n)'
  BY <1>3, <1>6, <1>7 DEF Fit
<1>9. Opened(note) <=> BlockIn(v)
  <2>1. "open" \notin OwnKeys /\ "open" # x
    BY <1>4 DEF OwnKeys, Saved, Users
  <2>2. At(note, "open") = At(v, "open")
    BY <1>4, <2>1 DEF Saved
  <2>3. ASSUME Opened(note)  PROVE At(note, "open") # <<>>
    <3>1. note[1].id = "open" /\ 1 \in DOMAIN note
      BY <1>5, <2>3, OpenedFirst, RegularCells DEF Opened, Cells
    <3> QED  BY <1>5, <3>1, RegularCells, AtFacts
  <2>4. ASSUME At(note, "open") # <<>>  PROVE Opened(note)
    BY <1>5, <2>4, OpenedFirst
  <2> QED  BY <2>2, <2>3, <2>4 DEF BlockIn
<1>10. ASSUME ~BlockIn(v), ~o.create  PROVE ~BlockIn(n)
  <2>1. ~Opened(note) /\ Close(note) = 0
    BY <1>9, <1>10 DEF Close
  <2>2. n = note
    <3>1. Apply(note, created, t, o) = note
      BY <1>10, <2>1 DEF Apply
    <3> QED  BY <1>1, <3>1
  <2>3. ASSUME BlockIn(n)  PROVE FALSE
    BY <1>5, <2>1, <2>2, <2>3, OpenedFirst DEF BlockIn
  <2> QED  BY <2>3
<1> QED  BY <1>7, <1>8, <1>9, <1>10 DEF v, t, o

\* What fitted fits later.
LEMMA FitLater ==
  ASSUME IInv, NEW g, NEW v, v \in Cells, Fit(g, v), clock' = clock + 1
  PROVE  Fit(g, v)'
<1>1. clock \in Nat
  BY DEF IInv, ShapeInv
<1>2. ASSUME OwnDated(v, clock)  PROVE OwnDated(v, clock')
  <2> SUFFICES ASSUME NEW l \in OwnIn(v)  PROVE Junk <= l.val /\ l.val <= clock'
    BY DEF OwnDated
  <2>1. l \in NoteLines
    BY DEF OwnIn, Cells
  <2>2. l.val \in Int /\ Junk <= l.val /\ l.val <= clock
    BY <1>2, <2>1 DEF OwnDated, NoteLines
  <2> QED  BY <1>1, <2>2
<1> QED  BY <1>2 DEF Fit

LEMMA PulledAfter ==
  ASSUME IInv, NEW m \in Machines, NEW acc, Pulled(m, acc)
  PROVE  /\ \A x \in Machines : \A i \in DOMAIN local'[x] :
              \/ x # m /\ i \in DOMAIN local[x] /\ local'[x][i] = local[x][i] /\ After(x, i - 1)' = After(x, i - 1)
              \/ x = m /\ i \in DOMAIN acc.local /\ local'[x][i] = acc.local[i] /\ After(x, i - 1)' = Link(acc, i)
         /\ \A v : Version(v)' => Version(v) \/ \E k \in DOMAIN acc.local : v = acc.local[k]
<1>1. /\ acc.local \in Seq(Cells) /\ base'[m] = remote /\ local'[m] = acc.local /\ remote' = remote
      /\ \A x \in Machines : x # m => base'[x] = base[x] /\ local'[x] = local[x]
  BY PulledNew DEF Pulled
<1>2. \A x \in Machines : x # m => \A i : After(x, i)' = After(x, i)
  BY <1>1 DEF After
<1>3. ASSUME NEW i \in DOMAIN acc.local  PROVE After(m, i - 1)' = Link(acc, i)
  <2>1. i \in Nat
    BY <1>1
  <2> QED  BY <1>1, <2>1 DEF After, Link
<1> QED  BY <1>1, <1>2, <1>3 DEF Version

LEMMA PushAfter ==
  ASSUME IInv, NEW m \in Machines, Push(m)
  PROVE  /\ base[m] = remote /\ remote' = Tip(m) /\ clock' = clock /\ opts' = opts
         /\ base'[m] = Tip(m) /\ local'[m] = <<>> /\ Tip(m)' = Tip(m)
         /\ \A x \in Machines : x # m => /\ base'[x] = base[x] /\ local'[x] = local[x] /\ Tip(x)' = Tip(x)
                                         /\ \A i : After(x, i)' = After(x, i)
         /\ \A v : Version(v)' => Version(v)
<1>1. PICK tip : tip = Tip(m)
  OBVIOUS
<1>2. /\ remote' = tip /\ base' = [base EXCEPT ![m] = tip] /\ local' = [local EXCEPT ![m] = <<>>]
      /\ opts' = opts /\ clock' = clock /\ base[m] = remote
  BY <1>1 DEF Push
<1>3. base \in [Machines -> Cells] /\ local \in [Machines -> Seq(Cells)]
  BY DEF IInv, ShapeInv
<1>4. /\ base'[m] = tip /\ local'[m] = <<>> /\ DOMAIN local'[m] = {}
      /\ \A x \in Machines : x # m => base'[x] = base[x] /\ local'[x] = local[x]
  BY <1>2, <1>3
<1>5. Tip(m)' = tip
  BY <1>4 DEF Tip
<1>6. \A x \in Machines : x # m => Tip(x)' = Tip(x) /\ \A i : After(x, i)' = After(x, i)
  BY <1>4 DEF Tip, After
<1>7. \A v : Version(v)' => Version(v)
  <2>1. Version(tip)
    BY <1>1, TipFacts DEF Version
  <2> QED  BY <1>2, <1>4, <2>1 DEF Version
<1> QED  BY <1>1, <1>2, <1>4, <1>5, <1>6, <1>7

LEMMA StepLaid ==
  ASSUME Quoting = FALSE, IInv, NEW g, LaidInv(g), [Next]_vars  PROVE LaidInv(g)'
<1>0. /\ Frame(g) /\ \A v : Version(v) => Fit(g, v) /\ Good(v) /\ v \in Cells
      /\ g.closed => \A m \in Machines : /\ Aged(base[m], remote)
                                         /\ \A i \in DOMAIN local[m] : Aged(After(m, i - 1), local[m][i])
  BY VersionFacts DEF LaidInv
<1> DEFINE Still == opts' = opts /\ remote' = remote /\ base' = base /\ local' = local /\ clock' = clock
<1>1. ASSUME Still  PROVE LaidInv(g)'
  <2>1. \A v : Version(v)' <=> Version(v)
    BY <1>1 DEF Version
  <2>2. \A m, i : After(m, i)' = After(m, i)
    BY <1>1 DEF After
  <2>3. \A v : Fit(g, v)' <=> Fit(g, v)
    BY <1>1 DEF Fit
  <2> QED  BY <1>0, <1>1, <2>1, <2>2, <2>3 DEF LaidInv
<1>2. ASSUME NEW m \in Machines, NEW note \in Saves(Tip(m), clock + 1), EditAndCommit(m, note)
      PROVE  LaidInv(g)'
  <2>1. PICK id, n : Saving(m, id, n)
    BY <1>2, SavingFacts
  <2>2. Fit(g, n)' /\ (g.closed => Aged(Tip(m), n))
    BY <2>1, SavingFits
  <2>3. base' = base /\ remote' = remote /\ clock' = clock + 1
    BY <2>1 DEF Saving
  <2>4. /\ \A x \in Machines : \A i \in DOMAIN local'[x] :
             \/ i \in DOMAIN local[x] /\ local'[x][i] = local[x][i] /\ After(x, i - 1)' = After(x, i - 1)
             \/ x = m /\ local'[x][i] = n /\ After(x, i - 1)' = Tip(m)
        /\ \A v : Version(v)' => Version(v) \/ v = n
    BY <2>1, SavingAfter
  <2>5. \A v : Version(v) => Fit(g, v)'
    BY <1>0, <2>3, FitLater
  <2>6. \A v : Version(v)' => Fit(g, v)'
    BY <2>2, <2>4, <2>5
  <2>7. ASSUME g.closed, NEW x \in Machines
        PROVE  /\ Aged(base[x], remote)'
               /\ \A i \in DOMAIN local'[x] : Aged(After(x, i - 1), local[x][i])'
    BY <1>0, <2>2, <2>3, <2>4, <2>7
  <2> QED  BY <1>0, <2>6, <2>7 DEF LaidInv
<1>3. ASSUME NEW m \in Machines, NEW acc, Pulled(m, acc)  PROVE LaidInv(g)'
  <2>1. Tracks(g, m, Len(local[m]), acc)
    BY <1>3 DEF Pulled, Replays
  <2>2. remote' = remote /\ base'[m] = remote /\ clock' = clock /\ \A x \in Machines : x # m => base'[x] = base[x]
    BY <1>3, PulledNew DEF Pulled
  <2>3. /\ \A x \in Machines : \A i \in DOMAIN local'[x] :
             \/ x # m /\ i \in DOMAIN local[x] /\ local'[x][i] = local[x][i] /\ After(x, i - 1)' = After(x, i - 1)
             \/ x = m /\ i \in DOMAIN acc.local /\ local'[x][i] = acc.local[i] /\ After(x, i - 1)' = Link(acc, i)
        /\ \A v : Version(v)' => Version(v) \/ \E k \in DOMAIN acc.local : v = acc.local[k]
    BY <1>3, PulledAfter
  <2>4. \A v : Fit(g, v)' <=> Fit(g, v)
    BY <2>2 DEF Fit
  <2>5. \A v : Version(v)' => Fit(g, v)'
    BY <1>0, <2>1, <2>3, <2>4 DEF Tracks
  <2>6. ASSUME g.closed, NEW x \in Machines
        PROVE  /\ Aged(base[x], remote)'
               /\ \A i \in DOMAIN local'[x] : Aged(After(x, i - 1), local[x][i])'
    <3>1. Version(remote)
      BY DEF Version
    <3>2. Aged(remote, remote)
      BY <1>0, <2>6, <3>1, FitAges
    <3>3. Aged(base[x], remote)'
      BY <1>0, <2>2, <2>6, <3>2
    <3>4. \A k \in DOMAIN acc.local : Aged(Link(acc, k), acc.local[k])
      BY <2>1, <2>6 DEF Tracks
    <3> QED  BY <1>0, <2>3, <2>6, <3>3, <3>4
  <2> QED  BY <1>0, <2>5, <2>6 DEF LaidInv
<1>4. ASSUME NEW m \in Machines, Push(m)  PROVE LaidInv(g)'
  <2>1. PICK tip : tip = Tip(m)
    OBVIOUS
  <2>2. /\ base[m] = remote /\ remote' = tip /\ clock' = clock
        /\ base'[m] = tip /\ DOMAIN local'[m] = {}
        /\ \A x \in Machines : x # m => /\ base'[x] = base[x] /\ local'[x] = local[x]
                                        /\ \A i : After(x, i)' = After(x, i)
        /\ \A v : Version(v)' => Version(v)
    BY <1>4, <2>1, PushAfter
  <2>3. \A v : Fit(g, v)' <=> Fit(g, v)
    BY <2>2 DEF Fit
  <2>4. \A v : Version(v)' => Fit(g, v)'
    BY <1>0, <2>2, <2>3
  <2>5. ASSUME g.closed, NEW x \in Machines
        PROVE  /\ Aged(base[x], remote)'
               /\ \A i \in DOMAIN local'[x] : Aged(After(x, i - 1), local[x][i])'
    <3>1. Version(tip) /\ Fit(g, tip) /\ Good(tip) /\ Aged(remote, tip)
      BY <2>1, <2>2, <2>5, TipFits
    <3>2. Version(remote) /\ Version(base[x])
      BY DEF Version
    <3>3. Aged(base[x], remote)
      BY <1>0, <2>5
    <3>4. Aged(base[x], tip)
      BY <1>0, <2>5, <3>1, <3>2, <3>3, FitAges
    <3>5. Aged(tip, tip)
      BY <2>5, <3>1, FitAges
    <3>6. Aged(base'[x], tip)
      BY <2>2, <3>4, <3>5
    <3> QED  BY <1>0, <2>2, <2>5, <3>6
  <2> QED  BY <1>0, <2>4, <2>5 DEF LaidInv
<1>5. CASE UNCHANGED vars
  BY <1>1, <1>5 DEF vars
<1>6. ASSUME NEW m \in Machines, Pull(m)  PROVE LaidInv(g)'
  BY <1>1, <1>3, <1>6, PullFacts
<1> QED  BY <1>2, <1>4, <1>5, <1>6 DEF Next

-----------------------------------------------------------------------------
(* The theorems about tidy notes.                                          *)

\* If all machines maintain modified, and agree on notes without frontmatter:
\* no version has a line that is later than its modified, unless the note has
\* no frontmatter and none of them gives it one.
Agreed == \A x, y \in Machines : opts[x].modified /\ opts[x].create = opts[y].create
Creating == \A m \in Machines : opts[m].create
TimesInv(g) ==
  Agreed /\ g.closed =>
    \/ RecentInv /\ (Creating \/ \A v : Version(v) => BlockIn(v))
    \/ (\A m \in Machines : ~opts[m].create) /\ \A v : Version(v) => ~BlockIn(v)

CurrentStarts == \A s \in Starts : Current(s.note, {})

LEMMA InitTimes ==
  ASSUME OrdinaryStarts, CurrentStarts, Init, NEW g, LaidInv(g)  PROVE TimesInv(g)
<1>1. PICK s \in Starts : remote = s.note
  BY DEF Init
<1>2. g.closed => Recent(remote)
  <2>1. Current(remote, {}) /\ unstamped = {}
    BY <1>1 DEF CurrentStarts, Init
  <2>2. Frame(g) /\ Regular(remote) /\ Laid(g, remote)
    BY InitIInv, FitFacts DEF Version
  <2>3. g.closed => Val(remote, "modified") = ValueOf(remote, "modified")
    BY <2>2, ValueIsVal DEF OwnKeys
  <2> QED  BY <2>1, <2>3 DEF Current, Recent
<1>3. \A m \in Machines : base[m] = remote /\ DOMAIN local[m] = {}
  BY DEF Init
<1>4. \A v : Version(v) => v = remote
  BY <1>3 DEF Version
<1>5. g.closed => RecentInv
  BY <1>2, <1>4 DEF RecentInv
<1>6. Agreed => Creating \/ \A m \in Machines : ~opts[m].create
  BY DEF Agreed, Creating
<1> QED  BY <1>4, <1>5, <1>6 DEF TimesInv

\* A save without a stamp writes one line, at a time that is exempt from then on.
LEMMA UnstampedRecent ==
  ASSUME IInv, NEW m \in Machines, NEW id, NEW n, Saving(m, id, n), Recent(Tip(m)),
         clock + 1 \in unstamped', Val(n, "modified") = Val(Tip(m), "modified")
  PROVE  Recent(n)'
<1> SUFFICES ASSUME NEW i \in DOMAIN n, n[i].id \in Users, n[i].val > 0, n[i].val \notin unstamped'
             PROVE  n[i].val <= Val(n, "modified")
  BY DEF Recent
<1>1. Edited(Tip(m), id, clock + 1, n) /\ unstamped \subseteq unstamped'
  BY DEF Saving
<1>2. n \in Cells /\ Unique(n) /\ n[i].id \notin OwnKeys /\ n[i].id \notin BlockIds /\ Tip(m) \in Cells
  BY <1>1, RegularCells, UserIds, TipFacts DEF Edited
<1>3. At(n, n[i].id) = <<n[i]>>
  BY <1>2, AtUnique
<1>4. n[i].id # id
  <2>1. ASSUME n[i].id = id  PROVE n[i].val = clock + 1
    <3>1. At(n, id) = <<n[i]>>
      BY <1>3, <2>1
    <3>2. PICK l : At(n, id) = <<l>> /\ l.val = clock + 1
      BY <1>1, <3>1 DEF Edited
    <3> QED  BY <3>1, <3>2
  <2> QED  BY <1>1, <2>1
<1>5. At(Tip(m), n[i].id) = <<n[i]>>
  BY <1>1, <1>2, <1>3, <1>4 DEF Edited
<1>6. PICK k \in DOMAIN Tip(m) : n[i] = Tip(m)[k]
  BY <1>2, <1>5, AtFacts
<1> QED  BY <1>1, <1>6 DEF Recent

\* A version the next state has is a version now, but for what a save wrote or
\* a pull replayed.
LEMMA StepTimes ==
  ASSUME Quoting = FALSE, IInv, NEW g, LaidInv(g), TimesInv(g), [Next]_vars
  PROVE  TimesInv(g)'
<1> SUFFICES ASSUME Agreed', g.closed
             PROVE  (\/ RecentInv /\ (Creating \/ \A v : Version(v) => BlockIn(v))
                     \/ (\A m \in Machines : ~opts[m].create) /\ \A v : Version(v) => ~BlockIn(v))'
  BY DEF TimesInv
<1>1. opts' = opts
  BY DEF Next, EditAndCommit, Pull, Push, vars
<1>2. /\ Agreed /\ (Creating' <=> Creating)
      /\ \A m \in Machines : opts[m].modified
  BY <1>1 DEF Agreed, Creating
<1>5. \A v : Recent(v) => Recent(v)'
  <2>1. unstamped \subseteq unstamped'
    BY DEF Next, EditAndCommit, Pull, Push, vars
  <2> QED  BY <2>1 DEF Recent
<1>3. CASE RecentInv /\ (Creating \/ \A v : Version(v) => BlockIn(v))
  <2>1. ASSUME \A v : Version(v)' => Version(v)
        PROVE  RecentInv' /\ (Creating \/ \A v : Version(v)' => BlockIn(v))
    BY <1>3, <1>5, <2>1 DEF RecentInv
  <2>2. ASSUME NEW m \in Machines, NEW id, NEW n, Saving(m, id, n)
        PROVE  RecentInv' /\ (Creating \/ \A v : Version(v)' => BlockIn(v))
    <3>1. \A v : Version(v)' => Version(v) \/ v = n
      BY <2>2, SavingAfter
    <3>2. Version(Tip(m))
      BY TipFits
    <3>3. opts[m].create \/ BlockIn(Tip(m))
      BY <1>3, <3>2 DEF Creating
    <3>4. \/ Val(n, "modified") = clock + 1
          \/ clock + 1 \in unstamped' /\ Val(n, "modified") = Val(Tip(m), "modified")
      BY <1>2, <2>2, <3>3, SavingFits
    <3>5. Dated(n, clock + 1)
      BY <2>2 DEF Saving, Edited
    <3>6. Recent(n)'
      <4>1. CASE Val(n, "modified") = clock + 1
        BY <3>5, <4>1 DEF Recent, Dated
      <4>2. CASE clock + 1 \in unstamped' /\ Val(n, "modified") = Val(Tip(m), "modified")
        BY <1>3, <2>2, <3>2, <4>2, UnstampedRecent DEF RecentInv
      <4> QED  BY <3>4, <4>1, <4>2
    <3>7. BlockIn(Tip(m)) => BlockIn(n)
      <4>1. Edited(Tip(m), id, clock + 1, n)
        BY <2>2 DEF Saving
      <4>2. "open" \notin OwnKeys /\ "open" # id
        BY <4>1 DEF OwnKeys, Edited, Users
      <4> QED  BY <4>1, <4>2 DEF Edited, BlockIn
    <3>8. RecentInv'
      BY <1>3, <1>5, <3>1, <3>6 DEF RecentInv
    <3>9. Creating \/ \A v : Version(v)' => BlockIn(v)
      BY <1>3, <3>1, <3>2, <3>7
    <3> QED  BY <3>8, <3>9
  <2>3. ASSUME NEW m \in Machines, NEW acc, Pulled(m, acc)
        PROVE  RecentInv' /\ (Creating \/ \A v : Version(v)' => BlockIn(v))
    <3>1. \A v : Version(v)' => Version(v) \/ \E k \in DOMAIN acc.local : v = acc.local[k]
      BY <2>3, PulledAfter
    <3>2. \A k \in DOMAIN acc.local : Recent(acc.local[k])
      BY <1>3, <2>3 DEF Pulled, Replays, Tracks
    <3>3. ASSUME NEW k \in DOMAIN acc.local, \A v : Version(v) => BlockIn(v)  PROVE BlockIn(acc.local[k])
      <4>1. Kept(m, acc.local[k], "open")
        BY <2>3, PulledNew DEF OwnKeys
      <4> QED  BY <3>3, <4>1 DEF Kept, Version, BlockIn
    <3>4. RecentInv'
      BY <1>3, <1>5, <3>1, <3>2 DEF RecentInv
    <3> QED  BY <1>3, <3>1, <3>3, <3>4
  <2>4. ASSUME NEW m \in Machines, Push(m)  PROVE \A v : Version(v)' => Version(v)
    BY <2>4, PushAfter
  <2>5. ASSUME remote' = remote, base' = base, local' = local  PROVE \A v : Version(v)' => Version(v)
    BY <2>5 DEF Version
  <2>6. RecentInv' /\ (Creating \/ \A v : Version(v)' => BlockIn(v))
    <3>1. CASE UNCHANGED vars
      BY <2>1, <2>5, <3>1 DEF vars
    <3>2. ASSUME NEW m \in Machines, NEW note \in Saves(Tip(m), clock + 1), EditAndCommit(m, note)
          PROVE  RecentInv' /\ (Creating \/ \A v : Version(v)' => BlockIn(v))
      BY <2>2, <3>2, SavingFacts
    <3>3. ASSUME NEW m \in Machines, Pull(m)
          PROVE  RecentInv' /\ (Creating \/ \A v : Version(v)' => BlockIn(v))
      BY <2>1, <2>3, <2>5, <3>3, PullFacts
    <3> QED  BY <2>1, <2>4, <3>1, <3>2, <3>3 DEF Next
  <2> QED  BY <1>2, <2>6 DEF BlockIn
<1>4. CASE (\A m \in Machines : ~opts[m].create) /\ \A v : Version(v) => ~BlockIn(v)
  <2>1. ASSUME NEW m \in Machines, NEW note \in Saves(Tip(m), clock + 1), EditAndCommit(m, note)
        PROVE  \A v : Version(v)' => ~BlockIn(v)
    <3>1. PICK id, n : Saving(m, id, n)
      BY <2>1, SavingFacts
    <3>2. \A v : Version(v)' => Version(v) \/ v = n
      BY <3>1, SavingAfter
    <3>3. Version(Tip(m))
      BY TipFits
    <3>4. ~BlockIn(n)
      BY <1>4, <3>1, <3>3, SavingFits
    <3> QED  BY <1>4, <3>2, <3>4
  <2>2. ASSUME NEW m \in Machines, NEW acc, Pulled(m, acc)  PROVE \A v : Version(v)' => ~BlockIn(v)
    <3>1. \A v : Version(v)' => Version(v) \/ \E k \in DOMAIN acc.local : v = acc.local[k]
      BY <2>2, PulledAfter
    <3>2. ASSUME NEW k \in DOMAIN acc.local  PROVE ~BlockIn(acc.local[k])
      <4>1. Kept(m, acc.local[k], "open")
        BY <2>2, PulledNew DEF OwnKeys
      <4> QED  BY <1>4, <4>1 DEF Kept, Version, BlockIn
    <3> QED  BY <1>4, <3>1, <3>2
  <2>3. ASSUME remote' = remote, base' = base, local' = local  PROVE \A v : Version(v)' => ~BlockIn(v)
    BY <1>4, <2>3 DEF Version
  <2>4. ASSUME NEW m \in Machines, Push(m)  PROVE \A v : Version(v)' => ~BlockIn(v)
    BY <1>4, <2>4, PushAfter
  <2>5. ASSUME NEW m \in Machines, Pull(m)  PROVE \A v : Version(v)' => ~BlockIn(v)
    BY <2>2, <2>3, <2>5, PullFacts
  <2>6. \A v : Version(v)' => ~BlockIn(v)
    BY <2>1, <2>3, <2>4, <2>5 DEF Next, vars
  <2> QED  BY <1>1, <1>4, <2>6 DEF BlockIn
<1> QED  BY <1>2, <1>3, <1>4 DEF TimesInv

LayoutInv == \E g : LaidInv(g)

\* Every version of the note is laid out as the note was at first, and from
\* commit to commit, and to the remote, created only becomes earlier and
\* modified only later.
THEOREM VersionsStayTidy ==
  ASSUME Quoting = FALSE, OrdinaryStarts, TidyStarts  PROVE Spec => []LayoutInv
<1>1. Init => LayoutInv
  BY InitLaid DEF LayoutInv
<1>2. IInv /\ LayoutInv /\ [Next]_vars => LayoutInv'
  BY StepLaid DEF LayoutInv
<1>3. Spec => []IInv
  BY VersionsStaySound
<1> QED  BY <1>1, <1>2, <1>3, PTL DEF Spec

LEMMA VersionsAre ==
  ASSUME IInv, NEW v \in Versions  PROVE Version(v)
  BY TipFacts DEF Versions, Version

LEMMA LaidUnique ==
  ASSUME IInv, LayoutInv  PROVE KeysAreUnique
<1> SUFFICES ASSUME NEW note \in Versions, NEW key \in OwnKeys
             PROVE  Cardinality(Said(note, key)) <= 1
  BY DEF KeysAreUnique
<1>1. PICK g : LaidInv(g)
  BY DEF LayoutInv
<1>2. Regular(note) /\ Laid(g, note)
  BY <1>1, VersionsAre, FitFacts
<1>3. \A i, k \in Said(note, key) : i = k
  BY <1>2, LaidSaysOnce
<1>4. CASE Said(note, key) = {}
  BY <1>4, FS_EmptySet
<1>5. ASSUME NEW i, Said(note, key) = {i}  PROVE Cardinality(Said(note, key)) <= 1
  <2>1. Cardinality({i}) = 1
    BY FS_Singleton
  <2> QED  BY <1>5, <2>1
<1>6. Said(note, key) = {} \/ \E i : Said(note, key) = {i}
  <2> HIDE DEF Said
  <2> QED  BY <1>3
<1> QED  BY <1>4, <1>5, <1>6

\* No note gets a second created or modified, whatever quotes and keys of
\* others it has, through any number of stamps, merges and resolved conflicts
\* of any number of machines (frontmatter.go findKey, and where Apply inserts).
THEOREM KeysStayUnique ==
  ASSUME Quoting = FALSE, OrdinaryStarts, TidyStarts  PROVE Spec => []KeysAreUnique
<1>1. IInv /\ LayoutInv => KeysAreUnique
  BY LaidUnique
<1> QED  BY <1>1, VersionsStaySound, VersionsStayTidy, PTL

LEMMA AgedNotLater ==
  ASSUME NEW g, Frame(g), NEW v, NEW w, Regular(v), Regular(w), Laid(g, v), Laid(g, w),
         g.closed => Aged(v, w)
  PROVE  NotLater(v, w)
<1>1. "created" \in OwnKeys
  BY DEF OwnKeys
<1>2. CASE g.closed
  <2>1. ValueOf(v, "created") = Val(v, "created") /\ ValueOf(w, "created") = Val(w, "created")
    BY <1>1, <1>2, ValueIsVal
  <2> QED  BY <1>2, <2>1 DEF NotLater, Aged, EarlierDate
<1>3. CASE ~g.closed
  <2>1. Close(v) = 0
    BY <1>3, CloseLine DEF Laid
  <2>2. Said(v, "created") = {}
    BY <1>1, <2>1, LaidSaysOnce
  <2>3. ValueOf(v, "created") = Empty
    BY <2>2 DEF ValueOf
  <2> QED  BY <2>3 DEF NotLater
<1> QED  BY <1>2, <1>3

LEMMA StepNotLater ==
  ASSUME Quoting = FALSE, IInv, NEW g, LaidInv(g), Next
  PROVE  NotLater(remote, remote') /\ \A m \in Machines : NotLater(Tip(m), Tip(m)')
<1>1. \A v : NotLater(v, v)
  BY DEF NotLater
<1>2. /\ Frame(g) /\ Version(remote)
      /\ \A v : Version(v) => Regular(v) /\ Laid(g, v)
      /\ \A m \in Machines : Version(Tip(m))
  BY FitFacts, TipFits DEF LaidInv, Version
<1>3. ASSUME NEW m \in Machines, NEW note \in Saves(Tip(m), clock + 1), EditAndCommit(m, note)
      PROVE  NotLater(remote, remote') /\ \A x \in Machines : NotLater(Tip(x), Tip(x)')
  <2>1. PICK id, n : Saving(m, id, n)
    BY <1>3, SavingFacts
  <2>2. Laid(g, n) /\ (g.closed => Aged(Tip(m), n))
    BY <2>1, SavingFits DEF Fit
  <2>3. remote' = remote /\ base' = base /\ Regular(n)
    BY <2>1 DEF Saving, Edited
  <2>4. Tip(m)' = n /\ \A x \in Machines : x # m => local'[x] = local[x]
    BY <2>1, SavingNew
  <2>5. NotLater(Tip(m), n)
    BY <1>2, <2>2, <2>3, AgedNotLater
  <2>6. \A x \in Machines : x # m => Tip(x)' = Tip(x)
    BY <2>3, <2>4 DEF Tip
  <2>7. \A x \in Machines : NotLater(Tip(x), Tip(x)')
    BY <1>1, <2>4, <2>5, <2>6
  <2> QED  BY <1>1, <2>3, <2>7
<1>4. ASSUME NEW m \in Machines, NEW acc, Pulled(m, acc)
      PROVE  NotLater(remote, remote') /\ \A x \in Machines : NotLater(Tip(x), Tip(x)')
  <2>1. /\ remote' = remote /\ Tip(m)' = acc.tip /\ Good(acc.tip)
        /\ \A x \in Machines : x # m => base'[x] = base[x] /\ local'[x] = local[x]
    BY <1>4, PulledNew DEF Pulled
  <2>2. Tip(m) = After(m, Len(local[m]))
    BY AfterFacts
  <2>3. Laid(g, acc.tip) /\ (g.closed => Aged(Tip(m), acc.tip))
    BY <1>4, <2>2 DEF Pulled, Replays, Tracks, Fit
  <2>4. NotLater(Tip(m), acc.tip)
    BY <1>2, <2>1, <2>3, AgedNotLater DEF Good
  <2>5. \A x \in Machines : x # m => Tip(x)' = Tip(x)
    BY <2>1 DEF Tip
  <2>6. \A x \in Machines : NotLater(Tip(x), Tip(x)')
    BY <1>1, <2>1, <2>4, <2>5
  <2> QED  BY <1>1, <2>1, <2>6
<1>5. ASSUME NEW m \in Machines, Push(m)
      PROVE  NotLater(remote, remote') /\ \A x \in Machines : NotLater(Tip(x), Tip(x)')
  <2>1. /\ remote' = Tip(m) /\ base[m] = remote
        /\ \A x \in Machines : Tip(x)' = Tip(x)
    BY <1>5, PushAfter
  <2>2. g.closed => Aged(remote, Tip(m))
    BY <2>1, TipFits
  <2>3. NotLater(remote, Tip(m))
    BY <1>2, <2>2, AgedNotLater
  <2>4. \A x \in Machines : NotLater(Tip(x), Tip(x)')
    BY <1>1, <2>1
  <2> QED  BY <2>1, <2>3, <2>4
<1>6. ASSUME remote' = remote, base' = base, local' = local
      PROVE  NotLater(remote, remote') /\ \A x \in Machines : NotLater(Tip(x), Tip(x)')
  <2>1. \A x \in Machines : Tip(x)' = Tip(x)
    BY <1>6 DEF Tip
  <2> QED  BY <1>1, <1>6, <2>1
<1>7. ASSUME NEW m \in Machines, Pull(m)
      PROVE  NotLater(remote, remote') /\ \A x \in Machines : NotLater(Tip(x), Tip(x)')
  BY <1>4, <1>6, <1>7, PullFacts
<1> QED  BY <1>3, <1>5, <1>7 DEF Next

\* A created that is there survives every stamp, pull and push: it is replaced
\* by an earlier one or not at all, and what is no time stays
\* (frontmatter.go:80, conflict.go:36).
THEOREM CreatedSurvives ==
  ASSUME Quoting = FALSE, OrdinaryStarts, TidyStarts  PROVE Spec => CreatedNeverLater
<1>1. IInv /\ LayoutInv /\ [Next]_vars =>
        [NotLater(remote, remote') /\ \A m \in Machines : NotLater(Tip(m), Tip(m)')]_vars
  BY StepNotLater DEF LayoutInv
<1> QED  BY <1>1, VersionsStaySound, VersionsStayTidy, PTL DEF Spec, CreatedNeverLater

ModifiedInv == \E g : LaidInv(g) /\ TimesInv(g)

LEMMA TimesAreModified ==
  ASSUME IInv, ModifiedInv  PROVE ModifiedIsOfLatestEdit
<1> SUFFICES ASSUME Agreed, NEW note \in Versions, Close(note) # 0  PROVE Current(note, unstamped)
  BY DEF ModifiedIsOfLatestEdit, Agreed
<1>1. PICK g : LaidInv(g) /\ TimesInv(g)
  BY DEF ModifiedInv
<1>2. Version(note)
  BY VersionsAre
<1>3. Frame(g) /\ Regular(note) /\ Laid(g, note)
  BY <1>1, <1>2, FitFacts
<1>4. note # <<>> /\ Has(Ids(note), "open") /\ Has(Ids(note), "close")
  BY <1>3, CloseLine
<1>5. g.closed /\ BlockIn(note)
  BY <1>3, <1>4, RegularCells DEF Laid, BlockIn
<1>6. RecentInv
  BY <1>1, <1>2, <1>5 DEF TimesInv
<1>7. Recent(note)
  BY <1>2, <1>6 DEF RecentInv
<1>8. ValueOf(note, "modified") = Val(note, "modified")
  BY <1>3, <1>5, ValueIsVal DEF OwnKeys
<1> QED  BY <1>7, <1>8 DEF Recent, Current

\* The time a note says it was modified is not before any edit in it that was
\* stamped, after clean merges and resolved conflicts of any number of commits
\* of any number of machines, some of them committed without a stamp
\* (stamp.go:97-112, 144-155), if the machines maintain modified and agree on
\* notes without frontmatter (frontmatter.go Apply, conflict.go reconcile).
THEOREM ModifiedStaysOfLatestEdit ==
  ASSUME Quoting = FALSE, OrdinaryStarts, TidyStarts, CurrentStarts  PROVE Spec => []ModifiedIsOfLatestEdit
<1>1. Init => ModifiedInv
  BY InitLaid, InitTimes DEF ModifiedInv
<1>2. IInv /\ ModifiedInv /\ [Next]_vars => ModifiedInv'
  BY StepLaid, StepTimes DEF ModifiedInv
<1>3. IInv /\ ModifiedInv => ModifiedIsOfLatestEdit
  BY TimesAreModified
<1>4. Spec => []IInv
  BY VersionsStaySound
<1> QED  BY <1>1, <1>2, <1>3, <1>4, PTL DEF Spec
=============================================================================
