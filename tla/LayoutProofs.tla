---------------------------- MODULE LayoutProofs ----------------------------
(* Where lines are in a note, through git's merges, the resolver and the   *)
(* stamps: created and modified never get below a quote that may be open,  *)
(* nor out of the block.  From that, what becomes of their times.          *)
EXTENDS NoteProofs

Once(ids) == \A i, k \in DOMAIN ids : ids[i] = ids[k] => i = k
Sorted(r, ids) == \A i, k \in DOMAIN ids : i < k => r[ids[i]] <= r[ids[k]]

\* A layout gives every line its place.  Those of rank 0 are above every line
\* with odd quotes, rank 1 is the first of these in the block and 2 the rest of
\* it, 3 is its end, and 4 is the body.  "kept" is in every version that has a
\* block.  Where no version's block is closed ("closed" is FALSE), nobody minds.
Layouts == [rank : [Words -> 0..4], kept : SUBSET Words, closed : BOOLEAN]
Frame(g) ==
  LET r == g.rank IN
  /\ g \in Layouts
  /\ g.closed =>
       /\ r["open"] = 0 /\ r["close"] = 3 /\ r["gap"] = 4 /\ \A k \in OwnKeys : r[k] = 0
       /\ \A x \in Words : r[x] = 3 => x = "close"
       /\ \A x, y \in Words : r[x] = 1 /\ r[y] = 1 => x = y
       /\ \A x \in Words : r[x] = 1 => x \in g.kept
       /\ "close" \in g.kept /\ g.kept \cap (OwnKeys \cup {"b1"}) = {}
       /\ \/ "tag" \in g.kept
          \/ r["tag"] = 0 /\ \A x \in Words : r[x] \notin {1, 2}
          \/ r["tag"] = 2 /\ \E x \in Words : r[x] = 1

LaidIds(g, s) ==
  /\ s \in Seq(Words) /\ Once(s) /\ Sorted(g.rank, s)
  /\ Has(s, "open") => \A x \in g.kept : Has(s, x)
  /\ ~Has(s, "open") => g.kept = {"close"} /\ \A i \in DOMAIN s : g.rank[s[i]] = 4

Keyed(v) == \A i \in DOMAIN v : v[i].id \in OwnKeys => v[i].key = v[i].id

Laid(g, v) ==
  IF g.closed
  THEN LaidIds(g, Ids(v)) /\ Keyed(v) /\ \A i \in DOMAIN v : OddQuotes(v[i]) => g.rank[v[i].id] >= 1
  ELSE Has(Ids(v), "open") /\ ~Has(Ids(v), "close")

-----------------------------------------------------------------------------
(* Weaving keeps the order.                                                *)

LEMMA InsertSorted ==
  ASSUME NEW R \in [Words -> 0..4], NEW w \in Seq(Words), Once(w), Sorted(R, w),
         NEW p \in 1..(Len(w) + 1), NEW e \in Words, ~Has(w, e),
         \A k \in 1..(p - 1) : R[w[k]] <= R[e], \A k \in p..Len(w) : R[e] <= R[w[k]]
  PROVE  Once(InsertAt(w, p, e)) /\ Sorted(R, InsertAt(w, p, e))
<1> DEFINE y == InsertAt(w, p, e)
<1>1. /\ y \in Seq(Words) /\ Len(y) = Len(w) + 1
      /\ \A k \in 1..(p - 1) : y[k] = w[k]
      /\ y[p] = e
      /\ \A k \in (p + 1)..(Len(w) + 1) : y[k] = w[k - 1]
  BY InsertFacts
<1> HIDE DEF y
<1>2. DOMAIN y = 1..(Len(w) + 1) /\ DOMAIN w = 1..Len(w) /\ Len(w) \in Nat
  BY <1>1
<1>3. \A k \in DOMAIN y : \/ k < p /\ y[k] = w[k] /\ k \in DOMAIN w
                          \/ k = p /\ y[k] = e
                          \/ k > p /\ y[k] = w[k - 1] /\ k - 1 \in DOMAIN w
  BY <1>1, <1>2
<1>4. \A k \in DOMAIN w : w[k] \in Words /\ w[k] # e
  BY DEF Has
<1>5. Once(y)
  <2> SUFFICES ASSUME NEW i \in DOMAIN y, NEW k \in DOMAIN y, y[i] = y[k], i < k  PROVE FALSE
    BY <1>2 DEF Once
  <2>1. CASE i < p /\ k < p
    <3>1. y[i] = w[i] /\ y[k] = w[k] /\ i \in DOMAIN w /\ k \in DOMAIN w
      BY <1>2, <1>3, <2>1
    <3>2. w[i] = w[k]
      BY <3>1
    <3>3. i = k
      BY <3>1, <3>2 DEF Once
    <3> QED  BY <1>2, <3>3
  <2>2. CASE i < p /\ k > p
    BY <1>2, <1>3, <2>2 DEF Once
  <2>3. CASE i > p /\ k > p
    BY <1>2, <1>3, <2>3 DEF Once
  <2>4. CASE i = p \/ k = p
    BY <1>2, <1>3, <1>4, <2>4
  <2> QED  BY <1>2, <2>1, <2>2, <2>3, <2>4
<1>6. Sorted(R, y)
  <2> SUFFICES ASSUME NEW i \in DOMAIN y, NEW k \in DOMAIN y, i < k  PROVE R[y[i]] <= R[y[k]]
    BY DEF Sorted
  <2>1. CASE i < p /\ k < p
    <3>1. y[i] = w[i] /\ y[k] = w[k] /\ i \in DOMAIN w /\ k \in DOMAIN w
      BY <1>2, <1>3, <2>1
    <3> QED  BY <3>1 DEF Sorted
  <2>2. CASE i < p /\ k > p
    <3>1. CASE i < k - 1
      BY <1>2, <1>3, <2>2, <3>1 DEF Sorted
    <3>2. CASE i = k - 1
      BY <1>2, <2>2, <3>2
    <3> QED  BY <1>2, <3>1, <3>2
  <2>3. CASE i > p /\ k > p
    <3>1. i - 1 < k - 1
      BY <1>2
    <3> QED  BY <1>3, <2>3, <3>1 DEF Sorted
  <2>4. CASE i = p
    <3>1. k - 1 \in p..Len(w) /\ y[k] = w[k - 1]
      BY <1>2, <1>3, <2>4
    <3> QED  BY <1>1, <2>4, <3>1
  <2>5. CASE k = p
    <3>1. i \in 1..(p - 1)
      BY <1>2, <2>5
    <3> QED  BY <1>1, <2>5, <3>1
  <2> QED  BY <1>2, <2>1, <2>2, <2>3, <2>4, <2>5
<1> QED  BY <1>5, <1>6 DEF y

LEMMA WovenAt ==
  ASSUME NEW acc \in Seq(Words), NEW t \in Seq(Words), NEW i \in 1..Len(t), ~Has(acc, t[i])
  PROVE  \E p \in 1..(Len(acc) + 1) :
           /\ Woven(acc, t, i) = InsertAt(acc, p, t[i])
           /\ i = 1 => p = 1
           /\ i > 1 /\ Has(acc, t[i - 1]) => p > 1 /\ p - 1 \in DOMAIN acc /\ acc[p - 1] = t[i - 1]
<1> DEFINE I == {k \in 1..Len(acc) : acc[k] = t[i - 1]}
           p == IF i = 1 THEN 1 ELSE SelectInSeq(acc, LAMBDA x : x = t[i - 1]) + 1
<1>1. Woven(acc, t, i) = InsertAt(acc, p, t[i])
  BY DEF Woven, Contains, Has
<1>2. SelectInSeq(acc, LAMBDA x : x = t[i - 1]) = IF I # {} THEN Min(I) ELSE 0
  BY DEF SelectInSeq
<1>3. I # {} => Min(I) \in I
  <2>1. I \in SUBSET Nat
    OBVIOUS
  <2> HIDE DEF I
  <2> QED  BY <2>1, LeastIndex
<1>4. Has(acc, t[i - 1]) => I # {}
  BY DEF Has
<1>5. p \in 1..(Len(acc) + 1) /\ (i = 1 => p = 1)
  BY <1>2, <1>3
<1>6. i > 1 /\ Has(acc, t[i - 1]) => p > 1 /\ p - 1 \in DOMAIN acc /\ acc[p - 1] = t[i - 1]
  BY <1>2, <1>3, <1>4
<1> HIDE DEF p
<1> QED  BY <1>1, <1>5, <1>6

\* What t has and s lacks is what a stamp or a tag brings.
Brings(s, t) == \A x : Has(t, x) => Has(s, x) \/ x \in OwnKeys \cup BlockIds \cup {"tag"}

\* the rows of a merge below which a line is woven in are not above it
Below(R, w, j, e) == \A k \in (j + 1)..Len(w) : R[e] <= R[w[k]]

\* s with the first n ids of t woven in
WovenIn(g, w, s, t, n) ==
  /\ w \in Seq(Words) /\ Once(w) /\ Sorted(g.rank, w)
  /\ \A x : Has(w, x) <=> Has(s, x) \/ \E k \in 1..n : t[k] = x
  /\ ~Has(s, "open") /\ (\A k \in 1..n : ~Has(s, t[k])) =>
       /\ Len(w) = n + Len(s)
       /\ \A k \in 1..n : w[k] = t[k]
       /\ \A k \in 1..Len(s) : w[n + k] = s[k]

LEMMA RankFacts ==
  ASSUME NEW g, Frame(g), g.closed
  PROVE  /\ g.rank \in [Words -> 0..4] /\ \A x \in Words : g.rank[x] \in 0..4
         /\ g.rank["open"] = 0 /\ g.rank["close"] = 3 /\ g.rank["gap"] = 4
         /\ \A k \in OwnKeys : g.rank[k] = 0
         /\ OwnKeys \cup BlockIds \cup {"tag"} \subseteq Words
  BY DEF Frame, Layouts, OwnKeys, BlockIds, Words

\* Where a line of t that is new to w goes, everything below is of its rank
\* at least.
LEMMA RoomBelow ==
  ASSUME NEW g, Frame(g), g.closed, NEW s, NEW t, LaidIds(g, s), LaidIds(g, t), Brings(s, t),
         t[1] = "open", NEW n \in 2..Len(t), NEW w, WovenIn(g, w, s, t, n - 1), ~Has(w, t[n]),
         NEW j \in DOMAIN w, w[j] = t[n - 1]
  PROVE  Below(g.rank, w, j, t[n])
<1> DEFINE R == g.rank
           e == t[n]
           p == t[n - 1]
<1>1. /\ t \in Seq(Words) /\ Once(t) /\ Sorted(R, t) /\ DOMAIN t = 1..Len(t) /\ Len(t) \in Nat
      /\ s \in Seq(Words) /\ w \in Seq(Words) /\ Once(w) /\ Sorted(R, w) /\ DOMAIN w = 1..Len(w)
      /\ n - 1 \in DOMAIN t /\ n \in DOMAIN t /\ n - 1 # n /\ 1 \in DOMAIN t
      /\ e \in Words /\ p \in Words
  BY DEF LaidIds, WovenIn
<1>2. \A k \in (j + 1)..Len(w) : k \in DOMAIN w /\ j < k /\ w[k] # p /\ R[p] <= R[w[k]] /\ w[k] \in Words
  BY <1>1 DEF Once, Sorted
<1>3. /\ R \in [Words -> 0..4] /\ \A x \in Words : R[x] \in 0..4
      /\ R["open"] = 0 /\ R["close"] = 3 /\ R["gap"] = 4 /\ \A k \in OwnKeys : R[k] = 0
  BY RankFacts
<1>4. R[p] <= R[e] /\ \A k \in 1..(n - 1) : R[t[k]] <= R[p]
  <2>1. R[p] <= R[e]
    BY <1>1 DEF Sorted
  <2>2. ASSUME NEW k \in 1..(n - 1)  PROVE R[t[k]] <= R[p]
    <3>1. k \in DOMAIN t /\ t[k] \in Words /\ (k = n - 1 \/ k < n - 1)
      BY <1>1
    <3>2. k < n - 1 => R[t[k]] <= R[p]
      BY <1>1, <3>1 DEF Sorted
    <3>3. k = n - 1 => R[t[k]] <= R[p]
      <4>1. R[p] \in 0..4
        BY <1>1, <1>3
      <4> QED  BY <4>1
    <3> QED  BY <3>1, <3>2, <3>3
  <2> QED  BY <2>1, <2>2
<1>5. /\ ~Has(s, e) /\ e # "open" /\ e \in OwnKeys \cup BlockIds \cup {"tag"}
  <2>1. ~Has(s, e)
    BY DEF WovenIn
  <2>2. e # "open"
    BY <1>1 DEF Once
  <2>3. Has(t, e)
    BY <1>1 DEF Has
  <2> QED  BY <2>1, <2>2, <2>3 DEF Brings
<1>6. \A x \in g.kept : Has(t, x)
  <2>1. Has(t, "open")
    BY <1>1 DEF Has
  <2> QED  BY <2>1 DEF LaidIds
<1>7. \A x \in g.kept : x \in Words /\ (x # e /\ R[x] < R[e] => R[x] <= R[p])
  <2> TAKE x \in g.kept
  <2>1. PICK k \in DOMAIN t : t[k] = x
    BY <1>6 DEF Has
  <2>2. ASSUME R[x] < R[e]  PROVE k \in 1..(n - 1)
    <3>1. ~(n < k)
      BY <1>1, <1>3, <2>1, <2>2 DEF Sorted
    <3>2. k # n
      <4>1. R[x] \in 0..4
        BY <1>1, <1>3, <2>1
      <4> QED  BY <2>1, <2>2, <4>1
    <3> QED  BY <1>1, <3>1, <3>2
  <2> QED  BY <1>1, <1>4, <2>1, <2>2
<1> HIDE DEF R, e, p
<1>8. CASE R[p] = R[e]
  BY <1>2, <1>8 DEF Below, R, e
<1>9. CASE R[p] # R[e]
  <2>0. R[p] < R[e] /\ R[p] \in 0..4 /\ R[e] \in 0..4
    <3>1. R[p] \in 0..4 /\ R[e] \in 0..4
      BY <1>1, <1>3
    <3> QED  BY <1>4, <1>9, <3>1
  <2>1. CASE e \in OwnKeys
    <3>1. R[e] = 0
      BY <1>3, <2>1
    <3> QED  BY <2>0, <3>1
  <2>2. CASE e = "gap"
    <3>1. "close" \in g.kept /\ \A x \in Words : R[x] = 3 => x = "close"
      BY DEF Frame, R
    <3>2. R[p] = 3 /\ p = "close"
      <4>1. R["close"] = 3 /\ R[e] = 4 /\ "close" # e
        BY <1>3, <2>2
      <4>2. 3 <= R[p]
        BY <1>7, <3>1, <4>1
      <4>3. R[p] = 3
        BY <2>0, <4>1, <4>2
      <4> QED  BY <1>1, <3>1, <4>3
    <3>3. \A k \in (j + 1)..Len(w) : R[w[k]] = 4
      BY <1>2, <1>3, <3>1, <3>2
    <3> QED  BY <1>3, <2>2, <3>3 DEF Below, R, e
  <2>3. CASE e = "tag"
    <3>1. "tag" \notin g.kept
      <4>1. CASE Has(s, "open")
        BY <1>5, <2>3, <4>1 DEF LaidIds
      <4>2. CASE ~Has(s, "open")
        BY <4>2 DEF LaidIds
      <4> QED  BY <4>1, <4>2
    <3>2. R[e] = 2 /\ \E x \in Words : R[x] = 1
      BY <1>1, <1>3, <2>0, <2>3, <3>1 DEF Frame, R
    <3>3. PICK x \in Words : R[x] = 1
      BY <3>2
    <3>4. x \in g.kept /\ \A y \in Words : R[y] = 1 => y = x
      BY <3>3 DEF Frame, R
    <3>5. p = x
      BY <1>1, <1>3, <1>7, <2>0, <3>2, <3>3, <3>4
    <3>6. ASSUME NEW k \in (j + 1)..Len(w)  PROVE R[w[k]] >= 2
      <4>1. w[k] \in Words /\ w[k] # x /\ R[x] <= R[w[k]]
        BY <1>2, <3>5
      <4>2. R[w[k]] \in 0..4 /\ R[w[k]] # 1
        BY <1>3, <3>4, <4>1
      <4> QED  BY <3>3, <4>1, <4>2
    <3> QED  BY <3>2, <3>6 DEF Below, R, e
  <2>4. CASE e = "close"
    <3>1. "close" \in g.kept
      BY DEF Frame
    <3>2. ~Has(s, "open") /\ \A k \in DOMAIN s : R[s[k]] = 4
      BY <1>5, <2>4, <3>1 DEF LaidIds, R
    <3>3. \A k \in 1..(n - 1) : ~Has(s, t[k])
      <4>1. \A k \in 1..(n - 1) : R[t[k]] # 4
        BY <1>1, <1>3, <1>4, <2>0, <2>4
      <4> QED  BY <3>2, <4>1 DEF Has
    <3>4. /\ Len(w) = n - 1 + Len(s)
          /\ \A k \in 1..(n - 1) : w[k] = t[k]
          /\ \A k \in 1..Len(s) : w[n - 1 + k] = s[k]
      BY <3>2, <3>3 DEF WovenIn
    <3>5. j = n - 1
      <4>1. n - 1 \in DOMAIN w /\ w[n - 1] = p
        BY <1>1, <3>4 DEF p
      <4> QED  BY <1>1, <4>1 DEF Once, p
    <3>6. \A k \in (j + 1)..Len(w) : R[w[k]] = 4
      <4> TAKE k \in (j + 1)..Len(w)
      <4>1. k - (n - 1) \in 1..Len(s) /\ n - 1 + (k - (n - 1)) = k
        BY <1>1, <3>4, <3>5
      <4>2. w[k] = s[k - (n - 1)]
        BY <3>4, <4>1
      <4>3. k - (n - 1) \in DOMAIN s
        BY <1>1, <4>1
      <4> QED  BY <3>2, <4>2, <4>3
    <3> QED  BY <1>3, <2>4, <3>6 DEF Below, R, e
  <2> QED  BY <1>5, <2>1, <2>2, <2>3, <2>4 DEF BlockIds
<1> QED  BY <1>8, <1>9

LEMMA WovenInMore ==
  ASSUME NEW g, Frame(g), g.closed, NEW s, NEW t, LaidIds(g, s), LaidIds(g, t), Brings(s, t),
         t[1] = "open", NEW n \in 1..Len(t), NEW w, WovenIn(g, w, s, t, n - 1)
  PROVE  WovenIn(g, Woven(w, t, n), s, t, n)
<1> DEFINE R == g.rank
           e == t[n]
           v == Woven(w, t, n)
           fresh == ~Has(s, "open") /\ \A k \in 1..n : ~Has(s, t[k])
<1>1. /\ t \in Seq(Words) /\ Once(t) /\ DOMAIN t = 1..Len(t) /\ Len(t) \in Nat
      /\ s \in Seq(Words) /\ w \in Seq(Words) /\ Once(w) /\ Sorted(R, w) /\ DOMAIN w = 1..Len(w)
      /\ n \in DOMAIN t /\ e \in Words /\ R \in [Words -> 0..4]
  BY RankFacts DEF LaidIds, WovenIn
<1>2. v \in Seq(Words) /\ (Has(w, e) => v = w) /\ \A x : Has(v, x) <=> Has(w, x) \/ x = e
  BY <1>1, WovenFacts
<1>3. \A x : Has(v, x) <=> Has(s, x) \/ \E k \in 1..n : t[k] = x
  <2> TAKE x
  <2>1. Has(w, x) <=> Has(s, x) \/ \E k \in 1..(n - 1) : t[k] = x
    BY DEF WovenIn
  <2>2. (\E k \in 1..n : t[k] = x) <=> x = e \/ \E k \in 1..(n - 1) : t[k] = x
    OBVIOUS
  <2> HIDE DEF e, v
  <2> QED  BY <1>2, <2>1, <2>2
<1>4. ASSUME fresh  PROVE /\ Len(w) = n - 1 + Len(s) /\ ~Has(w, e)
                          /\ \A k \in 1..(n - 1) : w[k] = t[k]
                          /\ \A k \in 1..Len(s) : w[n - 1 + k] = s[k]
  <2>1. \A k \in 1..(n - 1) : k \in 1..n
    OBVIOUS
  <2>2. \A k \in 1..(n - 1) : t[k] # e
    BY <1>1 DEF Once
  <2> QED  BY <1>4, <2>1, <2>2 DEF WovenIn
<1>5. CASE Has(w, e)
  <2>1. v = w /\ ~fresh
    BY <1>2, <1>4, <1>5
  <2>2. WovenIn(g, v, s, t, n)
    BY <1>1, <1>3, <2>1 DEF WovenIn
  <2> QED  BY <2>2
<1>6. CASE ~Has(w, e)
  <2>1. PICK p \in 1..(Len(w) + 1) :
           /\ v = InsertAt(w, p, e)
           /\ n = 1 => p = 1
           /\ n > 1 /\ Has(w, t[n - 1]) => p > 1 /\ p - 1 \in DOMAIN w /\ w[p - 1] = t[n - 1]
    BY <1>1, <1>6, WovenAt
  <2>2. n > 1 => Has(w, t[n - 1])
    <3>1. n > 1 => n - 1 \in 1..(n - 1)
      OBVIOUS
    <3> QED  BY <3>1 DEF WovenIn
  <2>3. (\A k \in 1..(p - 1) : R[w[k]] <= R[e]) /\ (\A k \in p..Len(w) : R[e] <= R[w[k]])
    <3>1. CASE n = 1
      <4>1. e = "open" /\ p = 1 /\ R[e] = 0
        BY <2>1, <3>1, RankFacts
      <4>2. \A k \in 1..Len(w) : R[w[k]] \in 0..4
        BY <1>1
      <4> QED  BY <4>1, <4>2
    <3>2. CASE n > 1
      <4>0. p > 1 /\ p - 1 \in DOMAIN w /\ w[p - 1] = t[n - 1]
        BY <2>1, <2>2, <3>2
      <4>1. Below(R, w, p - 1, e)
        BY <1>6, <3>2, <4>0, RoomBelow
      <4>2. R[w[p - 1]] <= R[e]
        <5>1. n - 1 \in DOMAIN t /\ n - 1 < n
          BY <1>1, <3>2
        <5> QED  BY <1>1, <4>0, <5>1 DEF LaidIds, Sorted
      <4>3. ASSUME NEW k \in 1..(p - 1)  PROVE R[w[k]] <= R[e]
        <5>1. k \in DOMAIN w /\ (k = p - 1 \/ k < p - 1)
          BY <1>1, <4>0
        <5>2. k < p - 1 => R[w[k]] <= R[w[p - 1]]
          BY <1>1, <4>0, <5>1 DEF Sorted
        <5>3. R[w[k]] \in 0..4 /\ R[w[p - 1]] \in 0..4 /\ R[e] \in 0..4
          BY <1>1, <4>0, <5>1
        <5> QED  BY <4>2, <5>1, <5>2, <5>3
      <4> QED  BY <4>0, <4>1, <4>3 DEF Below
    <3> QED  BY <1>1, <3>1, <3>2
  <2> HIDE DEF R, e, v
  <2>4. Once(v) /\ Sorted(R, v)
    BY <1>1, <1>6, <2>1, <2>3, InsertSorted
  <2>5. ASSUME fresh
        PROVE  Len(v) = n + Len(s) /\ (\A k \in 1..n : v[k] = t[k]) /\ \A k \in 1..Len(s) : v[n + k] = s[k]
    <3>1. Len(w) = n - 1 + Len(s) /\ (\A k \in 1..(n - 1) : w[k] = t[k]) /\ \A k \in 1..Len(s) : w[n - 1 + k] = s[k]
      BY <1>4, <2>5
    <3>2. p = n
      <4>1. CASE n = 1
        BY <2>1, <4>1
      <4>2. CASE n > 1
        <5>1. p - 1 \in DOMAIN w /\ w[p - 1] = t[n - 1]
          BY <2>1, <2>2, <4>2
        <5>2. n - 1 \in DOMAIN w /\ w[n - 1] = t[n - 1]
          BY <1>1, <3>1, <4>2
        <5>3. p - 1 = n - 1
          BY <1>1, <5>1, <5>2 DEF Once
        <5> QED  BY <5>3
      <4> QED  BY <1>1, <4>1, <4>2
    <3>3. /\ Len(v) = Len(w) + 1
          /\ \A k \in 1..(p - 1) : v[k] = w[k]
          /\ v[p] = e
          /\ \A k \in (p + 1)..(Len(w) + 1) : v[k] = w[k - 1]
      <4> DEFINE y == InsertAt(w, p, e)
      <4>1. w \in Seq(Words) /\ e \in Words
        BY <1>1
      <4>2. /\ Len(y) = Len(w) + 1
            /\ \A k \in 1..(p - 1) : y[k] = w[k]
            /\ y[p] = e
            /\ \A k \in (p + 1)..(Len(w) + 1) : y[k] = w[k - 1]
        BY <4>1, InsertFacts
      <4>3. v = y
        BY <2>1
      <4> HIDE DEF y
      <4> QED  BY <4>2, <4>3
    <3>4. \A k \in 1..n : v[k] = t[k]
      <4>1. \A k \in 1..n : k = n \/ k \in 1..(n - 1)
        OBVIOUS
      <4> QED  BY <3>1, <3>2, <3>3, <4>1 DEF e
    <3>5. ASSUME NEW k \in 1..Len(s)  PROVE v[n + k] = s[k]
      <4>1. n + k \in (p + 1)..(Len(w) + 1) /\ n + k - 1 = n - 1 + k
        BY <1>1, <3>1, <3>2
      <4>2. v[n + k] = w[n - 1 + k]
        BY <3>3, <4>1
      <4> QED  BY <3>1, <4>2
    <3>6. Len(v) = n + Len(s)
      BY <1>1, <3>1, <3>3
    <3> QED  BY <3>4, <3>5, <3>6
  <2>6. WovenIn(g, v, s, t, n)
    BY <1>2, <1>3, <2>4, <2>5 DEF WovenIn, R
  <2> QED  BY <2>6 DEF v
<1> QED  BY <1>5, <1>6

\* The rows of a merge are laid out as the notes are.
LEMMA WeaveLaid ==
  ASSUME NEW g, Frame(g), g.closed, NEW s, NEW t, LaidIds(g, s), LaidIds(g, t), Brings(s, t),
         Has(t, "open") => t[1] = "open",
         ~Has(t, "open") => \A x \in OwnKeys \cup BlockIds \cup {"tag"} : ~Has(t, x)
  PROVE  LaidIds(g, Weave(s, t))
<1>1. s \in Seq(Words) /\ t \in Seq(Words)
  BY DEF LaidIds
<1>2. /\ Weave(s, t) \in Seq(Words)
      /\ \A x : Has(Weave(s, t), x) <=> Has(s, x) \/ Has(t, x)
      /\ (\A x : Has(t, x) => Has(s, x)) => Weave(s, t) = s
  BY <1>1, WeaveHas
<1>3. CASE ~Has(t, "open")
  <2>1. \A x : Has(t, x) => Has(s, x)
    BY <1>3 DEF Brings
  <2> QED  BY <1>2, <2>1
<1>4. CASE Has(t, "open")
  <2> DEFINE N == Len(t)
  <2>1. t[1] = "open" /\ N \in Nat
    BY <1>1, <1>4
  <2>2. PICK q : /\ q \in [0..N -> Seq(Words)] /\ q[0] = s /\ q[N] = Weave(s, t)
                 /\ \A i \in 1..N : q[i] = Woven(q[i - 1], t, i)
    BY <1>1, WeaveReads
  <2> DEFINE S == {n \in 0..N : WovenIn(g, q[n], s, t, n)}
  <2>3. 0 \in S
    <3>1. WovenIn(g, s, s, t, 0)
      BY <1>1 DEF WovenIn, LaidIds
    <3> QED  BY <2>1, <2>2, <3>1
  <2>4. ASSUME NEW n \in 1..N, n - 1 \in S  PROVE n \in S
    <3>1. WovenIn(g, Woven(q[n - 1], t, n), s, t, n)
      BY <2>1, <2>4, WovenInMore
    <3> QED  BY <2>2, <3>1
  <2>5. N \in S
    <3>1. \A n \in 0..N : n \in S
      <4> HIDE DEF S
      <4> QED  BY <2>1, <2>3, <2>4, UpTo
    <3> QED  BY <2>1, <3>1
  <2>6. Once(Weave(s, t)) /\ Sorted(g.rank, Weave(s, t))
    BY <2>2, <2>5 DEF WovenIn
  <2>7. Has(Weave(s, t), "open") /\ \A x \in g.kept : Has(Weave(s, t), x)
    BY <1>2, <1>4 DEF LaidIds
  <2> QED  BY <1>2, <2>6, <2>7 DEF LaidIds
<1> QED  BY <1>3, <1>4

-----------------------------------------------------------------------------
(* What a merge makes of each line where every id is there once, created    *)
(* and modified too.                                                       *)

\* A line of a merge is the one side's that wrote it, or what the resolver
\* takes of two.
CellLaw(f, o, t, c, op) ==
  \/ c = Merged(f, o, t) /\ (f # t => o \in {f, t})
  \/ \E l, m : o = <<l>> /\ t = <<m>> /\ \E w \in Reconcile(l, m, op) : c = <<w>>

KeyedCell(c) == \A l : c = <<l>> /\ l.id \in OwnKeys => l.key = l.id

\* z has the lines of the rows in their order
InOrder(z, ids, N) ==
  \A k, l \in DOMAIN z : k < l => \E r, s \in 1..N : r < s /\ z[k].id = ids[r] /\ z[l].id = ids[s]

LEMMA OrderMade ==
  ASSUME NEW N \in Nat, NEW a, NEW parts, NEW ids, Makes(a, N, parts),
         \A r \in 1..N : CellOf(parts[r], ids[r])
  PROVE  InOrder(a, ids, N)
<1>1. ASSUME NEW l, NEW r \in 1..N, parts[r] = <<l>>  PROVE l.id = ids[r]
  <2>1. PICK m \in NoteLines : parts[r] = <<m>> /\ m.id = ids[r]
    BY <1>1 DEF CellOf
  <2> QED  BY <1>1, <2>1
<1>2. ASSUME NEW k \in DOMAIN a, NEW l \in DOMAIN a, k < l
      PROVE  \E r, s \in 1..N : r < s /\ a[k].id = ids[r] /\ a[l].id = ids[s]
  <2>1. PICK r, s \in 1..N : r < s /\ parts[r] = <<a[k]>> /\ parts[s] = <<a[l]>>
    BY <1>2 DEF Makes
  <2>2. a[k].id = ids[r] /\ a[l].id = ids[s]
    BY <1>1, <2>1
  <2> QED  BY <2>1, <2>2
<1> QED  BY <1>2 DEF InOrder

\* With every id once, a row is found by its id.
LEMMA AtRow ==
  ASSUME NEW N \in Nat, NEW a, NEW parts, NEW ids, Makes(a, N, parts),
         \A r \in 1..N : CellOf(parts[r], ids[r]),
         \A r, s \in 1..N : ids[r] = ids[s] => r = s, NEW r \in 1..N
  PROVE  /\ \A k \in DOMAIN a : a[k].id = ids[r] => parts[r] = <<a[k]>>
         /\ (\A k \in DOMAIN a : a[k].id # ids[r]) => parts[r] = <<>>
<1>1. ASSUME NEW l, NEW s \in 1..N, parts[s] = <<l>>  PROVE l.id = ids[s]
  <2>1. PICK m \in NoteLines : parts[s] = <<m>> /\ m.id = ids[s]
    BY <1>1 DEF CellOf
  <2> QED  BY <1>1, <2>1
<1>2. ASSUME NEW k \in DOMAIN a, a[k].id = ids[r]  PROVE parts[r] = <<a[k]>>
  <2>1. PICK s \in 1..N : parts[s] = <<a[k]>>
    BY DEF Makes
  <2> QED  BY <1>1, <1>2, <2>1
<1>3. ASSUME parts[r] # <<>>  PROVE \E k \in DOMAIN a : a[k].id = ids[r]
  <2>1. PICK k \in DOMAIN a : parts[r] = <<a[k]>>
    BY <1>3 DEF Makes
  <2> QED  BY <1>1, <2>1
<1> QED  BY <1>2, <1>3

LEMMA MergeCells ==
  ASSUME NEW N \in Nat, NEW f \in RowCells(N), NEW o \in RowCells(N), NEW t \in RowCells(N),
         NEW ids, \A r, s \in 1..N : ids[r] = ids[s] => r = s, NEW diff3 \in BOOLEAN, NEW op,
         \A r \in 1..N : /\ CellOf(o[r], ids[r]) /\ FineCell(o[r]) /\ KeyedCell(o[r])
                         /\ CellOf(t[r], ids[r]) /\ FineCell(t[r]) /\ KeyedCell(t[r]),
         NEW z \in Resolved(MergeRows(f, o, t, diff3), op)
  PROVE  /\ InOrder(z, ids, N)
         /\ \A r \in 1..N :
              /\ \A k \in DOMAIN z : z[k].id = ids[r] => CellLaw(f[r], o[r], t[r], <<z[k]>>, op)
              /\ (\A k \in DOMAIN z : z[k].id # ids[r]) => CellLaw(f[r], o[r], t[r], <<>>, op)
<1> DEFINE clash == Clashes(f, o, t)
           file == Written(f, o, t, clash, diff3)
           po == [r \in 1..N |-> SideRow(clash, o, f, o, t, r)]
           pt == [r \in 1..N |-> SideRow(clash, t, f, o, t, r)]
<1>0. IdRows(ids, N)
  BY DEF IdRows
<1>1. \A r \in 1..N : o[r] \in Cells /\ t[r] \in Cells
  BY RowType
<1>2. \A r \in 1..N : po[r] \in {o[r], t[r]} /\ pt[r] \in {o[r], t[r]}
  BY DEF SideRow, Merged
<1>3. po \in RowCells(N) /\ pt \in RowCells(N)
  BY <1>1, <1>2 DEF RowCells
<1>4. \A r \in 1..N : /\ CellOf(po[r], ids[r]) /\ FineCell(po[r]) /\ KeyedCell(po[r])
                      /\ CellOf(pt[r], ids[r]) /\ FineCell(pt[r]) /\ KeyedCell(pt[r])
  BY <1>2
<1>5. \A r \in 1..N : po[r] = SideRow(clash, o, f, o, t, r) /\ pt[r] = SideRow(clash, t, f, o, t, r)
  OBVIOUS
<1>6. \A r \in 1..N : /\ r \in clash => o[r] # t[r]
                      /\ r \notin clash /\ f[r] # t[r] => o[r] \in {f[r], t[r]}
  BY ClashFacts
<1>7. Resolved(MergeRows(f, o, t, diff3), op) = IF clash # {} THEN ResolveConflict(file, op) ELSE {file}
  BY DEF Resolved, MergeRows
<1> HIDE DEF clash, file, po, pt
<1>8. PICK jo : JoinedUp(jo, N, po) /\ Makes(jo[N], N, po) /\ jo[N] \in Seq(FineLines)
  BY <1>0, <1>3, <1>4, JoinedParts
<1>9. PICK jt : JoinedUp(jt, N, pt) /\ Makes(jt[N], N, pt) /\ jt[N] \in Seq(FineLines)
  BY <1>0, <1>3, <1>4, JoinedParts
<1> DEFINE a == jo[N]
           b == jt[N]
<1>10. InOrder(a, ids, N)
  BY <1>4, <1>8, OrderMade
<1>11. ASSUME NEW r \in 1..N
       PROVE  /\ \A k \in DOMAIN a : a[k].id = ids[r] => po[r] = <<a[k]>>
              /\ (\A k \in DOMAIN a : a[k].id # ids[r]) => po[r] = <<>>
              /\ \A k \in DOMAIN b : b[k].id = ids[r] => pt[r] = <<b[k]>>
              /\ (\A k \in DOMAIN b : b[k].id # ids[r]) => pt[r] = <<>>
  <2> HIDE DEF a, b
  <2>1. Makes(a, N, po) /\ Makes(b, N, pt)
    BY <1>8, <1>9 DEF a, b
  <2>2. (\A s \in 1..N : CellOf(po[s], ids[s])) /\ \A s \in 1..N : CellOf(pt[s], ids[s])
    BY <1>4
  <2>3. /\ \A k \in DOMAIN a : a[k].id = ids[r] => po[r] = <<a[k]>>
        /\ (\A k \in DOMAIN a : a[k].id # ids[r]) => po[r] = <<>>
    BY <2>1, <2>2, AtRow
  <2>4. /\ \A k \in DOMAIN b : b[k].id = ids[r] => pt[r] = <<b[k]>>
        /\ (\A k \in DOMAIN b : b[k].id # ids[r]) => pt[r] = <<>>
    BY <2>1, <2>2, AtRow
  <2> QED  BY <2>3, <2>4
<1>12. ASSUME NEW r \in 1..N, r \notin clash
       PROVE  po[r] = pt[r] /\ CellLaw(f[r], o[r], t[r], po[r], op)
  BY <1>5, <1>6, <1>12 DEF SideRow, CellLaw, Merged
<1>13. CASE clash = {}
  <2>1. \A r \in 1..N : po[r] = Merged(f[r], o[r], t[r])
    BY <1>5, <1>13 DEF SideRow
  <2>2. Written(f, o, t, {}, diff3) = jo[N]
    BY <1>8, <2>1, WrittenPlain
  <2>3. z = a
    BY <1>7, <1>13, <2>2 DEF file
  <2> HIDE DEF a
  <2> QED  BY <1>10, <1>11, <1>12, <1>13, <2>3
<1>14. CASE clash # {}
  <2>1. z \in ResolveConflict(file, op)
    BY <1>7, <1>14
  <2>2. SplitConflict(file).ours = a /\ SplitConflict(file).theirs = b
    <3>1. LET split == SplitConflict(Written(f, o, t, clash, diff3)) IN
          split.state = "common" /\ split.ours = jo[N] /\ split.theirs = jt[N]
      BY <1>5, <1>8, <1>9, SplitsAsWritten
    <3> QED  BY <3>1 DEF file
  <2>3. z \in MergeSides(a, b, op)
    BY <2>1, <2>2 DEF ResolveConflict
  <2>4. FromSides(z, a, b, op)
    BY <1>8, <1>9, <2>3, SidesMerged
  <2>5. DOMAIN z = DOMAIN a /\ DOMAIN b = DOMAIN a
    <3>1. a \in Seq(FineLines) /\ b \in Seq(FineLines)
      BY <1>8, <1>9
    <3> HIDE DEF a, b
    <3> QED  BY <2>4, <3>1 DEF FromSides
  <2>6. /\ \A i \in DOMAIN a : a[i].id \in OwnKeys => a[i].key = a[i].id
        /\ \A i \in DOMAIN b : b[i].id \in OwnKeys => b[i].key = b[i].id
    <3> HIDE DEF a, b
    <3>1. Makes(a, N, po) /\ Makes(b, N, pt)
      BY <1>8, <1>9 DEF a, b
    <3>2. ASSUME NEW i \in DOMAIN a, a[i].id \in OwnKeys  PROVE a[i].key = a[i].id
      <4>1. PICK r \in 1..N : po[r] = <<a[i]>>
        BY <3>1 DEF Makes
      <4> QED  BY <1>4, <3>2, <4>1 DEF KeyedCell
    <3>3. ASSUME NEW i \in DOMAIN b, b[i].id \in OwnKeys  PROVE b[i].key = b[i].id
      <4>1. PICK r \in 1..N : pt[r] = <<b[i]>>
        BY <3>1 DEF Makes
      <4> QED  BY <1>4, <3>3, <4>1 DEF KeyedCell
    <3> QED  BY <3>2, <3>3
  <2> HIDE DEF a, b
  <2>7. ASSUME NEW i \in DOMAIN a
        PROVE  /\ b[i].id = a[i].id /\ z[i].id = a[i].id
               /\ \/ z[i] = a[i] /\ b[i] = a[i]
                  \/ a[i] # b[i] /\ z[i] \in Reconcile(a[i], b[i], op)
    <3>1. CASE z[i] = a[i] /\ b[i] = a[i]
      BY <3>1
    <3>2. CASE /\ z[i] \in {a[i], b[i]} /\ a[i].id \in OwnKeys /\ b[i].id \in OwnKeys
               /\ a[i] # b[i] /\ z[i] \in Reconcile(a[i], b[i], op)
      <4>1. a[i].key = b[i].key
        BY <3>2 DEF Reconcile
      <4> QED  BY <2>5, <2>6, <3>2, <4>1
    <3> QED  BY <2>4, <3>1, <3>2 DEF FromSides
  <2>8. InOrder(z, ids, N)
    BY <1>10, <2>5, <2>7 DEF InOrder
  <2>9. ASSUME NEW r \in 1..N
        PROVE  /\ \A k \in DOMAIN z : z[k].id = ids[r] => CellLaw(f[r], o[r], t[r], <<z[k]>>, op)
               /\ (\A k \in DOMAIN z : z[k].id # ids[r]) => CellLaw(f[r], o[r], t[r], <<>>, op)
    <3>1. ASSUME NEW k \in DOMAIN z, z[k].id = ids[r]  PROVE CellLaw(f[r], o[r], t[r], <<z[k]>>, op)
      <4>1. k \in DOMAIN a /\ k \in DOMAIN b /\ a[k].id = ids[r] /\ b[k].id = ids[r]
        BY <2>5, <2>7, <3>1
      <4>2. po[r] = <<a[k]>> /\ pt[r] = <<b[k]>>
        BY <1>11, <4>1
      <4>3. CASE r \notin clash
        <5>1. po[r] = pt[r] /\ CellLaw(f[r], o[r], t[r], po[r], op)
          BY <1>12, <4>3
        <5>2. a[k] = b[k]
          BY <4>2, <5>1
        <5>3. z[k] = a[k]
          BY <2>7, <4>1, <5>2
        <5> QED  BY <4>2, <5>1, <5>3
      <4>4. CASE r \in clash
        <5>1. o[r] = <<a[k]>> /\ t[r] = <<b[k]>> /\ a[k] # b[k]
          BY <1>5, <1>6, <4>2, <4>4 DEF SideRow
        <5>2. z[k] \in Reconcile(a[k], b[k], op)
          BY <2>7, <4>1, <5>1
        <5> QED  BY <5>1, <5>2 DEF CellLaw
      <4> QED  BY <4>3, <4>4
    <3>2. ASSUME \A k \in DOMAIN z : z[k].id # ids[r]  PROVE CellLaw(f[r], o[r], t[r], <<>>, op)
      <4>1. po[r] = <<>> /\ pt[r] = <<>>
        BY <1>11, <2>5, <2>7, <3>2
      <4>2. r \notin clash
        BY <1>5, <1>6, <4>1 DEF SideRow
      <4> QED  BY <1>12, <4>1, <4>2
    <3> QED  BY <3>1, <3>2
  <2> QED  BY <2>8, <2>9
<1> QED  BY <1>13, <1>14

\* The rows of a merge of notes that are laid out are so, too.
LEMMA MergeIdsLaid ==
  ASSUME NEW g, Frame(g), g.closed, NEW f, NEW o, NEW t, Regular(f), Regular(o), Regular(t),
         Follows(f, o), Follows(f, t),
         LaidIds(g, Ids(f)), LaidIds(g, Ids(o)), LaidIds(g, Ids(t))
  PROVE  LaidIds(g, MergeIds(f, o, t))
<1> DEFINE F == Ids(f)
           O == Ids(o)
           T == Ids(t)
           V == Weave(F, O)
<1>1. ASSUME NEW note, Regular(note)
      PROVE  /\ Has(Ids(note), "open") => Ids(note)[1] = "open"
             /\ ~Has(Ids(note), "open") =>
                  \A x \in OwnKeys \cup BlockIds \cup {"tag"} : ~Has(Ids(note), x)
  <2>1. \A id : Has(Ids(note), id) <=> At(note, id) # <<>>
    BY <1>1, RegularCells
  <2>2. DOMAIN note = 1..Len(note) /\ \A i \in DOMAIN note : Ids(note)[i] = note[i].id
    BY <1>1, RegularCells
  <2>3. Has(Ids(note), "open") => note # <<>> /\ note[1].id = "open"
    BY <1>1, <2>1, RegularHead
  <2>4. note # <<>> => 1 \in DOMAIN note
    BY <1>1, RegularCells DEF Cells
  <2>5. ~Has(Ids(note), "open") => \A x \in OwnKeys \cup BlockIds \cup {"tag"} : ~Has(Ids(note), x)
    BY <1>1, <2>1, RegularHead
  <2> QED  BY <2>2, <2>3, <2>4, <2>5
<1>2. ASSUME NEW u, Regular(u), Follows(f, u)  PROVE Brings(F, Ids(u))
  <2>1. \A id : (Has(F, id) <=> At(f, id) # <<>>) /\ (Has(Ids(u), id) <=> At(u, id) # <<>>)
    BY <1>2, RegularCells
  <2> HIDE DEF F
  <2> QED  BY <1>2, <2>1 DEF Brings, Follows, Grew
<1>3. F \in Seq(Words) /\ O \in Seq(Words) /\ T \in Seq(Words)
  BY DEF LaidIds
<1>4. Brings(F, O) /\ Brings(F, T)
  BY <1>2
<1>5. /\ Has(O, "open") => O[1] = "open"
      /\ ~Has(O, "open") => \A x \in OwnKeys \cup BlockIds \cup {"tag"} : ~Has(O, x)
      /\ Has(T, "open") => T[1] = "open"
      /\ ~Has(T, "open") => \A x \in OwnKeys \cup BlockIds \cup {"tag"} : ~Has(T, x)
  BY <1>1
<1>6. LaidIds(g, F) /\ LaidIds(g, O) /\ LaidIds(g, T)
  OBVIOUS
<1> HIDE DEF F, O, T
<1>7. LaidIds(g, V)
  BY <1>4, <1>5, <1>6, WeaveLaid
<1>8. Brings(V, T)
  <2>1. \A x : Has(F, x) => Has(V, x)
    BY <1>3, WeaveHas
  <2> QED  BY <1>4, <2>1 DEF Brings
<1>9. LaidIds(g, Weave(V, T))
  <2> HIDE DEF V
  <2> QED  BY <1>5, <1>6, <1>7, <1>8, WeaveLaid
<1> QED  BY <1>9 DEF MergeIds, F, O, T, V

\* What a merge that ends well makes of a line, of created and modified too.
LEMMA CellsMerged ==
  ASSUME NEW f, NEW o, NEW t, Regular(f), Regular(o), Regular(t), Follows(f, o), Follows(f, t),
         Once(MergeIds(f, o, t)), Keyed(o), Keyed(t),
         NEW diff3 \in BOOLEAN, NEW op, NEW z \in Resolved(Merge(f, o, t, diff3), op)
  PROVE  /\ InOrder(z, MergeIds(f, o, t), Len(MergeIds(f, o, t)))
         /\ \A id : CellLaw(At(f, id), At(o, id), At(t, id), At(z, id), op)
<1> DEFINE W == MergeIds(f, o, t)
           N == Len(W)
           F == Rows(f, W)
           O == Rows(o, W)
           T == Rows(t, W)
<1>1. /\ W \in Seq(Words) /\ Once(W)
      /\ \A id : Has(W, id) <=> At(f, id) # <<>> \/ At(o, id) # <<>> \/ At(t, id) # <<>>
  BY MergeIdsFacts
<1>2. z \in Resolved(MergeRows(F, O, T, diff3), op)
  BY DEF Merge, MergeIds
<1>3. /\ Regular(z)
      /\ \A i \in DOMAIN z : (\E k \in DOMAIN o : z[i] = o[k]) \/ (\E k \in DOMAIN t : z[i] = t[k])
  BY MergeLaw
<1> HIDE DEF W
<1>4. N \in Nat /\ DOMAIN W = 1..N
  BY <1>1
<1>5. ASSUME NEW u, Regular(u), Keyed(u), NEW id  PROVE KeyedCell(At(u, id))
  <2>1. u \in Cells
    BY <1>5, RegularCells
  <2> QED  BY <1>5, <2>1, AtFacts DEF Keyed, KeyedCell
<1>6. F \in RowCells(N) /\ \A r \in 1..N : F[r] = At(f, W[r])
  BY <1>1, RowsFacts
<1>7. O \in RowCells(N) /\ \A r \in 1..N : /\ O[r] = At(o, W[r])
                                           /\ CellOf(O[r], W[r]) /\ FineCell(O[r]) /\ KeyedCell(O[r])
  BY <1>1, <1>5, RowsFacts
<1>8. T \in RowCells(N) /\ \A r \in 1..N : /\ T[r] = At(t, W[r])
                                           /\ CellOf(T[r], W[r]) /\ FineCell(T[r]) /\ KeyedCell(T[r])
  BY <1>1, <1>5, RowsFacts
<1>9. \A r, s \in 1..N : W[r] = W[s] => r = s
  BY <1>1, <1>4 DEF Once
<1> HIDE DEF N, F, O, T
<1>10. /\ InOrder(z, W, N)
       /\ \A r \in 1..N :
            /\ \A k \in DOMAIN z : z[k].id = W[r] => CellLaw(F[r], O[r], T[r], <<z[k]>>, op)
            /\ (\A k \in DOMAIN z : z[k].id # W[r]) => CellLaw(F[r], O[r], T[r], <<>>, op)
  <2>1. F \in RowCells(N) /\ O \in RowCells(N) /\ T \in RowCells(N)
    BY <1>6, <1>7, <1>8
  <2>2. \A r \in 1..N : /\ CellOf(O[r], W[r]) /\ FineCell(O[r]) /\ KeyedCell(O[r])
                        /\ CellOf(T[r], W[r]) /\ FineCell(T[r]) /\ KeyedCell(T[r])
    BY <1>7, <1>8
  <2>3. diff3 \in BOOLEAN /\ z \in Resolved(MergeRows(F, O, T, diff3), op)
    BY <1>2
  <2> QED  BY <1>4, <1>9, <2>1, <2>2, <2>3, MergeCells, SMTT(60)
<1>11. ASSUME NEW id  PROVE CellLaw(At(f, id), At(o, id), At(t, id), At(z, id), op)
  <2>0. z \in Cells /\ o \in Cells /\ t \in Cells
    BY <1>3, RegularCells
  <2>1. CASE \E r \in 1..N : W[r] = id
    <3>1. PICK r \in 1..N : W[r] = id
      BY <2>1
    <3>2. F[r] = At(f, id) /\ O[r] = At(o, id) /\ T[r] = At(t, id)
      BY <1>6, <1>7, <1>8, <3>1
    <3>3. CASE At(z, id) = <<>>
      <4>1. \A k \in DOMAIN z : z[k].id # id
        BY <2>0, <3>3, AtFacts
      <4> QED  BY <1>10, <3>1, <3>2, <3>3, <4>1
    <3>4. CASE At(z, id) # <<>>
      <4>1. PICK l \in NoteLines : At(z, id) = <<l>> /\ l.id = id
        BY <2>0, <3>4, AtFacts DEF CellOf
      <4>2. PICK k \in DOMAIN z : l = z[k]
        BY <2>0, <4>1, AtFacts
      <4> QED  BY <1>10, <3>1, <3>2, <4>1, <4>2
    <3> QED  BY <3>3, <3>4
  <2>2. CASE \A r \in 1..N : W[r] # id
    <3>1. ~Has(W, id)
      BY <1>4, <2>2 DEF Has
    <3>2. At(f, id) = <<>> /\ At(o, id) = <<>> /\ At(t, id) = <<>>
      BY <1>1, <3>1
    <3>3. (\A k \in DOMAIN o : o[k].id # id) /\ \A k \in DOMAIN t : t[k].id # id
      BY <2>0, <3>2, AtFacts
    <3>4. \A k \in DOMAIN z : z[k].id # id
      BY <1>3, <3>3
    <3>5. At(z, id) = <<>>
      BY <2>0, <3>4, AtFacts
    <3> QED  BY <3>2, <3>5 DEF CellLaw, Merged
  <2> QED  BY <2>1, <2>2
<1> QED  BY <1>10, <1>11 DEF W, N

\* A merge keeps a layout (git's merge, conflict.go ResolveConflict).
LEMMA MergeLaid ==
  ASSUME NEW g, Frame(g), NEW f, NEW o, NEW t, Regular(f), Regular(o), Regular(t),
         Follows(f, o), Follows(f, t), Laid(g, f), Laid(g, o), Laid(g, t),
         NEW diff3 \in BOOLEAN, NEW op, NEW z \in Resolved(Merge(f, o, t, diff3), op)
  PROVE  Laid(g, z)
<1> DEFINE W == MergeIds(f, o, t)
<1>1. /\ Regular(z)
      /\ \A i \in DOMAIN z : (\E k \in DOMAIN o : z[i] = o[k]) \/ (\E k \in DOMAIN t : z[i] = t[k])
      /\ \A id : id \notin OwnKeys => Law(At(f, id), At(o, id), At(t, id), At(z, id))
  BY MergeLaw
<1>2. ASSUME NEW u \in {f, o, t, z}
      PROVE  /\ Ids(u) \in Seq(Words) /\ DOMAIN Ids(u) = DOMAIN u /\ DOMAIN u = 1..Len(u)
             /\ \A i \in DOMAIN u : Ids(u)[i] = u[i].id /\ u[i].id \in Words
             /\ \A id : Has(Ids(u), id) <=> At(u, id) # <<>>
  <2>1. Regular(u)
    BY <1>1
  <2>2. Ids(u) \in Seq(Words) /\ DOMAIN Ids(u) = DOMAIN u /\ \A i \in DOMAIN u : Ids(u)[i] = u[i].id
    BY <2>1, RegularCells
  <2> QED  BY <2>1, <2>2, RegularCells
<1>3. "open" \notin OwnKeys /\ "close" \notin OwnKeys /\ {"open", "close"} \subseteq BlockIds /\ "b1" # "open"
  BY DEF OwnKeys, BlockIds
<1>4. ASSUME NEW id \in BlockIds, NEW u \in {o, t}
      PROVE  At(f, id) # <<>> => At(u, id) = At(f, id)
  <2>1. id \notin OwnKeys
    BY DEF BlockIds, OwnKeys
  <2> QED  BY <2>1 DEF Follows, Grew
<1>5. CASE ~g.closed
  <2>1. \A u \in {f, o, t} : At(u, "open") # <<>> /\ At(u, "close") = <<>>
    BY <1>2, <1>5 DEF Laid
  <2>2. Law(At(f, "open"), At(o, "open"), At(t, "open"), At(z, "open"))
    BY <1>1, <1>3
  <2>3. Law(At(f, "close"), At(o, "close"), At(t, "close"), At(z, "close"))
    BY <1>1, <1>3
  <2>4. At(z, "open") # <<>> /\ At(z, "close") = <<>>
    BY <2>1, <2>2, <2>3 DEF Law
  <2> QED  BY <1>2, <1>5, <2>4 DEF Laid
<1>6. CASE g.closed
  <2>1. \A u \in {f, o, t} : /\ LaidIds(g, Ids(u)) /\ Keyed(u)
                             /\ \A i \in DOMAIN u : OddQuotes(u[i]) => g.rank[u[i].id] >= 1
    BY <1>6 DEF Laid
  <2>2. LaidIds(g, W)
    BY <1>6, <2>1, MergeIdsLaid
  <2>3. InOrder(z, W, Len(W))
    <3>1. Once(W)
      BY <2>2 DEF LaidIds
    <3> QED  BY <2>1, <3>1, CellsMerged
  <2> HIDE DEF W
  <2>4. \A i, k \in DOMAIN z : i < k => z[i].id # z[k].id /\ g.rank[z[i].id] <= g.rank[z[k].id]
    <3>1. DOMAIN W = 1..Len(W)
      BY <2>2 DEF LaidIds
    <3> QED  BY <2>2, <2>3, <3>1 DEF InOrder, LaidIds, Once, Sorted
  <2>5. Once(Ids(z)) /\ Sorted(g.rank, Ids(z))
    <3>1. Sorted(g.rank, Ids(z))
      BY <1>2, <2>4 DEF Sorted
    <3>2. Once(Ids(z))
      <4> SUFFICES ASSUME NEW i \in DOMAIN z, NEW k \in DOMAIN z, z[i].id = z[k].id  PROVE i = k
        BY <1>2 DEF Once
      <4>1. i \in 1..Len(z) /\ k \in 1..Len(z)
        BY <1>2
      <4> QED  BY <2>4, <4>1
    <3> QED  BY <3>1, <3>2
  <2>6. Keyed(z) /\ \A i \in DOMAIN z : OddQuotes(z[i]) => g.rank[z[i].id] >= 1
    BY <1>1, <2>1 DEF Keyed
  <2>7. ASSUME Has(Ids(z), "open")  PROVE \A x \in g.kept : Has(Ids(z), x)
    <3> TAKE x \in g.kept
    <3>1. x \notin OwnKeys /\ x # "b1" /\ "close" \in g.kept
      BY <1>6 DEF Frame
    <3>2. \A u \in {f, o, t} : /\ At(u, "open") # <<>> => At(u, x) # <<>>
                               /\ At(u, "open") = <<>> => x = "close" /\ At(u, x) = <<>>
      <4> TAKE u \in {f, o, t}
      <4>1. At(u, "open") # <<>> => At(u, x) # <<>>
        BY <1>2, <2>1 DEF LaidIds
      <4>2. At(u, "open") = <<>> => g.kept = {"close"}
        BY <1>2, <2>1 DEF LaidIds
      <4>3. At(u, "open") = <<>> => At(u, "close") = <<>>
        BY <1>3, RegularHead
      <4> QED  BY <4>1, <4>2, <4>3
    <3>3. Law(At(f, "open"), At(o, "open"), At(t, "open"), At(z, "open"))
      BY <1>1, <1>3
    <3>4. Law(At(f, x), At(o, x), At(t, x), At(z, x))
      BY <1>1, <3>1
    <3>5. At(z, "open") # <<>>
      BY <1>2, <2>7
    <3>6. \A u \in {o, t} : At(f, "open") # <<>> => At(u, "open") = At(f, "open")
      BY <1>3, <1>4
    <3>7. At(z, x) # <<>>
      BY <3>2, <3>3, <3>4, <3>5, <3>6 DEF Law
    <3> QED  BY <1>2, <3>7
  <2>8. ASSUME ~Has(Ids(z), "open")
        PROVE  g.kept = {"close"} /\ \A i \in DOMAIN z : g.rank[z[i].id] = 4
    <3>1. Law(At(f, "open"), At(o, "open"), At(t, "open"), <<>>)
      BY <1>1, <1>2, <1>3, <2>8
    <3>2. At(o, "open") = <<>> /\ At(t, "open") = <<>>
      BY <1>3, <1>4, <3>1 DEF Law
    <3>3. \A u \in {o, t} : g.kept = {"close"} /\ \A i \in DOMAIN u : g.rank[u[i].id] = 4
      <4> TAKE u \in {o, t}
      <4>1. ~Has(Ids(u), "open") /\ LaidIds(g, Ids(u))
        BY <1>2, <2>1, <3>2
      <4>2. g.kept = {"close"} /\ \A i \in DOMAIN Ids(u) : g.rank[Ids(u)[i]] = 4
        BY <4>1 DEF LaidIds
      <4>3. DOMAIN Ids(u) = DOMAIN u /\ \A i \in DOMAIN u : Ids(u)[i] = u[i].id
        BY <1>2
      <4> QED  BY <4>2, <4>3
    <3> QED  BY <1>1, <3>3
  <2>9. LaidIds(g, Ids(z))
    BY <1>2, <2>5, <2>7, <2>8 DEF LaidIds
  <2> QED  BY <1>6, <2>6, <2>9 DEF Laid
<1> QED  BY <1>5, <1>6

-----------------------------------------------------------------------------
(* What a user saves keeps a layout.                                        *)

LEMMA AtOnce ==
  ASSUME NEW note \in Cells, Once(Ids(note)), NEW i \in DOMAIN note
  PROVE  At(note, note[i].id) = <<note[i]>>
<1>1. PICK l \in NoteLines : At(note, note[i].id) = <<l>> /\ l.id = note[i].id
  BY AtFacts DEF CellOf
<1>2. PICK k \in DOMAIN note : l = note[k] /\ l.id = note[i].id
  BY <1>1, AtFacts
<1>3. k = i
  BY <1>2 DEF Once, Ids
<1> QED  BY <1>1, <1>2, <1>3

LEMMA AtOnceSame ==
  ASSUME NEW x \in Cells, NEW y \in Cells, Once(Ids(y)), NEW id,
         \A i \in DOMAIN x : x[i].id = id => \E k \in DOMAIN y : y[k] = x[i],
         \A k \in DOMAIN y : y[k].id = id => \E i \in DOMAIN x : x[i].id = id
  PROVE  At(x, id) = At(y, id)
<1>1. CASE At(x, id) = <<>>
  BY <1>1, AtFacts
<1>2. CASE At(x, id) # <<>>
  <2>1. PICK l \in NoteLines : At(x, id) = <<l>> /\ l.id = id
    BY <1>2, AtFacts DEF CellOf
  <2>2. PICK i \in DOMAIN x : l = x[i] /\ l.id = id
    BY <2>1, AtFacts
  <2>3. PICK k \in DOMAIN y : y[k] = x[i]
    BY <2>2
  <2>4. At(y, y[k].id) = <<y[k]>>
    BY AtOnce
  <2> QED  BY <2>1, <2>2, <2>3, <2>4
<1> QED  BY <1>1, <1>2

\* only values are written
SameLines(x, y) ==
  /\ DOMAIN y = DOMAIN x
  /\ \A i \in DOMAIN x : y[i].id = x[i].id /\ y[i].key = x[i].key /\ y[i].quote = x[i].quote

LEMMA LaidSame ==
  ASSUME NEW g, NEW x, NEW y, Laid(g, x), SameLines(x, y)
  PROVE  Laid(g, y)
<1>1. Ids(y) = Ids(x)
  BY DEF SameLines, Ids
<1>2. Keyed(x) => Keyed(y)
  BY DEF SameLines, Keyed
<1>3. \A i \in DOMAIN x : (OddQuotes(y[i]) <=> OddQuotes(x[i])) /\ y[i].id = x[i].id
  BY DEF SameLines, OddQuotes
<1>4. DOMAIN y = DOMAIN x
  BY DEF SameLines
<1> QED  BY <1>1, <1>2, <1>3, <1>4 DEF Laid

LEMMA LaidInsert ==
  ASSUME NEW g, Frame(g), g.closed, NEW note \in Cells, Laid(g, note), Has(Ids(note), "open"),
         NEW p \in 1..(Len(note) + 1), NEW e \in NoteLines, ~Has(Ids(note), e.id), ~OddQuotes(e),
         e.id \in OwnKeys => e.key = e.id,
         \A k \in 1..(p - 1) : g.rank[note[k].id] <= g.rank[e.id],
         \A k \in p..Len(note) : g.rank[e.id] <= g.rank[note[k].id]
  PROVE  Laid(g, InsertAt(note, p, e)) /\ Has(Ids(InsertAt(note, p, e)), "open")
<1> DEFINE w == Ids(note)
           x == e.id
           y == InsertAt(note, p, e)
           v == InsertAt(w, p, x)
           R == g.rank
<1>1. /\ LaidIds(g, w) /\ Keyed(note) /\ \A i \in DOMAIN note : OddQuotes(note[i]) => R[note[i].id] >= 1
  BY DEF Laid
<1>2. /\ w \in Seq(Words) /\ Once(w) /\ Sorted(R, w) /\ x \in Words /\ R \in [Words -> 0..4]
      /\ \A z \in g.kept : Has(w, z)
  BY <1>1, RankFacts DEF LaidIds, NoteLines
<1>3. DOMAIN note = 1..Len(note) /\ Len(note) \in Nat /\ Len(w) = Len(note) /\ \A i \in 1..Len(note) : w[i] = note[i].id
  BY DEF Ids, Cells
<1>4. /\ y \in Cells /\ Len(y) = Len(note) + 1
      /\ \A k \in 1..(p - 1) : y[k] = note[k]
      /\ y[p] = e
      /\ \A k \in (p + 1)..(Len(note) + 1) : y[k] = note[k - 1]
  <2>1. note \in Seq(NoteLines)
    BY DEF Cells
  <2>2. /\ InsertAt(note, p, e) \in Seq(NoteLines) /\ Len(InsertAt(note, p, e)) = Len(note) + 1
        /\ \A k \in 1..(p - 1) : InsertAt(note, p, e)[k] = note[k]
        /\ InsertAt(note, p, e)[p] = e
        /\ \A k \in (p + 1)..(Len(note) + 1) : InsertAt(note, p, e)[k] = note[k - 1]
    BY <2>1, InsertFacts
  <2> QED  BY <2>2 DEF Cells
<1>5. /\ v \in Seq(Words) /\ Len(v) = Len(note) + 1
      /\ \A k \in 1..(p - 1) : v[k] = w[k]
      /\ v[p] = x
      /\ \A k \in (p + 1)..(Len(note) + 1) : v[k] = w[k - 1]
  <2>1. p \in 1..(Len(w) + 1)
    BY <1>3
  <2> HIDE DEF w, x
  <2> QED  BY <1>2, <1>3, <2>1, InsertFacts
<1>6. Once(v) /\ Sorted(R, v)
  <2>1. ~Has(w, x) /\ p \in 1..(Len(w) + 1)
    BY <1>3
  <2>2. (\A k \in 1..(p - 1) : R[w[k]] <= R[x]) /\ \A k \in p..Len(w) : R[x] <= R[w[k]]
    BY <1>3
  <2> HIDE DEF w, x, R
  <2> QED  BY <1>2, <2>1, <2>2, InsertSorted
<1> HIDE DEF w, y, v, R
<1>7. DOMAIN y = 1..(Len(note) + 1) /\ DOMAIN v = DOMAIN y /\ DOMAIN Ids(y) = DOMAIN y
  BY <1>3, <1>4, <1>5 DEF Cells, Ids
<1>8. \A k \in DOMAIN y : \/ k < p /\ k \in DOMAIN note /\ y[k] = note[k]
                          \/ k = p /\ y[k] = e
                          \/ k > p /\ k - 1 \in DOMAIN note /\ y[k] = note[k - 1]
  BY <1>3, <1>4, <1>7
<1>9. \A k \in DOMAIN y : Ids(y)[k] = y[k].id /\ v[k] = y[k].id
  <2> TAKE k \in DOMAIN y
  <2>1. CASE k < p
    BY <1>3, <1>4, <1>5, <1>7, <2>1 DEF Ids
  <2>2. CASE k = p
    BY <1>4, <1>5, <1>7, <2>2 DEF Ids
  <2>3. CASE k > p
    <3>1. k \in (p + 1)..(Len(note) + 1) /\ k - 1 \in 1..Len(note)
      BY <1>3, <1>7, <2>3
    <3> QED  BY <1>3, <1>4, <1>5, <3>1 DEF Ids
  <2> QED  BY <1>3, <1>7, <2>1, <2>2, <2>3
<1>10. Ids(y) \in Seq(Words) /\ Once(Ids(y)) /\ Sorted(R, Ids(y))
  <2>1. Once(Ids(y)) /\ Sorted(R, Ids(y))
    BY <1>6, <1>7, <1>9 DEF Once, Sorted
  <2>2. \A k \in DOMAIN y : y[k].id \in Words
    <3>1. \A k \in DOMAIN y : y[k] \in NoteLines
      BY <1>4 DEF Cells
    <3> QED  BY <3>1 DEF NoteLines
  <2>3. Ids(y) \in [1..(Len(note) + 1) -> Words]
    BY <1>7, <2>2 DEF Ids
  <2>4. Len(note) + 1 \in Nat
    BY <1>3
  <2>5. Ids(y) \in Seq(Words)
    BY <2>3, <2>4, SeqDef
  <2> QED  BY <2>1, <2>5
<1>11. \A z : Has(w, z) => Has(Ids(y), z)
  <2> SUFFICES ASSUME NEW i \in DOMAIN note  PROVE \E k \in DOMAIN y : y[k] = note[i]
    BY <1>3, <1>7, <1>9 DEF Has, w, Ids
  <2>1. CASE i < p
    BY <1>3, <1>4, <1>7, <2>1
  <2>2. CASE i >= p
    <3>1. i + 1 \in (p + 1)..(Len(note) + 1) /\ (i + 1) - 1 = i
      BY <1>3, <2>2
    <3>2. y[i + 1] = note[i] /\ i + 1 \in DOMAIN y
      BY <1>3, <1>4, <1>7, <3>1
    <3> QED  BY <3>2
  <2> QED  BY <1>3, <2>1, <2>2
<1>12. Has(Ids(y), "open") /\ \A z \in g.kept : Has(Ids(y), z)
  BY <1>2, <1>11 DEF w
<1>13. Keyed(y) /\ \A i \in DOMAIN y : OddQuotes(y[i]) => R[y[i].id] >= 1
  BY <1>1, <1>8 DEF Keyed
<1>14. LaidIds(g, Ids(y))
  BY <1>10, <1>12 DEF LaidIds, R
<1> QED  BY <1>12, <1>13, <1>14 DEF Laid, R, y

LEMMA RewrittenLaid ==
  ASSUME NEW g, NEW note, Regular(note), Laid(g, note), NEW id, NEW t \in Int
  PROVE  Laid(g, Rewritten(note, id, t))
<1>1. note \in Cells
  BY RegularCells
<1>2. \A i \in DOMAIN note : note[i] \in NoteLines
  BY <1>1 DEF Cells
<1>3. SameLines(note, Rewritten(note, id, t))
  BY <1>2 DEF SameLines, Rewritten, NoteLines
<1> QED  BY <1>3, LaidSame

LEMMA RemovedLaid ==
  ASSUME NEW g, Frame(g), NEW note, Regular(note), Laid(g, note), NEW i \in DOMAIN note, note[i].id = "b1"
  PROVE  Laid(g, RemoveAt(note, i))
<1> DEFINE y == RemoveAt(note, i)
           n == Len(note)
           h(k) == IF k < i THEN k ELSE k + 1
<1>1. /\ note \in Cells /\ DOMAIN note = 1..n /\ n \in Nat
  BY RegularCells DEF Cells
<1>2. /\ y \in Cells /\ Len(y) = n - 1
      /\ \A k \in 1..(i - 1) : y[k] = note[k]
      /\ \A k \in i..(n - 1) : y[k] = note[k + 1]
  <2>1. i \in 1..Len(note) /\ note \in Seq(NoteLines)
    BY <1>1 DEF Cells
  <2> QED  BY <2>1, RemoveFacts DEF Cells
<1> HIDE DEF y, n
<1>3. DOMAIN y = 1..(n - 1)
  BY <1>1, <1>2 DEF Cells
<1>4. \A k \in DOMAIN y : h(k) \in DOMAIN note /\ h(k) # i /\ y[k] = note[h(k)]
  BY <1>1, <1>2, <1>3
<1>5. \A k \in DOMAIN note : k # i => \E m \in DOMAIN y : h(m) = k
  <2> SUFFICES ASSUME NEW k \in DOMAIN note, k # i  PROVE \E m \in DOMAIN y : h(m) = k
    OBVIOUS
  <2>1. CASE k < i
    BY <1>1, <1>3, <2>1
  <2>2. CASE k > i
    <3>1. k - 1 \in DOMAIN y /\ h(k - 1) = k
      BY <1>1, <1>3, <2>2
    <3> QED  BY <3>1
  <2> QED  BY <1>1, <2>1, <2>2
<1>6. \A k, m \in DOMAIN y : (h(k) = h(m) => k = m) /\ (k < m => h(k) < h(m))
  BY <1>1, <1>3
<1> HIDE DEF h
<1>7. /\ DOMAIN Ids(y) = DOMAIN y /\ \A k \in DOMAIN y : Ids(y)[k] = Ids(note)[h(k)]
      /\ DOMAIN Ids(note) = DOMAIN note /\ \A k \in DOMAIN note : Ids(note)[k] = note[k].id
  BY <1>4 DEF Ids
<1>8. \A x : x # "b1" => (Has(Ids(y), x) <=> Has(Ids(note), x))
  <2> TAKE x
  <2> HAVE x # "b1"
  <2>1. ASSUME Has(Ids(note), x)  PROVE Has(Ids(y), x)
    <3>1. PICK k \in DOMAIN note : note[k].id = x
      BY <1>7, <2>1 DEF Has
    <3>2. PICK m \in DOMAIN y : h(m) = k
      BY <1>5, <3>1
    <3> QED  BY <1>7, <3>1, <3>2 DEF Has
  <2>2. ASSUME Has(Ids(y), x)  PROVE Has(Ids(note), x)
    BY <1>4, <1>7, <2>2 DEF Has
  <2> QED  BY <2>1, <2>2
<1>9. CASE g.closed
  <2>1. /\ LaidIds(g, Ids(note)) /\ Keyed(note)
        /\ \A k \in DOMAIN note : OddQuotes(note[k]) => g.rank[note[k].id] >= 1
    BY <1>9 DEF Laid
  <2>2. Ids(y) \in Seq(Words)
    <3>1. \A k \in DOMAIN y : y[k].id \in Words
      <4>1. \A k \in DOMAIN y : y[k] \in NoteLines
        BY <1>2 DEF Cells
      <4> QED  BY <4>1 DEF NoteLines
    <3>2. Ids(y) \in [1..Len(y) -> Words] /\ Len(y) \in Nat
      BY <1>1, <1>2, <1>3, <3>1 DEF Ids, Cells
    <3> QED  BY <3>2, SeqDef
  <2>3. Once(Ids(y))
    BY <1>4, <1>6, <1>7, <2>1 DEF LaidIds, Once
  <2>4. Sorted(g.rank, Ids(y))
    <3> SUFFICES ASSUME NEW k \in DOMAIN y, NEW m \in DOMAIN y, k < m
                 PROVE  g.rank[Ids(y)[k]] <= g.rank[Ids(y)[m]]
      BY <1>7 DEF Sorted
    <3>1. h(k) \in DOMAIN note /\ h(m) \in DOMAIN note /\ h(k) < h(m)
      BY <1>4, <1>6
    <3> QED  BY <1>7, <2>1, <3>1 DEF LaidIds, Sorted
  <2>5. "b1" \notin g.kept /\ "open" # "b1"
    BY <1>9 DEF Frame
  <2>6. Has(Ids(y), "open") => \A x \in g.kept : Has(Ids(y), x)
    BY <1>8, <2>1, <2>5 DEF LaidIds
  <2>7. ~Has(Ids(y), "open") => g.kept = {"close"} /\ \A k \in DOMAIN y : g.rank[Ids(y)[k]] = 4
    BY <1>4, <1>7, <1>8, <2>1, <2>5 DEF LaidIds
  <2>8. LaidIds(g, Ids(y))
    BY <1>7, <2>2, <2>3, <2>4, <2>6, <2>7 DEF LaidIds
  <2>9. Keyed(y) /\ \A k \in DOMAIN y : OddQuotes(y[k]) => g.rank[y[k].id] >= 1
    BY <1>4, <2>1 DEF Keyed
  <2>10. Laid(g, y)
    BY <1>9, <2>8, <2>9 DEF Laid
  <2> QED  BY <2>10 DEF y
<1>10. CASE ~g.closed
  <2>1. "open" # "b1" /\ "close" # "b1"
    OBVIOUS
  <2>2. Laid(g, y)
    BY <1>8, <1>10, <2>1 DEF Laid
  <2> QED  BY <2>2 DEF y
<1> QED  BY <1>9, <1>10

\* The end of the block, where there is one, is the line called that.
LEMMA CloseLine ==
  ASSUME NEW note, Regular(note), Close(note) # 0
  PROVE  /\ Close(note) \in 2..Len(note) /\ note[Close(note)].id = "close"
         /\ note # <<>> /\ note[1].id = "open" /\ Has(Ids(note), "open") /\ Has(Ids(note), "close")
<1>1. /\ note \in Cells /\ Unique(note) /\ DOMAIN note = 1..Len(note)
      /\ \A i \in DOMAIN note : note[i] \in FineLines /\ Ids(note)[i] = note[i].id
      /\ DOMAIN Ids(note) = DOMAIN note
  BY RegularCells
<1>2. Close(note) \in 2..Len(note) /\ note[Close(note)].kind = "fence" /\ Opened(note)
  BY <1>1, CloseFacts
<1>3. note # <<>> /\ note[1].id = "open"
  BY <1>2, OpenedFirst
<1>4. Close(note) \in DOMAIN note /\ 1 \in DOMAIN note /\ Close(note) # 1
  BY <1>1, <1>2 DEF Cells
<1>5. note[Close(note)].id \in {"open", "close"}
  BY <1>1, <1>2, <1>4 DEF FineLines
<1>6. note[Close(note)].id = "close"
  <2>1. "open" \notin OwnKeys
    BY DEF OwnKeys
  <2> QED  BY <1>1, <1>3, <1>4, <1>5, <2>1 DEF Unique
<1> QED  BY <1>1, <1>2, <1>3, <1>4, <1>6 DEF Has

LEMMA TagLaid ==
  ASSUME NEW g, Frame(g), NEW note, Regular(note), Laid(g, note), Close(note) # 0, At(note, "tag") = <<>>,
         NEW t \in Int
  PROVE  Laid(g, InsertAt(note, Close(note), Line("tag", "key", "tag", t)))
<1> DEFINE e == Line("tag", "key", "tag", t)
           c == Close(note)
           R == g.rank
<1>1. /\ c \in 2..Len(note) /\ note[c].id = "close"
      /\ Has(Ids(note), "open") /\ Has(Ids(note), "close")
  BY CloseLine
<1>2. g.closed /\ LaidIds(g, Ids(note))
  BY <1>1 DEF Laid
<1>3. /\ note \in Cells /\ DOMAIN note = 1..Len(note) /\ Len(note) \in Nat
      /\ DOMAIN Ids(note) = DOMAIN note /\ \A i \in DOMAIN note : Ids(note)[i] = note[i].id /\ note[i].id \in Words
      /\ ~Has(Ids(note), "tag")
  <2>1. \A i \in DOMAIN note : note[i] \in NoteLines
    BY RegularCells DEF Cells
  <2>2. \A i \in DOMAIN note : note[i].id \in Words
    BY <2>1 DEF NoteLines
  <2>3. note \in Cells
    BY RegularCells
  <2>4. Len(note) \in Nat
    BY <2>3 DEF Cells
  <2>5. DOMAIN note = 1..Len(note) /\ DOMAIN Ids(note) = DOMAIN note /\ \A i \in DOMAIN note : Ids(note)[i] = note[i].id
    BY RegularCells
  <2>6. ~Has(Ids(note), "tag")
    BY RegularCells
  <2> QED  BY <2>2, <2>3, <2>4, <2>5, <2>6
<1>4. /\ R \in [Words -> 0..4] /\ \A x \in Words : R[x] \in 0..4
      /\ R["close"] = 3 /\ "tag" \in Words
  BY <1>2, RankFacts
<1>5. e \in NoteLines /\ e.id = "tag" /\ ~OddQuotes(e) /\ "tag" \notin OwnKeys
  <2>1. e \in NoteLines
    BY <1>4, LineType DEF Kinds
  <2> QED  BY <2>1 DEF Line, OddQuotes, OwnKeys
<1>6. \/ R["tag"] = 0 /\ \A x \in Words : R[x] \notin {1, 2}
      \/ R["tag"] = 2
  BY <1>1, <1>2, <1>3 DEF Frame, LaidIds
<1>7. ASSUME NEW k \in 1..(c - 1)  PROVE R[note[k].id] <= R["tag"]
  <2>1. k \in DOMAIN note /\ c \in DOMAIN note /\ k < c
    BY <1>1, <1>3
  <2>2. R[note[k].id] <= 3
    BY <1>1, <1>2, <1>3, <1>4, <2>1 DEF LaidIds, Sorted
  <2>3. note[k].id # "close"
    BY <1>1, <1>2, <1>3, <2>1 DEF LaidIds, Once
  <2>4. R[note[k].id] # 3 /\ note[k].id \in Words
    BY <1>2, <1>3, <2>1, <2>3 DEF Frame
  <2>5. R[note[k].id] \in 0..4
    BY <1>4, <2>4
  <2> QED  BY <1>6, <2>2, <2>4, <2>5
<1>8. ASSUME NEW k \in c..Len(note)  PROVE R["tag"] <= R[note[k].id]
  <2>1. k \in DOMAIN note /\ c \in DOMAIN note /\ (k = c \/ c < k)
    BY <1>1, <1>3
  <2>2. 3 <= R[note[k].id]
    BY <1>1, <1>2, <1>3, <1>4, <2>1 DEF LaidIds, Sorted
  <2>3. R[note[k].id] \in 0..4
    BY <1>3, <1>4, <2>1
  <2> QED  BY <1>6, <2>2, <2>3
<1> HIDE DEF e
<1>9. Laid(g, InsertAt(note, c, e))
  <2>1. c \in 1..(Len(note) + 1)
    BY <1>1, <1>3
  <2> HIDE DEF c
  <2> QED  BY <1>1, <1>2, <1>3, <1>5, <1>7, <1>8, <2>1, LaidInsert
<1> QED  BY <1>9 DEF e, c

\* What a user saves keeps a layout.
LEMMA SaveLaid ==
  ASSUME NEW g, Frame(g), NEW note, Regular(note), Laid(g, note), NEW t \in Int, Quoting = FALSE,
         NEW now \in Saves(note, t)
  PROVE  Laid(g, now)
<1>1. CASE \E id \in Range(Ids(note)) \cap {"title", "b1", "b2"} : now = Rewritten(note, id, t)
  BY <1>1, RewrittenLaid
<1>2. CASE \E i \in DOMAIN note : note[i].id = "b1" /\ now = RemoveAt(note, i)
  BY <1>2, RemovedLaid
<1>3. CASE /\ Close(note) # 0 /\ At(note, "tag") = <<>>
           /\ now = InsertAt(note, Close(note), Line("tag", "key", "tag", t))
  BY <1>3, TagLaid
<1> QED  BY <1>1, <1>2, <1>3 DEF Saves

-----------------------------------------------------------------------------
(* A stamp keeps a layout: a key that is there is found, and what is missing *)
(* goes above all quotes that may be open.                                  *)

LEMMA QuotesExist ==
  ASSUME NEW N \in Nat, NEW a \in [1..N -> BOOLEAN], NEW b \in [1..N -> BOOLEAN]
  PROVE  \E q \in [0..N -> BOOLEAN] : q = [i \in 0..N |-> i # 0 /\ IF q[i - 1] THEN a[i] ELSE b[i]]
<1> DEFINE step == [i \in 1..N |-> [c \in BOOLEAN |-> IF c THEN a[i] ELSE b[i]]]
<1>1. step \in Steps(BOOLEAN, N)
  BY DEF Steps
<1>2. PICK q : Taken(q, BOOLEAN, N, FALSE, step)
  <2> HIDE DEF step
  <2> QED  BY <1>1, FoldExists
<1>3. q \in [0..N -> BOOLEAN] /\ q[0] = FALSE /\ \A i \in 1..N : q[i] = step[i][q[i - 1]]
  BY <1>2 DEF Taken
<1>4. \A i \in 1..N : q[i] = IF q[i - 1] THEN a[i] ELSE b[i]
  <2> TAKE i \in 1..N
  <2>1. i - 1 \in 0..N
    OBVIOUS
  <2>2. q[i - 1] \in BOOLEAN
    BY <1>3, <2>1
  <2> QED  BY <1>3, <2>2
<1>5. \A i \in 0..N : q[i] = (i # 0 /\ IF q[i - 1] THEN a[i] ELSE b[i])
  <2> TAKE i \in 0..N
  <2>1. CASE i = 0
    BY <1>3, <2>1
  <2>2. CASE i # 0
    <3>1. i \in 1..N
      BY <2>2
    <3>2. q[i] \in BOOLEAN /\ a[i] \in BOOLEAN /\ b[i] \in BOOLEAN
      BY <1>3, <3>1
    <3> QED  BY <1>4, <2>2, <3>1, <3>2
  <2> QED  BY <2>1, <2>2
<1> QED  BY <1>3, <1>5

\* Below lines whose quotes are even nothing is quoted.
LEMMA Quiet ==
  ASSUME NEW lines \in Cells, NEW n \in 0..Len(lines), \A k \in 1..n : ~OddQuotes(lines[k])
  PROVE  ~InQuoted(lines)[n] /\ ~ReallyQuoted(lines)[n]
<1> DEFINE N == Len(lines)
           a == [i \in 1..N |-> ~OddQuotes(lines[i])]
           b == [i \in 1..N |-> lines[i].kind = "key" /\ OddQuotes(lines[i])]
           c == [i \in 1..N |-> lines[i].kind = "key" /\ lines[i].quote = "opens"]
           P(q) == q = [i \in 0..N |-> i # 0 /\ IF q[i - 1] THEN ~OddQuotes(lines[i])
                                                ELSE lines[i].kind = "key" /\ OddQuotes(lines[i])]
           Q(q) == q = [i \in 0..N |-> i # 0 /\ IF q[i - 1] THEN ~OddQuotes(lines[i])
                                                ELSE lines[i].kind = "key" /\ lines[i].quote = "opens"]
<1>0. N \in Nat
  BY DEF Cells
<1>1. InQuoted(lines) = CHOOSE q : P(q)
  BY DEF InQuoted
<1>2. ReallyQuoted(lines) = CHOOSE q : Q(q)
  BY DEF ReallyQuoted
<1> HIDE DEF N
<1>3. a \in [1..N -> BOOLEAN] /\ b \in [1..N -> BOOLEAN] /\ c \in [1..N -> BOOLEAN]
  OBVIOUS
<1>4. \E q : P(q)
  <2>1. PICK q \in [0..N -> BOOLEAN] : q = [i \in 0..N |-> i # 0 /\ IF q[i - 1] THEN a[i] ELSE b[i]]
    <3> HIDE DEF a, b
    <3> QED  BY <1>0, <1>3, QuotesExist
  <2>2. \A i \in 0..N : q[i] = (i # 0 /\ IF q[i - 1] THEN ~OddQuotes(lines[i])
                                         ELSE lines[i].kind = "key" /\ OddQuotes(lines[i]))
    <3> TAKE i \in 0..N
    <3>1. q[i] = (i # 0 /\ IF q[i - 1] THEN a[i] ELSE b[i])
      BY <2>1
    <3>2. i # 0 => i \in 1..N
      BY <1>0
    <3>3. i # 0 => a[i] = ~OddQuotes(lines[i]) /\ b[i] = (lines[i].kind = "key" /\ OddQuotes(lines[i]))
      BY <3>2
    <3> QED  BY <3>1, <3>3
  <2>3. P(q)
    BY <2>2
  <2> QED  BY <2>3
<1>5. \E q : Q(q)
  <2>1. PICK q \in [0..N -> BOOLEAN] : q = [i \in 0..N |-> i # 0 /\ IF q[i - 1] THEN a[i] ELSE c[i]]
    <3> HIDE DEF a, c
    <3> QED  BY <1>0, <1>3, QuotesExist
  <2>2. \A i \in 0..N : q[i] = (i # 0 /\ IF q[i - 1] THEN ~OddQuotes(lines[i])
                                         ELSE lines[i].kind = "key" /\ lines[i].quote = "opens")
    <3> TAKE i \in 0..N
    <3>1. q[i] = (i # 0 /\ IF q[i - 1] THEN a[i] ELSE c[i])
      BY <2>1
    <3>2. i # 0 => i \in 1..N
      BY <1>0
    <3>3. i # 0 => a[i] = ~OddQuotes(lines[i]) /\ c[i] = (lines[i].kind = "key" /\ lines[i].quote = "opens")
      BY <3>2
    <3> QED  BY <3>1, <3>3
  <2>3. Q(q)
    BY <2>2
  <2> QED  BY <2>3
<1> DEFINE q == CHOOSE q : P(q)
           r == CHOOSE f : Q(f)
<1>6. P(q) /\ Q(r)
  BY <1>4, <1>5
<1> HIDE DEF q, r
<1> DEFINE S == {k \in 0..n : ~q[k] /\ ~r[k]}
<1>7. 0 \in S
  <2>1. 0 \in 0..N /\ 0 \in 0..n
    BY <1>0 DEF N
  <2>2. ~q[0] /\ ~r[0]
    BY <1>6, <2>1
  <2> QED  BY <2>1, <2>2
<1>8. ASSUME NEW k \in 1..n, k - 1 \in S  PROVE k \in S
  <2>1. k \in 0..N /\ k # 0 /\ k \in 0..n /\ ~OddQuotes(lines[k]) /\ ~q[k - 1] /\ ~r[k - 1]
    BY <1>0, <1>8 DEF N
  <2>2. lines[k].quote # "opens"
    BY <2>1 DEF OddQuotes
  <2>3. ~q[k]
    BY <1>6, <2>1
  <2>4. ~r[k]
    BY <1>6, <2>1, <2>2
  <2> QED  BY <2>1, <2>3, <2>4
<1>9. n \in S
  <2>1. \A k \in 0..n : k \in S
    <3>1. n \in Nat
      BY <1>0 DEF N
    <3> HIDE DEF S
    <3> QED  BY <1>7, <1>8, <3>1, UpTo
  <2>2. n \in 0..n
    BY <1>0 DEF N
  <2> QED  BY <2>1, <2>2
<1> QED  BY <1>1, <1>2, <1>9 DEF q, r

\* An own line is in the block, and nothing above it can be in quotes.
LEMMA OwnPlace ==
  ASSUME NEW g, Frame(g), g.closed, NEW note, Regular(note), Laid(g, note), NEW i \in DOMAIN note,
         note[i].id \in OwnKeys, Close(note) # 0
  PROVE  i \in 2..(Close(note) - 1) /\ \A k \in 1..i : ~OddQuotes(note[k])
<1>1. /\ Close(note) \in 2..Len(note) /\ note[Close(note)].id = "close"
      /\ note # <<>> /\ note[1].id = "open"
  BY CloseLine
<1>2. /\ LaidIds(g, Ids(note)) /\ \A k \in DOMAIN note : OddQuotes(note[k]) => g.rank[note[k].id] >= 1
  BY DEF Laid
<1>3. /\ note \in Cells /\ DOMAIN note = 1..Len(note) /\ DOMAIN Ids(note) = DOMAIN note
      /\ \A k \in DOMAIN note : Ids(note)[k] = note[k].id
  BY RegularCells
<1>4. /\ \A x \in Words : g.rank[x] \in 0..4
      /\ g.rank["close"] = 3 /\ g.rank[note[i].id] = 0
  BY RankFacts
<1>5. \A k \in DOMAIN note : note[k].id \in Words
  <2>1. \A k \in DOMAIN note : note[k] \in NoteLines
    BY <1>3 DEF Cells
  <2> QED  BY <2>1 DEF NoteLines
<1>6. \A k \in DOMAIN note : k < i => g.rank[note[k].id] <= 0
  BY <1>2, <1>3, <1>4 DEF LaidIds, Sorted
<1>7. i < Close(note)
  <2>1. ~(Close(note) < i)
    BY <1>1, <1>3, <1>4, <1>6
  <2>2. i # Close(note)
    BY <1>1, <1>4
  <2> QED  BY <1>1, <1>3, <2>1, <2>2
<1>8. i # 1
  BY <1>1 DEF OwnKeys
<1>9. \A k \in 1..i : ~OddQuotes(note[k])
  <2> TAKE k \in 1..i
  <2>1. k \in DOMAIN note /\ (k = i \/ k < i)
    BY <1>3
  <2>2. g.rank[note[k].id] <= 0
    BY <1>4, <1>6, <2>1
  <2>3. g.rank[note[k].id] \in 0..4
    BY <1>4, <1>5, <2>1
  <2> QED  BY <1>2, <2>1, <2>2, <2>3
<1> QED  BY <1>1, <1>3, <1>7, <1>8, <1>9

LEMMA InnerFacts ==
  ASSUME NEW note, Regular(note), Close(note) # 0
  PROVE  /\ Inner(note) \in Cells /\ Inner(note) \in Seq(FineLines) /\ Len(Inner(note)) = Close(note) - 2
         /\ \A k \in 1..(Close(note) - 2) : Inner(note)[k] = note[k + 1]
<1>1. note \in Seq(FineLines) /\ Close(note) \in 2..Len(note) /\ Len(note) \in Nat
  BY CloseLine, RegularCells DEF Regular, Cells
<1> DEFINE c == Close(note)
<1>2. Inner(note) = SubSeq(note, 2, c - 1)
  BY DEF Inner
<1> HIDE DEF c
<1>3. /\ SubSeq(note, 2, c - 1) \in Seq(FineLines) /\ Len(SubSeq(note, 2, c - 1)) = c - 2
      /\ \A k \in 1..(c - 2) : SubSeq(note, 2, c - 1)[k] = note[k + 1]
  BY <1>1 DEF c
<1> QED  BY <1>2, <1>3, FineCells DEF c

\* findKey finds the own keys a note has, and nothing else.
LEMMA FindKeyFinds ==
  ASSUME NEW g, Frame(g), g.closed, NEW note, Regular(note), Laid(g, note), Close(note) # 0, NEW key \in OwnKeys
  PROVE  LET j == FindKey(Inner(note), key) IN
         /\ j \in 0..Len(Inner(note))
         /\ j = 0 => ~Has(Ids(note), key)
         /\ j # 0 => j \in DOMAIN Inner(note) /\ Inner(note)[j].id = key /\ note[j + 1].id = key
<1> DEFINE x == Inner(note)
           j == FindKey(x, key)
           q == InQuoted(x)
           I == {i \in DOMAIN x : /\ ~q[i - 1] /\ x[i].kind = "key"
                                  /\ ~OddQuotes(x[i]) /\ x[i].key = key}
<1>1. /\ x \in Cells /\ x \in Seq(FineLines) /\ Len(x) = Close(note) - 2
      /\ \A k \in 1..(Close(note) - 2) : x[k] = note[k + 1]
  BY InnerFacts
<1>2. /\ note \in Cells /\ DOMAIN note = 1..Len(note) /\ DOMAIN Ids(note) = DOMAIN note
      /\ \A k \in DOMAIN note : Ids(note)[k] = note[k].id /\ note[k] \in FineLines
      /\ Close(note) \in 2..Len(note)
  BY RegularCells, CloseLine
<1>3. Keyed(note)
  BY DEF Laid
<1>4. j = IF I = {} THEN 0 ELSE CHOOSE i \in I : \A k \in I : i <= k
  BY DEF FindKey
<1>5. I # {} => (CHOOSE i \in I : \A k \in I : i <= k) \in I
  <2>1. I \in SUBSET Nat
    BY <1>1
  <2> HIDE DEF I
  <2> QED  BY <2>1, LeastIndex
<1>6. ASSUME NEW i \in I  PROVE i \in 1..Len(x) /\ x[i].id = key /\ note[i + 1].id = key
  <2>1. i \in DOMAIN x /\ x[i].kind = "key" /\ x[i].key = key
    OBVIOUS
  <2>2. i \in 1..Len(x) /\ x[i] = note[i + 1] /\ i + 1 \in DOMAIN note
    BY <1>1, <1>2, <2>1
  <2>3. x[i].id \in OwnKeys
    BY <1>2, <2>1, <2>2 DEF FineLines
  <2> QED  BY <1>3, <2>1, <2>2, <2>3 DEF Keyed
<1>7. ASSUME NEW i \in DOMAIN note, note[i].id = key  PROVE i - 1 \in I
  <2>1. i \in 2..(Close(note) - 1) /\ \A k \in 1..i : ~OddQuotes(note[k])
    BY <1>7, OwnPlace
  <2>2. i - 1 \in DOMAIN x /\ i - 1 \in 1..(Close(note) - 2) /\ x[i - 1] = note[(i - 1) + 1] /\ (i - 1) + 1 = i
    BY <1>1, <1>2, <2>1
  <2>3. x[i - 1].kind = "key" /\ x[i - 1].key = key
    BY <1>2, <1>3, <1>7, <2>2 DEF FineLines, Keyed
  <2>4. ~q[(i - 1) - 1]
    <3>1. (i - 1) - 1 \in 0..Len(x)
      BY <1>1, <1>2, <2>1
    <3>2. \A k \in 1..((i - 1) - 1) : ~OddQuotes(x[k])
      <4> TAKE k \in 1..((i - 1) - 1)
      <4>1. k \in 1..(Close(note) - 2) /\ k + 1 \in 1..i
        BY <1>2, <2>1
      <4> QED  BY <1>1, <2>1, <4>1
    <3> HIDE DEF x
    <3> QED  BY <1>1, <3>1, <3>2, Quiet
  <2>5. ~OddQuotes(x[i - 1])
    <3>1. i \in 1..i
      BY <2>1
    <3> QED  BY <2>1, <2>2, <3>1
  <2> QED  BY <2>2, <2>3, <2>4, <2>5
<1> HIDE DEF I
<1>8. j = 0 => ~Has(Ids(note), key)
  <2>1. I # {} => j # 0
    <3>1. I # {} => j \in I
      BY <1>4, <1>5
    <3>2. I # {} => j \in 1..Len(x)
      BY <1>6, <3>1
    <3> HIDE DEF j, x
    <3> QED  BY <3>2
  <2> QED  BY <1>2, <1>7, <2>1 DEF Has
<1>9. j # 0 => j \in I
  BY <1>4, <1>5
<1>10. j \in 0..Len(x)
  BY <1>1, <1>4, <1>5, <1>6
<1> HIDE DEF j, x
<1>11. DOMAIN x = 1..Len(x)
  BY <1>1
<1> QED  BY <1>6, <1>8, <1>9, <1>10, <1>11 DEF j, x

\* A note with other lines in its block.
Wrapped(note, x) == <<note[1]>> \o x \o SubSeq(note, Close(note), Len(note))

LEMMA WrapFacts ==
  ASSUME NEW note \in Cells, Close(note) \in 2..Len(note), NEW x \in Cells
  PROVE  LET z == Wrapped(note, x) IN
         /\ z \in Cells /\ Len(z) = Len(x) + 2 + (Len(note) - Close(note))
         /\ z[1] = note[1]
         /\ \A k \in 1..Len(x) : z[k + 1] = x[k]
         /\ \A k \in (Len(x) + 2)..Len(z) : z[k] = note[k - Len(x) - 2 + Close(note)]
<1> DEFINE u == <<note[1]>>
           c == Close(note)
           n == Len(note)
           v == SubSeq(note, c, n)
           w == u \o x
           z == w \o v
<1>1. note \in Seq(NoteLines) /\ x \in Seq(NoteLines) /\ n \in Nat /\ c \in 2..n /\ Len(x) \in Nat
  BY DEF Cells
<1>2. u \in Seq(NoteLines) /\ Len(u) = 1 /\ u[1] = note[1]
  BY <1>1
<1>3. v \in Seq(NoteLines) /\ Len(v) = n - c + 1 /\ \A k \in 1..(n - c + 1) : v[k] = note[c + k - 1]
  <2> HIDE DEF c
  <2> QED  BY <1>1
<1>4. \A a, b \in Seq(NoteLines) :
        /\ a \o b \in Seq(NoteLines) /\ Len(a \o b) = Len(a) + Len(b)
        /\ \A k \in 1..Len(a) : (a \o b)[k] = a[k]
        /\ \A k \in (Len(a) + 1)..(Len(a) + Len(b)) : (a \o b)[k] = b[k - Len(a)]
  OBVIOUS
<1> HIDE DEF u, c, n, v
<1>5. /\ w \in Seq(NoteLines) /\ Len(w) = 1 + Len(x) /\ w[1] = note[1]
      /\ \A k \in 1..Len(x) : w[k + 1] = x[k]
  <2>1. /\ w \in Seq(NoteLines) /\ Len(w) = Len(u) + Len(x)
        /\ \A k \in 1..Len(u) : w[k] = u[k]
        /\ \A k \in (Len(u) + 1)..(Len(u) + Len(x)) : w[k] = x[k - Len(u)]
    BY <1>1, <1>2, <1>4
  <2>2. ASSUME NEW k \in 1..Len(x)  PROVE w[k + 1] = x[k]
    <3>1. k + 1 \in (Len(u) + 1)..(Len(u) + Len(x)) /\ k + 1 - Len(u) = k
      BY <1>1, <1>2
    <3> QED  BY <2>1, <3>1
  <2> HIDE DEF w
  <2> QED  BY <1>2, <2>1, <2>2
<1> HIDE DEF w
<1>6. /\ z \in Seq(NoteLines) /\ Len(z) = Len(w) + Len(v)
      /\ \A k \in 1..Len(w) : z[k] = w[k]
      /\ \A k \in (Len(w) + 1)..(Len(w) + Len(v)) : z[k] = v[k - Len(w)]
  BY <1>3, <1>4, <1>5
<1> HIDE DEF z
<1>7. Len(z) = Len(x) + 2 + (n - c) /\ z[1] = note[1]
  BY <1>1, <1>3, <1>5, <1>6
<1>8. ASSUME NEW k \in 1..Len(x)  PROVE z[k + 1] = x[k]
  <2>1. k + 1 \in 1..Len(w)
    BY <1>1, <1>5
  <2> QED  BY <1>5, <1>6, <2>1
<1>9. ASSUME NEW k \in (Len(x) + 2)..Len(z)  PROVE z[k] = note[k - Len(x) - 2 + c]
  <2>1. k \in (Len(w) + 1)..(Len(w) + Len(v)) /\ k - Len(w) \in 1..(n - c + 1)
    BY <1>1, <1>3, <1>5, <1>6
  <2>2. z[k] = note[c + (k - Len(w)) - 1]
    BY <1>3, <1>6, <2>1
  <2>3. c + (k - Len(w)) - 1 = k - Len(x) - 2 + c
    BY <1>1, <1>5, <2>1
  <2> QED  BY <2>2, <2>3
<1>10. z = Wrapped(note, x)
  BY DEF z, w, u, v, c, n, Wrapped
<1> QED  BY <1>6, <1>7, <1>8, <1>9, <1>10 DEF Cells, c, n

LEMMA WrapSame ==
  ASSUME NEW note, Regular(note), Close(note) # 0, NEW x \in Cells, SameLines(Inner(note), x)
  PROVE  Wrapped(note, x) \in Cells /\ SameLines(note, Wrapped(note, x))
<1> DEFINE z == Wrapped(note, x)
           c == Close(note)
<1>1. /\ note \in Cells /\ c \in 2..Len(note) /\ DOMAIN note = 1..Len(note) /\ Len(note) \in Nat
  BY CloseLine, RegularCells DEF Cells
<1>2. /\ z \in Cells /\ Len(z) = Len(x) + 2 + (Len(note) - c)
      /\ z[1] = note[1]
      /\ \A k \in 1..Len(x) : z[k + 1] = x[k]
      /\ \A k \in (Len(x) + 2)..Len(z) : z[k] = note[k - Len(x) - 2 + c]
  BY <1>1, WrapFacts
<1>3. /\ Inner(note) \in Cells /\ Len(Inner(note)) = c - 2
      /\ \A k \in 1..(c - 2) : Inner(note)[k] = note[k + 1]
  BY InnerFacts
<1> HIDE DEF z, c
<1>4. Len(x) = c - 2 /\ \A k \in 1..(c - 2) : /\ x[k].id = note[k + 1].id /\ x[k].key = note[k + 1].key
                                             /\ x[k].quote = note[k + 1].quote
  <2>1. DOMAIN x = 1..Len(x) /\ DOMAIN Inner(note) = 1..(c - 2) /\ c - 2 \in Nat /\ Len(x) \in Nat
    BY <1>1, <1>3 DEF Cells
  <2>2. DOMAIN x = DOMAIN Inner(note)
    BY DEF SameLines
  <2>3. Len(x) = c - 2
    BY <2>1, <2>2
  <2> QED  BY <1>3, <2>1, <2>3 DEF SameLines
<1>5. DOMAIN z = DOMAIN note
  BY <1>1, <1>2, <1>4 DEF Cells
<1>6. ASSUME NEW k \in DOMAIN note
      PROVE  z[k].id = note[k].id /\ z[k].key = note[k].key /\ z[k].quote = note[k].quote
  <2>1. CASE k = 1
    BY <1>2, <2>1
  <2>2. CASE k \in 2..(c - 1)
    <3>1. k - 1 \in 1..(c - 2) /\ (k - 1) + 1 = k
      BY <1>1, <2>2
    <3>2. z[k] = x[k - 1]
      BY <1>2, <1>4, <3>1
    <3> QED  BY <1>4, <3>1, <3>2
  <2>3. CASE k \in c..Len(note)
    <3>1. k \in (Len(x) + 2)..Len(z) /\ k - Len(x) - 2 + c = k
      BY <1>1, <1>2, <1>4, <2>3
    <3> QED  BY <1>2, <3>1
  <2> QED  BY <1>1, <2>1, <2>2, <2>3
<1> QED  BY <1>2, <1>5, <1>6 DEF SameLines, z

LEMMA WrapInsert ==
  ASSUME NEW note \in Cells, Close(note) \in 2..Len(note), NEW x \in Cells, NEW p \in 1..(Len(x) + 1),
         NEW e \in NoteLines
  PROVE  /\ InsertAt(x, p, e) \in Cells
         /\ p + 1 \in 1..(Len(Wrapped(note, x)) + 1)
         /\ Wrapped(note, InsertAt(x, p, e)) = InsertAt(Wrapped(note, x), p + 1, e)
<1> DEFINE y == InsertAt(x, p, e)
           z == Wrapped(note, x)
           s == Wrapped(note, y)
           t == InsertAt(z, p + 1, e)
           c == Close(note)
<1>1. Len(note) \in Nat /\ Len(x) \in Nat /\ c \in 2..Len(note)
  BY DEF Cells
<1>2. /\ y \in Cells /\ Len(y) = Len(x) + 1
      /\ \A k \in 1..(p - 1) : y[k] = x[k]
      /\ y[p] = e
      /\ \A k \in (p + 1)..(Len(x) + 1) : y[k] = x[k - 1]
  <2>1. x \in Seq(NoteLines)
    BY DEF Cells
  <2>2. /\ InsertAt(x, p, e) \in Seq(NoteLines) /\ Len(InsertAt(x, p, e)) = Len(x) + 1
        /\ \A k \in 1..(p - 1) : InsertAt(x, p, e)[k] = x[k]
        /\ InsertAt(x, p, e)[p] = e
        /\ \A k \in (p + 1)..(Len(x) + 1) : InsertAt(x, p, e)[k] = x[k - 1]
    BY <2>1, InsertFacts
  <2> QED  BY <2>2 DEF Cells
<1> HIDE DEF y
<1>3. /\ z \in Cells /\ Len(z) = Len(x) + 2 + (Len(note) - c)
      /\ z[1] = note[1]
      /\ \A k \in 1..Len(x) : z[k + 1] = x[k]
      /\ \A k \in (Len(x) + 2)..Len(z) : z[k] = note[k - Len(x) - 2 + c]
  BY WrapFacts
<1>4. /\ s \in Cells /\ Len(s) = Len(y) + 2 + (Len(note) - c)
      /\ s[1] = note[1]
      /\ \A k \in 1..Len(y) : s[k + 1] = y[k]
      /\ \A k \in (Len(y) + 2)..Len(s) : s[k] = note[k - Len(y) - 2 + c]
  BY <1>2, WrapFacts
<1> HIDE DEF z, s, c
<1>5. p + 1 \in 1..(Len(z) + 1)
  BY <1>1, <1>3
<1>6. /\ t \in Cells /\ Len(t) = Len(z) + 1
      /\ \A k \in 1..p : t[k] = z[k]
      /\ t[p + 1] = e
      /\ \A k \in (p + 2)..(Len(z) + 1) : t[k] = z[k - 1]
  <2>1. z \in Seq(NoteLines)
    BY <1>3 DEF Cells
  <2>2. PICK i \in 1..(Len(z) + 1) : i = p + 1
    BY <1>5
  <2>3. i - 1 = p /\ i + 1 = p + 2 /\ t = InsertAt(z, i, e)
    BY <2>2
  <2> HIDE DEF t
  <2>4. /\ InsertAt(z, i, e) \in Seq(NoteLines) /\ Len(InsertAt(z, i, e)) = Len(z) + 1
        /\ \A k \in 1..(i - 1) : InsertAt(z, i, e)[k] = z[k]
        /\ InsertAt(z, i, e)[i] = e
        /\ \A k \in (i + 1)..(Len(z) + 1) : InsertAt(z, i, e)[k] = z[k - 1]
    BY <2>1, InsertFacts
  <2> QED  BY <2>2, <2>3, <2>4 DEF Cells
<1> HIDE DEF t
<1>7. Len(s) = Len(t) /\ Len(s) \in Nat
  BY <1>1, <1>2, <1>3, <1>4, <1>6
<1>8. ASSUME NEW k \in 1..Len(s)  PROVE s[k] = t[k]
  <2>1. CASE k = 1
    BY <1>3, <1>4, <1>6, <2>1
  <2>2. CASE k \in 2..p
    <3>1. k - 1 \in 1..(p - 1) /\ k - 1 \in 1..Len(x) /\ k - 1 \in 1..Len(y) /\ (k - 1) + 1 = k
      BY <1>1, <1>2, <2>2
    <3>2. s[k] = y[k - 1] /\ y[k - 1] = x[k - 1] /\ z[k] = x[k - 1]
      BY <1>2, <1>3, <1>4, <3>1
    <3>3. t[k] = z[k]
      BY <1>6, <2>2
    <3> QED  BY <3>2, <3>3
  <2>3. CASE k = p + 1
    <3>1. p \in 1..Len(y)
      BY <1>1, <1>2
    <3> QED  BY <1>2, <1>4, <1>6, <2>3, <3>1
  <2>4. CASE k \in (p + 2)..(Len(x) + 2)
    <3>1. /\ k - 1 \in (p + 1)..(Len(x) + 1) /\ k - 1 \in 1..Len(y) /\ (k - 1) + 1 = k
          /\ (k - 1) - 1 \in 1..Len(x) /\ ((k - 1) - 1) + 1 = k - 1
      BY <1>1, <1>2, <2>4
    <3>2. s[k] = y[k - 1] /\ y[k - 1] = x[(k - 1) - 1] /\ z[k - 1] = x[(k - 1) - 1]
      BY <1>2, <1>3, <1>4, <3>1
    <3>3. t[k] = z[k - 1]
      <4>1. k \in (p + 2)..(Len(z) + 1)
        BY <1>1, <1>3, <2>4
      <4> QED  BY <1>6, <4>1
    <3> QED  BY <3>2, <3>3
  <2>5. CASE k \in (Len(x) + 3)..Len(s)
    <3>1. k \in (Len(y) + 2)..Len(s)
      BY <1>1, <1>2, <2>5
    <3>2. s[k] = note[k - Len(y) - 2 + c]
      BY <1>4, <3>1
    <3>3. k - 1 \in (Len(x) + 2)..Len(z) /\ k \in (p + 2)..(Len(z) + 1)
      BY <1>1, <1>2, <1>3, <1>4, <2>5
    <3>4. z[k - 1] = note[(k - 1) - Len(x) - 2 + c]
      BY <1>3, <3>3
    <3>5. (k - 1) - Len(x) - 2 + c = k - Len(y) - 2 + c
      BY <1>1, <1>2, <2>5
    <3>6. t[k] = z[k - 1]
      BY <1>6, <3>3
    <3> QED  BY <3>2, <3>4, <3>5, <3>6
  <2>6. k = 1 \/ k \in 2..p \/ k = p + 1 \/ k \in (p + 2)..(Len(x) + 2) \/ k \in (Len(x) + 3)..Len(s)
    BY <1>1, <1>7
  <2> QED  BY <2>1, <2>2, <2>3, <2>4, <2>5, <2>6
<1>9. s = t
  BY <1>4, <1>6, <1>7, <1>8 DEF Cells
<1> QED  BY <1>2, <1>5, <1>9 DEF s, t, z, y

\* A key that is missing goes below a line that no quotes are open at.
LEMMA InsertOwnLaid ==
  ASSUME NEW g, Frame(g), g.closed, NEW note \in Cells, Laid(g, note), Has(Ids(note), "open"),
         NEW i \in 1..Len(note), g.rank[note[i].id] = 0,
         NEW key \in OwnKeys, ~Has(Ids(note), key), NEW t \in Int
  PROVE  Laid(g, InsertAt(note, i + 1, Stamp(key, t))) /\ Has(Ids(InsertAt(note, i + 1, Stamp(key, t))), "open")
<1> DEFINE e == Stamp(key, t)
           R == g.rank
<1>1. e \in NoteLines /\ e.id = key /\ e.key = key /\ ~OddQuotes(e)
  <2>1. e \in FineLines
    BY OwnLine
  <2> QED  BY <2>1, FineCells DEF Stamp, Line, OddQuotes
<1>2. (\A x \in Words : R[x] \in 0..4) /\ R[key] = 0
  BY RankFacts
<1>3. LaidIds(g, Ids(note))
  BY DEF Laid
<1>4. /\ DOMAIN note = 1..Len(note) /\ Len(note) \in Nat /\ DOMAIN Ids(note) = 1..Len(note)
      /\ \A k \in 1..Len(note) : Ids(note)[k] = note[k].id
  BY DEF Cells, Ids
<1>5. \A k \in 1..Len(note) : R[note[k].id] \in 0..4
  <2>1. \A k \in 1..Len(note) : note[k] \in NoteLines
    BY DEF Cells
  <2>2. \A k \in 1..Len(note) : note[k].id \in Words
    BY <2>1 DEF NoteLines
  <2> QED  BY <1>2, <2>2
<1>6. ASSUME NEW k \in 1..((i + 1) - 1)  PROVE R[note[k].id] <= R[e.id]
  <2>1. k \in 1..Len(note) /\ (k = i \/ k < i)
    BY <1>4
  <2>2. k < i => R[note[k].id] <= R[note[i].id]
    BY <1>3, <1>4, <2>1 DEF LaidIds, Sorted
  <2> QED  BY <1>1, <1>2, <2>1, <2>2
<1>7. ASSUME NEW k \in (i + 1)..Len(note)  PROVE R[e.id] <= R[note[k].id]
  <2>1. k \in 1..Len(note)
    BY <1>4
  <2> QED  BY <1>1, <1>2, <1>5, <2>1
<1>8. i + 1 \in 1..(Len(note) + 1)
  BY <1>4
<1> HIDE DEF e
<1>9. Laid(g, InsertAt(note, i + 1, e)) /\ Has(Ids(InsertAt(note, i + 1, e)), "open")
  <2> DEFINE p == i + 1
  <2>1. p \in 1..(Len(note) + 1)
    BY <1>8
  <2>2. (\A k \in 1..(p - 1) : R[note[k].id] <= R[e.id]) /\ \A k \in p..Len(note) : R[e.id] <= R[note[k].id]
    BY <1>6, <1>7
  <2>3. ~Has(Ids(note), e.id) /\ (e.id \in OwnKeys => e.key = e.id)
    BY <1>1
  <2> HIDE DEF p
  <2>4. Laid(g, InsertAt(note, p, e)) /\ Has(Ids(InsertAt(note, p, e)), "open")
    BY <1>1, <2>1, <2>2, <2>3, LaidInsert
  <2> QED  BY <2>4 DEF p
<1> QED  BY <1>9 DEF e

\* What Stamped makes of the lines of a block: values are written in "kept",
\* then created goes to the top, then modified below it.
StampedSteps(x, created, modified, o, ci, mi, kept) ==
  /\ ci = IF o.created THEN FindKey(x, "created") ELSE 0
  /\ mi = IF o.modified THEN FindKey(x, "modified") ELSE 0
  /\ kept \in Cells /\ SameLines(x, kept)
  /\ \A k \in DOMAIN x : \/ kept[k] = x[k]
                         \/ k = mi
                         \/ k = ci /\ x[k].val = Empty
  /\ mi # 0 /\ mi # ci => kept[mi].val = modified
  /\ ci # 0 /\ mi # ci /\ x[ci].val = Empty => kept[ci].val = created
  /\ LET missing == o.created /\ ci = 0
         both == IF missing THEN InsertAt(kept, 1, Stamp("created", created)) ELSE kept
     IN Stamped(x, created, modified, o) =
          IF o.modified /\ mi = 0
          THEN InsertAt(both, (IF missing THEN 1 ELSE ci) + 1, Stamp("modified", modified)) ELSE both

LEMMA ValueSet ==
  ASSUME NEW x \in Cells, NEW i \in DOMAIN x, NEW t \in Int
  PROVE  LET y == [x EXCEPT ![i].val = t] IN
         /\ y \in Cells /\ SameLines(x, y) /\ y[i].val = t /\ \A k \in DOMAIN x : k # i => y[k] = x[k]
<1> DEFINE y == [x EXCEPT ![i].val = t]
<1>1. \A k \in DOMAIN x : x[k] \in [id : Words, kind : Kinds, key : Words, val : Int, quote : Words]
  <2>1. \A k \in DOMAIN x : x[k] \in NoteLines
    BY DEF Cells
  <2> QED  BY <2>1 DEF NoteLines
<1>2. DOMAIN y = DOMAIN x /\ \A k \in DOMAIN x : k # i => y[k] = x[k]
  OBVIOUS
<1>3. y[i] = [x[i] EXCEPT !.val = t]
  OBVIOUS
<1>4. /\ y[i] \in [id : Words, kind : Kinds, key : Words, val : Int, quote : Words] /\ y[i].val = t
      /\ y[i].id = x[i].id /\ y[i].key = x[i].key /\ y[i].quote = x[i].quote
  BY <1>1, <1>3
<1>5. DOMAIN x = 1..Len(x) /\ Len(x) \in Nat
  BY DEF Cells
<1> HIDE DEF y
<1>6. \A k \in DOMAIN x : y[k] \in NoteLines
  BY <1>1, <1>2, <1>4 DEF NoteLines
<1>7. y \in Cells
  <2>1. y \in [1..Len(x) -> NoteLines]
    <3>1. y = [k \in 1..Len(x) |-> y[k]]
      BY <1>2, <1>5 DEF y
    <3> QED  BY <1>5, <1>6, <3>1
  <2>2. y \in Seq(NoteLines)
    BY <1>5, <2>1, SeqDef
  <2> QED  BY <2>2 DEF Cells
<1>8. SameLines(x, y)
  BY <1>2, <1>4 DEF SameLines
<1> QED  BY <1>2, <1>4, <1>7, <1>8 DEF y

LEMMA StampedReads ==
  ASSUME NEW x \in Cells, NEW created \in Int, NEW modified \in Int, NEW o \in OptionSet,
         FindKey(x, "created") \in 0..Len(x), FindKey(x, "modified") \in 0..Len(x)
  PROVE  \E ci, mi, kept : StampedSteps(x, created, modified, o, ci, mi, kept)
<1> DEFINE ci == IF o.created THEN FindKey(x, "created") ELSE 0
           mi == IF o.modified THEN FindKey(x, "modified") ELSE 0
           set == SetModified(x, mi, modified)
           kept == FillCreated(set, ci, created)
           missing == o.created /\ ci = 0
           top == <<Stamp("created", created)>> \o kept
           both == IF missing THEN top ELSE kept
           at == IF missing THEN 1 ELSE ci
<1>1. /\ ci \in 0..Len(x) /\ (ci # 0 => ci \in DOMAIN x)
      /\ mi \in 0..Len(x) /\ (mi # 0 => mi \in DOMAIN x)
  BY DEF Cells
<1>2. Stamped(x, created, modified, o) =
        IF o.modified /\ mi = 0 THEN InsertAt(both, at + 1, Stamp("modified", modified)) ELSE both
  BY DEF Stamped, InsertModified
<1>0. /\ ci = IF o.created THEN FindKey(x, "created") ELSE 0
      /\ mi = IF o.modified THEN FindKey(x, "modified") ELSE 0
  OBVIOUS
<1> HIDE DEF ci, mi
<1>3. SameLines(x, x)
  BY DEF SameLines
<1>4. /\ set \in Cells /\ SameLines(x, set)
      /\ \A k \in DOMAIN x : set[k] = x[k] \/ k = mi
      /\ mi # 0 => set[mi].val = modified
  <2>1. CASE mi = 0
    BY <1>3, <2>1 DEF SetModified
  <2>2. CASE mi # 0
    <3>1. set = [x EXCEPT ![mi].val = modified]
      BY <2>2 DEF SetModified
    <3>2. mi \in DOMAIN x
      BY <1>1, <2>2
    <3> HIDE DEF set
    <3> QED  BY <3>1, <3>2, ValueSet
  <2> QED  BY <2>1, <2>2
<1> HIDE DEF set
<1>5. DOMAIN set = DOMAIN x
  BY <1>4 DEF SameLines
<1>6. /\ kept \in Cells /\ SameLines(set, kept)
      /\ \A k \in DOMAIN x : kept[k] = set[k] \/ (k = ci /\ set[k].val = Empty)
      /\ ci # 0 /\ set[ci].val = Empty => kept[ci].val = created
  <2>1. CASE ci # 0 /\ set[ci].val = Empty
    <3>1. kept = [set EXCEPT ![ci].val = created]
      BY <2>1 DEF FillCreated
    <3>2. ci \in DOMAIN set
      BY <1>1, <1>5, <2>1
    <3>3. /\ kept \in Cells /\ SameLines(set, kept) /\ kept[ci].val = created
          /\ \A k \in DOMAIN set : k # ci => kept[k] = set[k]
      <4> HIDE DEF kept
      <4> QED  BY <1>4, <3>1, <3>2, ValueSet
    <3> HIDE DEF kept
    <3> QED  BY <1>5, <2>1, <3>3
  <2>2. CASE ~(ci # 0 /\ set[ci].val = Empty)
    <3>1. kept = set
      BY <2>2 DEF FillCreated
    <3>2. SameLines(set, set)
      BY DEF SameLines
    <3> QED  BY <1>4, <2>2, <3>1, <3>2
  <2> QED  BY <2>1, <2>2
<1> HIDE DEF kept
<1>7. SameLines(x, kept)
  BY <1>4, <1>5, <1>6 DEF SameLines
<1>8. \A k \in DOMAIN x : kept[k] = x[k] \/ k = mi \/ (k = ci /\ x[k].val = Empty)
  BY <1>4, <1>6
<1>9. mi # 0 /\ mi # ci => kept[mi].val = modified
  BY <1>1, <1>4, <1>6
<1>10. ci # 0 /\ mi # ci /\ x[ci].val = Empty => kept[ci].val = created
  BY <1>1, <1>4, <1>6
<1>11. top = InsertAt(kept, 1, Stamp("created", created))
  <2>1. SubSeq(kept, 1, 1 - 1) = <<>> /\ SubSeq(kept, 1, Len(kept)) = kept
    BY <1>6 DEF Cells
  <2>2. Stamp("created", created) \in FineLines
    BY OwnLine DEF OwnKeys
  <2>3. <<>> \o <<Stamp("created", created)>> = <<Stamp("created", created)>>
    BY <2>2
  <2> QED  BY <2>1, <2>3 DEF InsertAt
<1> HIDE DEF top
<1>12. Stamped(x, created, modified, o) =
         LET both2 == IF missing THEN InsertAt(kept, 1, Stamp("created", created)) ELSE kept
         IN IF o.modified /\ mi = 0
            THEN InsertAt(both2, (IF missing THEN 1 ELSE ci) + 1, Stamp("modified", modified)) ELSE both2
  BY <1>2, <1>11
<1>13. StampedSteps(x, created, modified, o, ci, mi, kept)
  BY <1>0, <1>6, <1>7, <1>8, <1>9, <1>10, <1>12 DEF StampedSteps
<1> QED  BY <1>13

\* The block of a note with its stamps.
LEMMA StampedLaid ==
  ASSUME NEW g, Frame(g), NEW note, Regular(note), Laid(g, note), Close(note) # 0,
         NEW created \in Int, NEW modified \in Int, NEW o \in OptionSet
  PROVE  Laid(g, Wrapped(note, Stamped(Inner(note), created, modified, o)))
<1> DEFINE x == Inner(note)
           R == g.rank
<1>1. /\ Close(note) \in 2..Len(note) /\ note # <<>> /\ note[1].id = "open"
      /\ Has(Ids(note), "open") /\ Has(Ids(note), "close")
  BY CloseLine
<1>2. g.closed
  BY <1>1 DEF Laid
<1>3. note \in Cells /\ x \in Cells /\ Len(x) = Close(note) - 2 /\ Len(x) \in Nat /\ Len(note) \in Nat
  <2>1. note \in Cells /\ x \in Cells /\ Len(x) = Close(note) - 2
    BY RegularCells, InnerFacts
  <2> HIDE DEF x
  <2> QED  BY <2>1 DEF Cells
<1>4. /\ "created" \in OwnKeys /\ "modified" \in OwnKeys /\ "created" # "modified"
      /\ R["created"] = 0 /\ R["modified"] = 0 /\ R["open"] = 0
  <2>1. "created" \in OwnKeys /\ "modified" \in OwnKeys
    BY DEF OwnKeys
  <2> QED  BY <1>2, <2>1, RankFacts
<1>5. /\ FindKey(x, "created") \in 0..Len(x) /\ FindKey(x, "modified") \in 0..Len(x)
      /\ FindKey(x, "created") = 0 => ~Has(Ids(note), "created")
      /\ FindKey(x, "modified") = 0 => ~Has(Ids(note), "modified")
      /\ FindKey(x, "created") # 0 => x[FindKey(x, "created")].id = "created"
  BY <1>2, <1>4, FindKeyFinds
<1>6. PICK ci, mi, kept : StampedSteps(x, created, modified, o, ci, mi, kept)
  <2> HIDE DEF x
  <2> QED  BY <1>3, <1>5, StampedReads
<1> DEFINE missing == o.created /\ ci = 0
           c == Stamp("created", created)
           m == Stamp("modified", modified)
           both == IF missing THEN InsertAt(kept, 1, c) ELSE kept
           at == IF missing THEN 1 ELSE ci
           w == Wrapped(note, kept)
           v == Wrapped(note, both)
<1>7. /\ kept \in Cells /\ SameLines(x, kept) /\ Len(kept) = Len(x)
      /\ Stamped(x, created, modified, o) = IF o.modified /\ mi = 0 THEN InsertAt(both, at + 1, m) ELSE both
      /\ ci \in 0..Len(x) /\ (ci # 0 => x[ci].id = "created")
      /\ missing => ~Has(Ids(note), "created")
      /\ o.modified /\ mi = 0 => ~Has(Ids(note), "modified")
  <2>1. /\ ci = IF o.created THEN FindKey(x, "created") ELSE 0
        /\ mi = IF o.modified THEN FindKey(x, "modified") ELSE 0
        /\ kept \in Cells /\ SameLines(x, kept)
        /\ Stamped(x, created, modified, o) = IF o.modified /\ mi = 0 THEN InsertAt(both, at + 1, m) ELSE both
    BY <1>6 DEF StampedSteps
  <2>2. Len(kept) = Len(x)
    <3>1. DOMAIN kept = DOMAIN x
      BY <2>1 DEF SameLines
    <3>2. DOMAIN kept = 1..Len(kept) /\ DOMAIN x = 1..Len(x) /\ Len(kept) \in Nat /\ Len(x) \in Nat
      <4>1. kept \in Cells
        BY <2>1
      <4>2. DOMAIN kept = 1..Len(kept) /\ Len(kept) \in Nat
        BY <4>1 DEF Cells
      <4> HIDE DEF x
      <4>3. DOMAIN x = 1..Len(x)
        BY <1>3 DEF Cells
      <4> QED  BY <1>3, <4>2, <4>3
    <3> DEFINE a == Len(kept)
               b == Len(x)
    <3>3. 1..a = 1..b /\ a \in Nat /\ b \in Nat
      BY <3>1, <3>2
    <3> HIDE DEF a, b
    <3>4. (a # 0 => a \in 1..b) /\ (b # 0 => b \in 1..a)
      BY <3>3
    <3>5. a = b
      BY <3>3, <3>4
    <3> QED  BY <3>5 DEF a, b
  <2> HIDE DEF x
  <2> QED  BY <1>3, <1>5, <2>1, <2>2 DEF Cells
<1>8. w \in Cells /\ SameLines(note, w) /\ Laid(g, w) /\ Ids(w) = Ids(note)
  <2>1. w \in Cells /\ SameLines(note, w)
    BY <1>7, WrapSame
  <2> HIDE DEF w
  <2> QED  BY <2>1, LaidSame DEF SameLines, Ids
<1>9. /\ Len(w) \in Nat /\ Len(w) = Len(kept) + 2 + (Len(note) - Close(note)) /\ w[1] = note[1]
      /\ \A k \in 1..Len(kept) : w[k + 1] = kept[k]
  BY <1>1, <1>3, <1>7, WrapFacts DEF Cells
<1> HIDE DEF w
<1>10. c \in NoteLines /\ m \in NoteLines /\ c.id = "created" /\ m.id = "modified"
  <2>1. c \in FineLines /\ m \in FineLines
    BY <1>4, OwnLine
  <2> QED  BY <2>1, FineCells DEF Stamp, Line
<1>11. /\ both \in Cells /\ v \in Cells /\ Laid(g, v) /\ Has(Ids(v), "open")
       /\ at + 1 \in 1..Len(v) /\ R[v[at + 1].id] = 0 /\ at + 1 \in 1..(Len(both) + 1)
       /\ ~Has(Ids(note), "modified") => ~Has(Ids(v), "modified")
  <2>1. CASE ~missing
    <3>1. both = kept /\ v = w /\ at = ci
      BY <2>1 DEF w
    <3>2. at + 1 \in 1..Len(w) /\ at + 1 \in 1..(Len(kept) + 1)
      <4> HIDE DEF x, both, v, at
      <4> QED  BY <1>1, <1>3, <1>7, <1>9, <3>1
    <3>3. R[w[at + 1].id] = 0
      <4>1. CASE ci = 0
        BY <1>1, <1>4, <1>9, <3>1, <4>1
      <4>2. CASE ci # 0
        <5>1. ci \in 1..Len(kept) /\ ci \in DOMAIN x
          BY <1>3, <1>7, <4>2 DEF Cells
        <5>2. kept[ci].id = "created"
          BY <1>7, <4>2, <5>1 DEF SameLines
        <5> QED  BY <1>4, <1>9, <3>1, <5>1, <5>2
      <4> QED  BY <4>1, <4>2
    <3> HIDE DEF both, v, at
    <3> QED  BY <1>1, <1>7, <1>8, <3>1, <3>2, <3>3
  <2>2. CASE missing
    <3>1. both = InsertAt(kept, 1, c) /\ at = 1
      BY <2>2
    <3>2. 1 \in 1..(Len(kept) + 1) /\ 1 \in 1..Len(w)
      <4> HIDE DEF x
      <4> QED  BY <1>1, <1>3, <1>7, <1>9
    <3> DEFINE p == 1 + 1
    <3>3. both \in Cells /\ p \in 1..(Len(w) + 1) /\ v = InsertAt(w, p, c)
      <4> HIDE DEF c
      <4> QED  BY <1>1, <1>3, <1>7, <1>10, <3>1, <3>2, WrapInsert DEF w
    <3>4. Laid(g, InsertAt(w, 1 + 1, c)) /\ Has(Ids(InsertAt(w, 1 + 1, c)), "open")
      <4>1. R[w[1].id] = 0 /\ ~Has(Ids(w), "created") /\ Has(Ids(w), "open")
        BY <1>1, <1>4, <1>7, <1>8, <1>9, <2>2
      <4> HIDE DEF missing
      <4> QED  BY <1>2, <1>4, <1>8, <3>2, <4>1, InsertOwnLaid
    <3>5. /\ v \in Cells /\ Len(v) = Len(w) + 1 /\ v[2] = c /\ v[1] = w[1]
          /\ \A k \in 3..(Len(w) + 1) : v[k] = w[k - 1]
      <4>1. w \in Seq(NoteLines) /\ p \in 1..(Len(w) + 1)
        BY <1>8, <3>3 DEF Cells
      <4> DEFINE q == 2
      <4>2. q \in 1..(Len(w) + 1) /\ q = p
        BY <4>1
      <4> HIDE DEF q, c, v, p
      <4>3. /\ InsertAt(w, q, c) \in Seq(NoteLines) /\ Len(InsertAt(w, q, c)) = Len(w) + 1
            /\ \A k \in 1..(q - 1) : InsertAt(w, q, c)[k] = w[k]
            /\ InsertAt(w, q, c)[q] = c
            /\ \A k \in (q + 1)..(Len(w) + 1) : InsertAt(w, q, c)[k] = w[k - 1]
        BY <1>10, <4>1, <4>2, InsertFacts
      <4>4. 1 \in 1..(q - 1) /\ q + 1 = 3
        BY DEF q
      <4>5. v = InsertAt(w, q, c)
        BY <3>3, <4>2
      <4> QED  BY <4>3, <4>4, <4>5 DEF Cells, q
    <3>6. Len(both) = Len(kept) + 1
      <4>1. kept \in Seq(NoteLines)
        BY <1>7 DEF Cells
      <4> HIDE DEF c
      <4> QED  BY <1>10, <3>1, <3>2, <4>1, InsertFacts
    <3>7. at + 1 \in 1..Len(v) /\ R[v[at + 1].id] = 0 /\ at + 1 \in 1..(Len(both) + 1)
      <4>1. at + 1 = 2
        BY <3>1
      <4>2. v[2].id = "created" /\ 2 \in 1..Len(v) /\ 2 \in 1..(Len(both) + 1)
        <5>1. Len(w) >= 1 /\ Len(kept) \in Nat
          BY <1>7, <3>2 DEF Cells
        <5> HIDE DEF v, c, both
        <5> QED  BY <1>9, <1>10, <3>5, <3>6, <5>1
      <4> HIDE DEF v, at, both
      <4> QED  BY <1>4, <4>1, <4>2
    <3>8. ~Has(Ids(note), "modified") => ~Has(Ids(v), "modified")
      <4> SUFFICES ASSUME NEW k \in DOMAIN v, v[k].id = "modified"
                   PROVE  \E i \in DOMAIN w : w[i].id = "modified"
        BY <1>8 DEF Has, Ids
      <4> HIDE DEF v
      <4>1. DOMAIN v = 1..(Len(w) + 1) /\ DOMAIN w = 1..Len(w)
        BY <1>8, <3>5 DEF Cells
      <4>2. CASE k = 1
        BY <3>2, <3>5, <4>1, <4>2
      <4>3. CASE k = 2
        BY <1>4, <1>10, <3>5, <4>3
      <4>4. CASE k \in 3..(Len(w) + 1)
        <5>1. k - 1 \in DOMAIN w /\ v[k] = w[k - 1]
          BY <1>9, <3>5, <4>1, <4>4
        <5> QED  BY <5>1
      <4> QED  BY <1>9, <4>1, <4>2, <4>3, <4>4
    <3>9. Laid(g, v) /\ Has(Ids(v), "open")
      BY <3>3, <3>4
    <3> QED  BY <3>3, <3>5, <3>7, <3>8, <3>9
  <2> QED  BY <2>1, <2>2
<1> HIDE DEF both, at, v, c, m, missing
<1>12. CASE ~(o.modified /\ mi = 0)
  BY <1>7, <1>11, <1>12 DEF v
<1>13. CASE o.modified /\ mi = 0
  <2>1. Wrapped(note, InsertAt(both, at + 1, m)) = InsertAt(v, (at + 1) + 1, m)
    <3> DEFINE p == at + 1
    <3>1. p \in 1..(Len(both) + 1)
      BY <1>11
    <3> HIDE DEF p
    <3>2. Wrapped(note, InsertAt(both, p, m)) = InsertAt(v, p + 1, m)
      BY <1>1, <1>3, <1>10, <1>11, <3>1, WrapInsert DEF v
    <3> QED  BY <3>2 DEF p
  <2>2. Laid(g, InsertAt(v, (at + 1) + 1, Stamp("modified", modified)))
    <3> DEFINE p == at + 1
    <3>1. p \in 1..Len(v) /\ R[v[p].id] = 0 /\ ~Has(Ids(v), "modified")
      BY <1>7, <1>11, <1>13
    <3> HIDE DEF p
    <3>2. Laid(g, InsertAt(v, p + 1, Stamp("modified", modified)))
      BY <1>2, <1>4, <1>11, <3>1, InsertOwnLaid
    <3> QED  BY <3>2 DEF p
  <2> QED  BY <1>7, <1>13, <2>1, <2>2 DEF m
<1> QED  BY <1>12, <1>13

LEMMA ConcatTwo ==
  ASSUME NEW S, NEW s \in Seq(S), NEW t \in Seq(S), NEW u \in Seq(S),
         Len(u) = Len(s) + Len(t),
         \A k \in 1..Len(s) : u[k] = s[k],
         \A k \in 1..Len(t) : u[Len(s) + k] = t[k]
  PROVE  s \o t = u
<1>1. /\ s \o t \in Seq(S) /\ Len(s \o t) = Len(s) + Len(t) /\ Len(s) \in Nat /\ Len(t) \in Nat
      /\ \A k \in 1..(Len(s) + Len(t)) : (s \o t)[k] = IF k <= Len(s) THEN s[k] ELSE t[k - Len(s)]
  OBVIOUS
<1>2. ASSUME NEW k \in 1..(Len(s) + Len(t)), k > Len(s) PROVE (s \o t)[k] = u[k]
  <2> DEFINE j == k - Len(s)
  <2>1. j \in 1..Len(t) /\ Len(s) + j = k /\ ~(k <= Len(s))
    BY <1>1, <1>2
  <2>2. (s \o t)[k] = t[j]
    BY <1>1, <2>1
  <2> HIDE DEF j
  <2>3. u[Len(s) + j] = t[j]
    BY <2>1
  <2> QED  BY <2>1, <2>2, <2>3
<1>3. ASSUME NEW k \in 1..(Len(s) + Len(t)), k <= Len(s) PROVE (s \o t)[k] = u[k]
  <2>1. k \in 1..Len(s)
    BY <1>1, <1>3
  <2> QED  BY <1>1, <1>3, <2>1
<1>4. \A k \in 1..(Len(s) + Len(t)) : (s \o t)[k] = u[k]
  BY <1>1, <1>2, <1>3
<1> QED  BY <1>1, <1>4

LEMMA Concat11 ==
  ASSUME NEW S, NEW a \in S, NEW b \in S
  PROVE  <<a>> \o <<b>> = <<a, b>>
<1> DEFINE s == <<a>>
           t == <<b>>
           u == <<a, b>>
<1>1. s \in Seq(S) /\ t \in Seq(S) /\ u \in Seq(S) /\ Len(s) = 1 /\ Len(t) = 1 /\ Len(u) = 2
  OBVIOUS
<1>2. /\ s[1] = a /\ t[1] = b
      /\ u[1] = a /\ u[2] = b
  OBVIOUS
<1> HIDE DEF s, t, u
<1>3. \A k \in 1..Len(s) : u[k] = s[k]
  <2>1. \A k \in 1..1 : k = 1
    OBVIOUS
  <2> QED  BY <1>1, <1>2, <2>1
<1>4. \A k \in 1..Len(t) : u[Len(s) + k] = t[k]
  <2>1. \A k \in 1..1 : k = 1
    OBVIOUS
  <2>2. 1 + 1 = 2
    OBVIOUS
  <2> QED  BY <1>1, <1>2, <2>1, <2>2
<1>5. Len(u) = Len(s) + Len(t)
  BY <1>1
<1>6. s \o t = u
  BY <1>1, <1>3, <1>4, <1>5, ConcatTwo
<1> QED  BY <1>6 DEF s, t, u

LEMMA Concat21 ==
  ASSUME NEW S, NEW a \in S, NEW b \in S, NEW c \in S
  PROVE  <<a, b>> \o <<c>> = <<a, b, c>>
<1> DEFINE s == <<a, b>>
           t == <<c>>
           u == <<a, b, c>>
<1>1. s \in Seq(S) /\ t \in Seq(S) /\ u \in Seq(S) /\ Len(s) = 2 /\ Len(t) = 1 /\ Len(u) = 3
  OBVIOUS
<1>2. /\ s[1] = a /\ s[2] = b /\ t[1] = c
      /\ u[1] = a /\ u[2] = b /\ u[3] = c
  OBVIOUS
<1> HIDE DEF s, t, u
<1>3. \A k \in 1..Len(s) : u[k] = s[k]
  <2>1. \A k \in 1..2 : k = 1 \/ k = 2
    OBVIOUS
  <2> QED  BY <1>1, <1>2, <2>1
<1>4. \A k \in 1..Len(t) : u[Len(s) + k] = t[k]
  <2>1. \A k \in 1..1 : k = 1
    OBVIOUS
  <2>2. 2 + 1 = 3
    OBVIOUS
  <2> QED  BY <1>1, <1>2, <2>1, <2>2
<1>5. Len(u) = Len(s) + Len(t)
  BY <1>1
<1>6. s \o t = u
  BY <1>1, <1>3, <1>4, <1>5, ConcatTwo
<1> QED  BY <1>6 DEF s, t, u

LEMMA Concat12 ==
  ASSUME NEW S, NEW a \in S, NEW b \in S, NEW c \in S
  PROVE  <<a>> \o <<b, c>> = <<a, b, c>>
<1> DEFINE s == <<a>>
           t == <<b, c>>
           u == <<a, b, c>>
<1>1. s \in Seq(S) /\ t \in Seq(S) /\ u \in Seq(S) /\ Len(s) = 1 /\ Len(t) = 2 /\ Len(u) = 3
  OBVIOUS
<1>2. /\ s[1] = a /\ t[1] = b /\ t[2] = c
      /\ u[1] = a /\ u[2] = b /\ u[3] = c
  OBVIOUS
<1> HIDE DEF s, t, u
<1>3. \A k \in 1..Len(s) : u[k] = s[k]
  <2>1. \A k \in 1..1 : k = 1
    OBVIOUS
  <2> QED  BY <1>1, <1>2, <2>1
<1>4. \A k \in 1..Len(t) : u[Len(s) + k] = t[k]
  <2>1. \A k \in 1..2 : k = 1 \/ k = 2
    OBVIOUS
  <2>2. 1 + 1 = 2 /\ 1 + 2 = 3
    OBVIOUS
  <2> QED  BY <1>1, <1>2, <2>1, <2>2
<1>5. Len(u) = Len(s) + Len(t)
  BY <1>1
<1>6. s \o t = u
  BY <1>1, <1>3, <1>4, <1>5, ConcatTwo
<1> QED  BY <1>6 DEF s, t, u

LEMMA Concat22 ==
  ASSUME NEW S, NEW a \in S, NEW b \in S, NEW c \in S, NEW d \in S
  PROVE  <<a, b>> \o <<c, d>> = <<a, b, c, d>>
<1> DEFINE s == <<a, b>>
           t == <<c, d>>
           u == <<a, b, c, d>>
<1>1. s \in Seq(S) /\ t \in Seq(S) /\ u \in Seq(S) /\ Len(s) = 2 /\ Len(t) = 2 /\ Len(u) = 4
  OBVIOUS
<1>2. /\ s[1] = a /\ s[2] = b /\ t[1] = c /\ t[2] = d
      /\ u[1] = a /\ u[2] = b /\ u[3] = c /\ u[4] = d
  OBVIOUS
<1> HIDE DEF s, t, u
<1>3. \A k \in 1..Len(s) : u[k] = s[k]
  <2>1. \A k \in 1..2 : k = 1 \/ k = 2
    OBVIOUS
  <2> QED  BY <1>1, <1>2, <2>1
<1>4. \A k \in 1..Len(t) : u[Len(s) + k] = t[k]
  <2>1. \A k \in 1..2 : k = 1 \/ k = 2
    OBVIOUS
  <2>2. 2 + 1 = 3 /\ 2 + 2 = 4
    OBVIOUS
  <2> QED  BY <1>1, <1>2, <2>1, <2>2
<1>5. Len(u) = Len(s) + Len(t)
  BY <1>1
<1>6. s \o t = u
  BY <1>1, <1>3, <1>4, <1>5, ConcatTwo
<1> QED  BY <1>6 DEF s, t, u

LEMMA Concat32 ==
  ASSUME NEW S, NEW a \in S, NEW b \in S, NEW c \in S, NEW d \in S, NEW e \in S
  PROVE  <<a, b, c>> \o <<d, e>> = <<a, b, c, d, e>>
<1> DEFINE s == <<a, b, c>>
           t == <<d, e>>
           u == <<a, b, c, d, e>>
<1>1. s \in Seq(S) /\ t \in Seq(S) /\ u \in Seq(S) /\ Len(s) = 3 /\ Len(t) = 2 /\ Len(u) = 5
  OBVIOUS
<1>2. /\ s[1] = a /\ s[2] = b /\ s[3] = c /\ t[1] = d /\ t[2] = e
      /\ u[1] = a /\ u[2] = b /\ u[3] = c /\ u[4] = d /\ u[5] = e
  OBVIOUS
<1> HIDE DEF s, t, u
<1>3. \A k \in 1..Len(s) : u[k] = s[k]
  <2>1. \A k \in 1..3 : k = 1 \/ k = 2 \/ k = 3
    OBVIOUS
  <2> QED  BY <1>1, <1>2, <2>1
<1>4. \A k \in 1..Len(t) : u[Len(s) + k] = t[k]
  <2>1. \A k \in 1..2 : k = 1 \/ k = 2
    OBVIOUS
  <2>2. 3 + 1 = 4 /\ 3 + 2 = 5
    OBVIOUS
  <2> QED  BY <1>1, <1>2, <2>1, <2>2
<1>5. Len(u) = Len(s) + Len(t)
  BY <1>1
<1>6. s \o t = u
  BY <1>1, <1>3, <1>4, <1>5, ConcatTwo
<1> QED  BY <1>6 DEF s, t, u

\* A new block, line by line.
LEMMA NewBlockLines ==
  ASSUME NEW created \in Int, NEW modified \in Int, NEW o \in OptionSet
  PROVE  LET new == NewBlock(created, modified, o) IN
         /\ new \in Cells /\ Once(Ids(new)) /\ Keyed(new)
         /\ \A i \in DOMAIN new : ~OddQuotes(new[i]) /\ new[i].id \in OwnKeys \cup BlockIds
         /\ \A i, k \in DOMAIN new : i < k /\ new[i].id = "close" => new[k].id = "gap"
         /\ \A i, k \in DOMAIN new : i < k => new[i].id # "gap"
         /\ Has(Ids(new), "open") /\ Has(Ids(new), "close")
         /\ \A i \in DOMAIN new : new[i].id = "created" => o.created /\ new[i].val = created
         /\ \A i \in DOMAIN new : new[i].id = "modified" => new[i].val = modified
         /\ o.modified => Has(Ids(new), "modified")
<1> DEFINE a == Fence("open")
           c == Stamp("created", created)
           m == Stamp("modified", modified)
           d == Fence("close")
           g == Text("gap")
           new == NewBlock(created, modified, o)
<1>1. new = <<a>> \o (IF o.created THEN <<c>> ELSE <<>>) \o (IF o.modified THEN <<m>> ELSE <<>>) \o <<d, g>>
  BY DEF NewBlock
<1>2. /\ a \in NoteLines /\ a.id = "open" /\ ~OddQuotes(a)
      /\ c \in NoteLines /\ c.id = "created" /\ c.key = "created" /\ c.val = created /\ ~OddQuotes(c)
      /\ m \in NoteLines /\ m.id = "modified" /\ m.key = "modified" /\ m.val = modified /\ ~OddQuotes(m)
      /\ d \in NoteLines /\ d.id = "close" /\ ~OddQuotes(d)
      /\ g \in NoteLines /\ g.id = "gap" /\ ~OddQuotes(g)
  <2>1. "open" \in Words /\ "close" \in Words /\ "gap" \in Words /\ "created" \in Words /\ "modified" \in Words
        /\ "" \in Words /\ 0 \in Int
    BY DEF Words
  <2>2. a \in NoteLines /\ d \in NoteLines /\ g \in NoteLines /\ c \in NoteLines /\ m \in NoteLines
    BY <2>1, LineType DEF Fence, Text, Stamp, Kinds
  <2> QED  BY <2>2 DEF Fence, Text, Stamp, Line, OddQuotes
<1>3. o.created \in BOOLEAN /\ o.modified \in BOOLEAN
  BY DEF OptionSet
<1> HIDE DEF a, c, m, d, g, new
<1>4. CASE o.created /\ o.modified
  <2>1. new = <<a, c, m, d, g>>
    <3>1. new = <<a>> \o <<c>> \o <<m>> \o <<d, g>>
      BY <1>1, <1>4
    <3>2. <<a>> \o <<c>> = <<a, c>>
      BY <1>2, Concat11
    <3>3. <<a, c>> \o <<m>> = <<a, c, m>>
      BY <1>2, Concat21
    <3>4. <<a, c, m>> \o <<d, g>> = <<a, c, m, d, g>>
      BY <1>2, Concat32
    <3> QED  BY <3>1, <3>2, <3>3, <3>4
  <2> QED  BY <1>2, <1>4, <2>1 DEF Once, Keyed, Has, Ids, Cells, OwnKeys, BlockIds, new
<1>5. CASE o.created /\ ~o.modified
  <2>1. new = <<a, c, d, g>>
    <3>1. new = <<a>> \o <<c>> \o <<>> \o <<d, g>>
      BY <1>1, <1>5
    <3>2. <<a>> \o <<c>> = <<a, c>>
      BY <1>2, Concat11
    <3>3. <<a, c>> \o <<>> = <<a, c>>
      BY <1>2
    <3>4. <<a, c>> \o <<d, g>> = <<a, c, d, g>>
      BY <1>2, Concat22
    <3> QED  BY <3>1, <3>2, <3>3, <3>4
  <2> QED  BY <1>2, <1>5, <2>1 DEF Once, Keyed, Has, Ids, Cells, OwnKeys, BlockIds, new
<1>6. CASE ~o.created /\ o.modified
  <2>1. new = <<a, m, d, g>>
    <3>1. new = <<a>> \o <<>> \o <<m>> \o <<d, g>>
      BY <1>1, <1>6
    <3>2. <<a>> \o <<>> = <<a>>
      BY <1>2
    <3>3. <<a>> \o <<m>> = <<a, m>>
      BY <1>2, Concat11
    <3>4. <<a, m>> \o <<d, g>> = <<a, m, d, g>>
      BY <1>2, Concat22
    <3> QED  BY <3>1, <3>2, <3>3, <3>4
  <2> QED  BY <1>2, <1>6, <2>1 DEF Once, Keyed, Has, Ids, Cells, OwnKeys, BlockIds, new
<1>7. CASE ~o.created /\ ~o.modified
  <2>1. new = <<a, d, g>>
    <3>1. new = <<a>> \o <<>> \o <<>> \o <<d, g>>
      BY <1>1, <1>7
    <3>2. <<a>> \o <<>> = <<a>>
      BY <1>2
    <3>3. <<a>> \o <<d, g>> = <<a, d, g>>
      BY <1>2, Concat12
    <3> QED  BY <3>1, <3>2, <3>3
  <2> QED  BY <1>2, <1>7, <2>1 DEF Once, Keyed, Has, Ids, Cells, OwnKeys, BlockIds, new
<1> QED  BY <1>3, <1>4, <1>5, <1>6, <1>7

\* A note without a block has nothing of one.
LEMMA BodyOnly ==
  ASSUME NEW note, Regular(note), ~Opened(note), NEW g, Laid(g, note)
  PROVE  /\ g.closed /\ g.kept = {"close"}
         /\ \A i \in DOMAIN note : /\ g.rank[note[i].id] = 4
                                   /\ note[i].id \notin OwnKeys \cup BlockIds \cup {"tag"}
<1>1. At(note, "open") = <<>>
  BY OpenedFirst
<1>2. ~Has(Ids(note), "open") /\ DOMAIN Ids(note) = DOMAIN note /\ \A i \in DOMAIN note : Ids(note)[i] = note[i].id
  BY <1>1, RegularCells
<1>3. g.closed /\ LaidIds(g, Ids(note))
  BY <1>2 DEF Laid
<1>4. \A i \in DOMAIN note : note[i].id \notin OwnKeys \cup BlockIds \cup {"tag"}
  BY <1>2 DEF Regular, Headed
<1> QED  BY <1>2, <1>3, <1>4 DEF LaidIds

LEMMA NewBlockLaid ==
  ASSUME NEW g, Frame(g), NEW note, Regular(note), Laid(g, note), ~Opened(note),
         NEW created \in Int, NEW modified \in Int, NEW o \in OptionSet
  PROVE  Laid(g, NewBlock(created, modified, o) \o note)
<1> DEFINE new == NewBlock(created, modified, o)
           z == new \o note
           n == Len(new)
           R == g.rank
<1>1. /\ new \in Cells /\ Once(Ids(new)) /\ Keyed(new)
      /\ \A i \in DOMAIN new : ~OddQuotes(new[i]) /\ new[i].id \in OwnKeys \cup BlockIds
      /\ \A i, k \in DOMAIN new : i < k /\ new[i].id = "close" => new[k].id = "gap"
      /\ \A i, k \in DOMAIN new : i < k => new[i].id # "gap"
      /\ Has(Ids(new), "open") /\ Has(Ids(new), "close")
  BY NewBlockLines
<1>2. /\ g.closed /\ g.kept = {"close"}
      /\ \A i \in DOMAIN note : R[note[i].id] = 4 /\ note[i].id \notin OwnKeys \cup BlockIds \cup {"tag"}
  BY BodyOnly
<1>3. /\ (\A x \in Words : R[x] \in 0..4) /\ R["open"] = 0 /\ R["close"] = 3 /\ R["gap"] = 4
      /\ \A k \in OwnKeys : R[k] = 0
  BY <1>2, RankFacts
<1>4. /\ note \in Cells /\ DOMAIN note = 1..Len(note) /\ Len(note) \in Nat
      /\ LaidIds(g, Ids(note)) /\ DOMAIN Ids(note) = DOMAIN note /\ \A i \in DOMAIN note : Ids(note)[i] = note[i].id
  <2>1. LaidIds(g, Ids(note))
    BY <1>2 DEF Laid
  <2> QED  BY <2>1, RegularCells DEF Cells
<1> HIDE DEF new
<1>5. n \in Nat /\ DOMAIN new = 1..n /\ \A i \in 1..n : Ids(new)[i] = new[i].id
  BY <1>1 DEF Cells, Ids
<1>6. /\ z \in Cells /\ DOMAIN z = 1..(n + Len(note))
      /\ \A k \in 1..n : z[k] = new[k]
      /\ \A k \in (n + 1)..(n + Len(note)) : k - n \in DOMAIN note /\ z[k] = note[k - n]
  <2>1. new \in Seq(NoteLines) /\ note \in Seq(NoteLines)
    BY <1>1, <1>4 DEF Cells
  <2>2. /\ z \in Seq(NoteLines) /\ Len(z) = n + Len(note)
        /\ \A k \in 1..n : z[k] = new[k]
        /\ \A k \in (n + 1)..(n + Len(note)) : z[k] = note[k - n]
    BY <2>1
  <2>3. \A k \in (n + 1)..(n + Len(note)) : k - n \in DOMAIN note
    BY <1>4, <1>5
  <2> HIDE DEF z, n
  <2> QED  BY <2>2, <2>3 DEF Cells
<1> HIDE DEF z, n
<1>7. DOMAIN Ids(z) = DOMAIN z /\ \A k \in DOMAIN z : Ids(z)[k] = z[k].id /\ z[k].id \in Words
  <2>1. \A k \in DOMAIN z : z[k] \in NoteLines
    <3>1. z \in Seq(NoteLines)
      BY <1>6 DEF Cells
    <3> QED  BY <3>1
  <2> QED  BY <2>1 DEF NoteLines, Ids
<1>8. Ids(z) \in Seq(Words)
  <2>1. Ids(z) \in [1..(n + Len(note)) -> Words] /\ n + Len(note) \in Nat
    BY <1>4, <1>5, <1>6, <1>7 DEF Ids
  <2> QED  BY <2>1, SeqDef
<1>9. ASSUME NEW i \in DOMAIN z, NEW k \in DOMAIN z, i < k
      PROVE  z[i].id # z[k].id /\ R[z[i].id] <= R[z[k].id]
  <2>1. CASE k <= n
    <3>1. i \in DOMAIN new /\ k \in DOMAIN new /\ z[i] = new[i] /\ z[k] = new[k]
      BY <1>4, <1>5, <1>6, <1>9, <2>1
    <3>2. new[i].id # new[k].id
      BY <1>1, <1>5, <1>9, <3>1 DEF Once, Ids
    <3>3. new[i].id # "gap" /\ (new[i].id = "close" => new[k].id = "gap")
      BY <1>1, <1>9, <3>1
    <3>4. new[i].id \in OwnKeys \cup {"open", "close"}
      BY <1>1, <3>1, <3>3 DEF BlockIds
    <3>5. R[new[k].id] \in 0..4
      BY <1>3, <1>7, <3>1
    <3> QED  BY <1>3, <3>1, <3>2, <3>3, <3>4, <3>5
  <2>2. CASE n < i
    <3>1. i - n \in DOMAIN note /\ k - n \in DOMAIN note /\ z[i] = note[i - n] /\ z[k] = note[k - n] /\ i - n # k - n
      BY <1>4, <1>5, <1>6, <1>9, <2>2
    <3>2. note[i - n].id # note[k - n].id
      BY <1>4, <3>1 DEF LaidIds, Once
    <3> QED  BY <1>2, <3>1, <3>2
  <2>3. CASE i <= n /\ n < k
    <3>1. i \in DOMAIN new /\ z[i] = new[i] /\ k - n \in DOMAIN note /\ z[k] = note[k - n]
      BY <1>4, <1>5, <1>6, <1>9, <2>3
    <3>2. R[z[i].id] \in 0..4 /\ R[z[k].id] = 4
      BY <1>2, <1>3, <1>7, <3>1
    <3>3. z[i].id # z[k].id
      BY <1>1, <1>2, <3>1
    <3> QED  BY <3>2, <3>3
  <2> QED  BY <1>4, <1>5, <1>6, <2>1, <2>2, <2>3
<1>10. Once(Ids(z)) /\ Sorted(R, Ids(z))
  <2>1. Sorted(R, Ids(z))
    BY <1>7, <1>9 DEF Sorted
  <2>2. Once(Ids(z))
    <3> SUFFICES ASSUME NEW i \in DOMAIN z, NEW k \in DOMAIN z, z[i].id = z[k].id  PROVE i = k
      BY <1>7 DEF Once
    <3>1. i \in Int /\ k \in Int
      BY <1>6
    <3> QED  BY <1>9, <3>1
  <2> QED  BY <2>1, <2>2
<1>11. Has(Ids(z), "open") /\ Has(Ids(z), "close")
  <2>1. \A i \in DOMAIN new : i \in DOMAIN z /\ z[i] = new[i]
    BY <1>4, <1>5, <1>6
  <2>2. PICK i \in DOMAIN new : new[i].id = "open"
    BY <1>1 DEF Has, Ids
  <2>3. PICK k \in DOMAIN new : new[k].id = "close"
    BY <1>1 DEF Has, Ids
  <2> QED  BY <1>7, <2>1, <2>2, <2>3 DEF Has
<1>12. \A i \in DOMAIN z : /\ z[i].id \in OwnKeys => z[i].key = z[i].id
                           /\ OddQuotes(z[i]) => R[z[i].id] >= 1
  <2> TAKE i \in DOMAIN z
  <2>1. CASE i \in 1..n
    BY <1>1, <1>5, <1>6, <2>1 DEF Keyed
  <2>2. CASE i \in (n + 1)..(n + Len(note))
    BY <1>2, <1>6, <2>2
  <2> QED  BY <1>4, <1>5, <1>6, <2>1, <2>2
<1>13. LaidIds(g, Ids(z))
  BY <1>2, <1>8, <1>10, <1>11 DEF LaidIds, R
<1>14. Laid(g, z)
  BY <1>2, <1>12, <1>13 DEF Laid, Keyed, R
<1> QED  BY <1>14 DEF z, new

\* A stamp keeps a layout (frontmatter.go Apply).
LEMMA ApplyLaid ==
  ASSUME NEW g, Frame(g), NEW note, Regular(note), Laid(g, note),
         NEW created \in Int, NEW modified \in Int, NEW o \in OptionSet
  PROVE  Laid(g, Apply(note, created, modified, o))
<1>1. CASE Apply(note, created, modified, o) = note
  BY <1>1
<1>2. CASE Close(note) # 0 /\ (o.created \/ o.modified)
  <2>1. Apply(note, created, modified, o) = Wrapped(note, Stamped(Inner(note), created, modified, o))
    BY <1>2 DEF Apply, Wrapped
  <2> QED  BY <1>2, <2>1, StampedLaid
<1>3. CASE ~Opened(note) /\ Apply(note, created, modified, o) = NewBlock(created, modified, o) \o note
  BY <1>3, NewBlockLaid
<1> QED  BY <1>1, <1>2, <1>3 DEF Apply

\* Where lines are laid out no key is said twice (frontmatter.go findKey, Apply).
LEMMA LaidSaysOnce ==
  ASSUME NEW g, NEW note, Regular(note), Laid(g, note), NEW key \in OwnKeys
  PROVE  /\ Close(note) # 0 =>
              /\ \A i \in Said(note, key) : /\ i \in 1..(Close(note) - 2) /\ i + 1 \in DOMAIN note
                                            /\ Inner(note)[i] = note[i + 1] /\ note[i + 1].id = key
              /\ \A i, k \in Said(note, key) : i = k
         /\ Close(note) = 0 => Said(note, key) = {}
<1>1. CASE Close(note) = 0
  <2>1. Said(note, key) = {}
    BY <1>1 DEF Said
  <2> QED  BY <1>1, <2>1
<1>2. CASE Close(note) # 0
  <2>1. /\ Inner(note) \in Cells /\ Len(Inner(note)) = Close(note) - 2
        /\ \A k \in 1..(Close(note) - 2) : Inner(note)[k] = note[k + 1]
    BY <1>2, InnerFacts
  <2>2. Close(note) \in 2..Len(note) /\ Has(Ids(note), "close")
    BY <1>2, CloseLine
  <2>3. Keyed(note) /\ Once(Ids(note))
    BY <2>2 DEF Laid, LaidIds
  <2>4. /\ DOMAIN note = 1..Len(note) /\ Len(note) \in Nat /\ DOMAIN Ids(note) = DOMAIN note
        /\ \A k \in DOMAIN note : Ids(note)[k] = note[k].id /\ note[k] \in FineLines
    BY RegularCells DEF Cells
  <2>5. \A i \in Said(note, key) : i \in DOMAIN Inner(note) /\ Inner(note)[i].kind = "key" /\ Inner(note)[i].key = key
    BY <1>2 DEF Said
  <2>6. ASSUME NEW i \in Said(note, key)
        PROVE  /\ i \in 1..(Close(note) - 2) /\ i + 1 \in DOMAIN note
               /\ Inner(note)[i] = note[i + 1] /\ note[i + 1].id = key
    <3> HIDE DEF Said
    <3>1. i \in 1..(Close(note) - 2)
      BY <2>1, <2>5 DEF Cells
    <3>2. i + 1 \in DOMAIN note /\ Inner(note)[i] = note[i + 1]
      BY <2>1, <2>2, <2>4, <3>1
    <3>3. note[i + 1].id \in OwnKeys
      BY <2>4, <2>5, <3>2 DEF FineLines
    <3> QED  BY <2>3, <2>5, <3>1, <3>2, <3>3 DEF Keyed
  <2>7. ASSUME NEW i \in Said(note, key), NEW k \in Said(note, key)  PROVE i = k
    <3>1. i \in Int /\ k \in Int /\ i + 1 = k + 1
      BY <2>2, <2>3, <2>4, <2>6 DEF Once
    <3> QED  BY <3>1
  <2> QED  BY <1>2, <2>6, <2>7
<1> QED  BY <1>1, <1>2

-----------------------------------------------------------------------------
(* The layout a tidy note has from the start.                              *)

LEMMA OpenNoteLaid ==
  ASSUME NEW note, Regular(note), Has(Ids(note), "open"), Close(note) = 0
  PROVE  \E g : Frame(g) /\ Laid(g, note)
<1> DEFINE g == [rank |-> [x \in Words |-> 0], kept |-> {}, closed |-> FALSE]
<1>1. Frame(g)
  BY DEF Frame, Layouts
<1>2. /\ note \in Cells /\ DOMAIN note = 1..Len(note) /\ DOMAIN Ids(note) = DOMAIN note /\ Len(note) \in Nat
      /\ \A i \in DOMAIN note : note[i] \in FineLines /\ Ids(note)[i] = note[i].id
  BY RegularCells DEF Cells
<1>3. Opened(note) /\ note[1].id = "open"
  <2>1. At(note, "open") # <<>>
    BY RegularCells
  <2> QED  BY <2>1, OpenedFirst
<1>4. ~Has(Ids(note), "close")
  <2> SUFFICES ASSUME NEW i \in DOMAIN note, note[i].id = "close"  PROVE FALSE
    BY <1>2 DEF Has
  <2>1. note[i].kind = "fence"
    BY <1>2 DEF FineLines
  <2>2. i # 1
    BY <1>3
  <2>3. i \in 2..Len(note)
    BY <1>2, <2>2
  <2> QED  BY <1>2, <1>3, <2>1, <2>3, CloseFacts
<1>5. Laid(g, note)
  BY <1>4 DEF Laid
<1> QED  BY <1>1, <1>5

LEMMA BareNoteLaid ==
  ASSUME NEW note, Regular(note), ~Has(Ids(note), "open"), Tidy(note)
  PROVE  \E g : Frame(g) /\ Laid(g, note)
<1> DEFINE top == OwnKeys \cup {"open", "tag"}
           R == [x \in Words |-> IF x \in top THEN 0 ELSE IF x = "close" THEN 3 ELSE 4]
           g == [rank |-> R, kept |-> {"close"}, closed |-> TRUE]
<1>1. /\ note \in Cells /\ Ids(note) \in Seq(Words) /\ DOMAIN Ids(note) = DOMAIN note
      /\ \A i \in DOMAIN note : Ids(note)[i] = note[i].id /\ Ids(note)[i] \in Words
      /\ \A i \in DOMAIN note : note[i].id \notin OwnKeys \cup BlockIds \cup {"tag"}
  <2>1. \A i \in DOMAIN note : note[i].id \notin OwnKeys \cup BlockIds \cup {"tag"}
    BY DEF Regular, Headed
  <2> QED  BY <2>1, RegularCells
<1>2. /\ OwnKeys \cup {"open", "close", "gap", "tag", "b1"} \subseteq Words
      /\ "close" \notin top /\ "gap" \notin top /\ "b1" # "close" /\ "close" \notin OwnKeys /\ "gap" # "close"
  BY DEF OwnKeys, Words
<1>3. R \in [Words -> 0..4]
  OBVIOUS
<1>4. Frame(g)
  BY <1>2, <1>3 DEF Frame, Layouts
<1>5. \A i \in DOMAIN note : R[Ids(note)[i]] = 4
  BY <1>1 DEF BlockIds
<1> HIDE DEF R
<1>6. LaidIds(g, Ids(note)) /\ Keyed(note)
  <2>1. Once(Ids(note))
    BY <1>1 DEF Tidy, Once
  <2>2. Sorted(R, Ids(note))
    BY <1>1, <1>5 DEF Sorted
  <2>3. Keyed(note)
    BY <1>1 DEF Keyed
  <2> QED  BY <1>1, <1>5, <2>1, <2>2, <2>3 DEF LaidIds
<1>7. \A i \in DOMAIN note : R[note[i].id] >= 1
  BY <1>1, <1>5
<1>8. Laid(g, note)
  BY <1>6, <1>7 DEF Laid
<1> QED  BY <1>4, <1>8

\* m is the first line of the block with odd quotes, or its end
LEMMA FirstOdd ==
  ASSUME NEW note, Regular(note), Tidy(note), Close(note) # 0
  PROVE  \E m \in 2..Close(note) : /\ \A i \in 1..(m - 1) : ~OddQuotes(note[i])
                                   /\ m < Close(note) => OddQuotes(note[m])
<1> DEFINE c == Close(note)
           odds == {i \in 1..(c - 1) : OddQuotes(note[i])}
<1>1. c \in 2..Len(note) /\ note[1].id = "open" /\ DOMAIN note = 1..Len(note) /\ Len(note) \in Nat
  BY CloseLine, RegularCells DEF Cells
<1>2. ~OddQuotes(note[1])
  <2>1. 1 \in DOMAIN note
    BY <1>1
  <2> QED  BY <1>1, <2>1 DEF Tidy
<1> HIDE DEF c
<1>3. CASE odds = {}
  <2>1. \A i \in 1..(c - 1) : ~OddQuotes(note[i])
    BY <1>3
  <2>2. c \in 2..c /\ ~(c < c)
    BY <1>1
  <2> QED  BY <2>1, <2>2 DEF c
<1>4. CASE odds # {}
  <2>1. odds \in SUBSET Nat
    BY <1>1
  <2>2. Min(odds) \in odds /\ \A k \in odds : Min(odds) <= k
    <3> HIDE DEF odds
    <3> QED  BY <1>4, <2>1, LeastIndex
  <2> DEFINE m == Min(odds)
  <2> HIDE DEF m
  <2>3. m \in 1..(c - 1) /\ OddQuotes(note[m]) /\ \A k \in odds : m <= k
    BY <2>2 DEF m
  <2>4. m # 1
    BY <1>2, <2>3
  <2>5. m \in 2..c
    BY <1>1, <2>3, <2>4
  <2>6. ASSUME NEW i \in 1..(m - 1)  PROVE ~OddQuotes(note[i])
    <3>1. i \in 1..(c - 1) /\ ~(m <= i)
      BY <1>1, <2>3
    <3> QED  BY <2>3, <3>1
  <2> QED  BY <2>3, <2>5, <2>6 DEF c
<1> QED  BY <1>3, <1>4

LEMMA BlockNoteLaid ==
  ASSUME NEW note, Regular(note), Tidy(note), Close(note) # 0
  PROVE  \E g : Frame(g) /\ Laid(g, note)
<1> DEFINE c == Close(note)
<1>1. PICK m \in 2..c : /\ \A i \in 1..(m - 1) : ~OddQuotes(note[i])
                        /\ m < c => OddQuotes(note[m])
  BY FirstOdd
<1>2. /\ c \in 2..Len(note) /\ note[c].id = "close" /\ note[1].id = "open" /\ Len(note) \in Nat
      /\ note \in Cells /\ Ids(note) \in Seq(Words) /\ DOMAIN Ids(note) = DOMAIN note /\ DOMAIN note = 1..Len(note)
      /\ \A i \in DOMAIN note : Ids(note)[i] = note[i].id /\ note[i].id \in Words
      /\ Has(Ids(note), "open") /\ Has(Ids(note), "close")
  <2>1. /\ note \in Cells /\ Ids(note) \in Seq(Words) /\ DOMAIN Ids(note) = DOMAIN note /\ DOMAIN note = 1..Len(note)
        /\ \A i \in DOMAIN note : Ids(note)[i] = note[i].id
    BY RegularCells
  <2>2. \A i \in DOMAIN note : Ids(note)[i] \in Words
    BY <2>1
  <2>3. Len(note) \in Nat
    BY <2>1 DEF Cells
  <2> QED  BY <2>1, <2>2, <2>3, CloseLine
<1> HIDE DEF c
<1> DEFINE pr(i) == IF i < m THEN 0 ELSE IF i > c THEN 4 ELSE IF i = c THEN 3 ELSE IF i = m THEN 1 ELSE 2
           in(x) == \E i \in DOMAIN note : note[i].id = x
           place(x) == CHOOSE i \in DOMAIN note : note[i].id = x
           rk(x) == IF in(x) THEN pr(place(x))
                    ELSE IF x \in OwnKeys \/ (x = "tag" /\ m = c) THEN 0
                    ELSE IF x = "tag" THEN 2 ELSE 4
           R == [x \in Words |-> rk(x)]
           odd == IF m < c THEN {note[m].id} ELSE {}
           kept == {"close"} \cup {x \in {"tag"} : in(x)} \cup odd
           g == [rank |-> R, kept |-> kept, closed |-> TRUE]
<1>3. \A i, k \in DOMAIN note : note[i].id = note[k].id => i = k
  BY DEF Tidy
<1>4. \A i \in DOMAIN note : in(note[i].id) /\ place(note[i].id) = i
  BY <1>3
<1>5. \A x : in(x) => place(x) \in DOMAIN note /\ note[place(x)].id = x
  OBVIOUS
<1> HIDE DEF in, place
<1>6. \A i \in DOMAIN note : rk(note[i].id) = pr(i)
  BY <1>4
<1>7. \A i \in DOMAIN note : i \in Nat /\ pr(i) \in 0..4
  BY <1>1, <1>2
<1>8. \A x : rk(x) \in 0..4
  <2> SUFFICES ASSUME NEW x  PROVE rk(x) \in 0..4
    OBVIOUS
  <2>1. CASE in(x)
    <3>1. rk(x) = pr(place(x))
      BY <2>1
    <3> QED  BY <1>5, <1>7, <2>1, <3>1
  <2>2. CASE ~in(x)
    BY <2>2
  <2> QED  BY <2>1, <2>2
<1>9. \A i, k \in DOMAIN note : i < k => pr(i) <= pr(k)
  BY <1>1, <1>2
<1>10. ASSUME NEW i \in DOMAIN note
       PROVE  /\ pr(i) = 3 => i = c
              /\ pr(i) = 1 => i = m /\ m < c
              /\ pr(i) = 2 => m < c
  BY <1>1, <1>2
<1>28. ASSUME NEW i \in DOMAIN note, c < i  PROVE pr(i) = 4
  BY <1>1, <1>2, <1>28
<1>29. ASSUME NEW i \in DOMAIN note, i < m  PROVE pr(i) = 0
  BY <1>1, <1>2, <1>29
<1>30. ASSUME NEW i \in DOMAIN note, i >= m  PROVE pr(i) >= 1
  BY <1>1, <1>2, <1>30
<1>11. 1 \in DOMAIN note /\ c \in DOMAIN note /\ m \in DOMAIN note /\ 1 < m /\ pr(c) = 3 /\ m <= c /\ (m < c => pr(m) = 1)
  BY <1>1, <1>2
<1>12. ~in("tag") => rk("tag") = IF m = c THEN 0 ELSE 2
  BY DEF OwnKeys
<1>13. \A x : ~in(x) /\ x # "tag" => rk(x) = IF x \in OwnKeys THEN 0 ELSE 4
  OBVIOUS
<1> HIDE DEF pr, rk
<1>14. OwnKeys \cup {"open", "close", "gap", "tag", "b1"} \subseteq Words /\ OwnKeys = {"created", "modified"}
  BY DEF OwnKeys, Words
<1>15. ASSUME NEW i \in DOMAIN note, note[i].id \in OwnKeys  PROVE i < m
  <2>1. \A k \in 1..i : ~OddQuotes(note[k]) /\ note[k].id # "close"
    BY <1>15 DEF Tidy
  <2>2. i \in Nat
    BY <1>7
  <2>3. ~(c <= i)
    <3> SUFFICES ASSUME c <= i  PROVE FALSE
      OBVIOUS
    <3>1. c \in 1..i
      BY <1>2, <2>2
    <3> QED  BY <1>2, <2>1, <3>1
  <2>4. ~(m < c /\ m <= i)
    <3> SUFFICES ASSUME m < c, m <= i  PROVE FALSE
      OBVIOUS
    <3>1. m \in 1..i
      BY <1>1, <1>2, <2>2
    <3> QED  BY <1>1, <2>1, <3>1
  <2> QED  BY <1>1, <1>2, <2>2, <2>3, <2>4
<1>16. /\ rk("open") = 0 /\ rk("close") = 3 /\ rk("gap") = 4
       /\ \A x \in OwnKeys : rk(x) = 0
  <2>1. rk("open") = 0 /\ rk("close") = 3
    <3>1. pr(1) = 0 /\ rk(note[1].id) = pr(1) /\ rk(note[c].id) = pr(c)
      BY <1>6, <1>11, <1>29
    <3> QED  BY <1>2, <1>11, <3>1
  <2>2. rk("gap") = 4
    <3>1. CASE in("gap")
      <4>1. place("gap") \in DOMAIN note /\ note[place("gap")].id = "gap"
        BY <1>5, <3>1
      <4>2. c < place("gap")
        BY <1>2, <1>11, <4>1 DEF Tidy
      <4>3. pr(place("gap")) = 4
        BY <1>28, <4>1, <4>2
      <4> QED  BY <1>6, <4>1, <4>3
    <3>2. CASE ~in("gap")
      BY <1>13, <1>14, <3>2
    <3> QED  BY <3>1, <3>2
  <2>3. ASSUME NEW x \in OwnKeys  PROVE rk(x) = 0
    <3>1. CASE in(x)
      <4>1. place(x) \in DOMAIN note /\ note[place(x)].id = x
        BY <1>5, <3>1
      <4>2. place(x) < m
        BY <1>15, <4>1
      <4>3. pr(place(x)) = 0
        BY <1>29, <4>1, <4>2
      <4>4. rk(note[place(x)].id) = pr(place(x))
        BY <1>6, <4>1
      <4> QED  BY <4>1, <4>3, <4>4
    <3>2. CASE ~in(x)
      BY <1>13, <1>14, <3>2
    <3> QED  BY <3>1, <3>2
  <2> QED  BY <2>1, <2>2, <2>3
<1>17. \A x : /\ rk(x) = 3 => x = "close"
              /\ rk(x) = 1 => x = note[m].id /\ m < c
              /\ rk(x) = 2 => m < c
  <2> SUFFICES ASSUME NEW x, rk(x) \in {1, 2, 3}
               PROVE  /\ rk(x) = 3 => x = "close"
                      /\ rk(x) = 1 => x = note[m].id /\ m < c
                      /\ rk(x) = 2 => m < c
    OBVIOUS
  <2>1. CASE in(x)
    <3>1. place(x) \in DOMAIN note /\ note[place(x)].id = x
      BY <1>5, <2>1
    <3>2. rk(x) = pr(place(x))
      <4>1. rk(note[place(x)].id) = pr(place(x))
        BY <1>6, <3>1
      <4> QED  BY <3>1, <4>1
    <3>3. /\ pr(place(x)) = 3 => place(x) = c
          /\ pr(place(x)) = 1 => place(x) = m /\ m < c
          /\ pr(place(x)) = 2 => m < c
      BY <1>10, <3>1
    <3> QED  BY <1>2, <3>1, <3>2, <3>3
  <2>2. CASE ~in(x) /\ x = "tag"
    <3>1. rk(x) = 2 /\ m # c
      BY <1>12, <2>2
    <3>2. m < c
      BY <1>1, <1>2, <3>1
    <3> QED  BY <3>1, <3>2
  <2>3. CASE ~in(x) /\ x # "tag"
    BY <1>13, <2>3
  <2> QED  BY <2>1, <2>2, <2>3
<1>18. kept \subseteq Words /\ "close" \in kept /\ kept \cap (OwnKeys \cup {"b1"}) = {}
  <2>1. note[m].id \in Words
    BY <1>2, <1>11
  <2>2. m < c => note[m].id \notin OwnKeys \cup {"b1"}
    <3>1. m < c => note[m].id \notin OwnKeys
      BY <1>1, <1>11, <1>15
    <3>2. m < c => note[m].id # "b1"
      BY <1>1, <1>11 DEF Tidy
    <3> QED  BY <3>1, <3>2
  <2> QED  BY <1>14, <2>1, <2>2
<1>19. R \in [Words -> 0..4] /\ \A x \in Words : R[x] = rk(x)
  BY <1>8
<1>20. \/ "tag" \in kept
       \/ rk("tag") = 0 /\ \A x \in Words : rk(x) \notin {1, 2}
       \/ rk("tag") = 2 /\ \E x \in Words : rk(x) = 1
  <2>1. CASE in("tag")
    BY <2>1
  <2>2. CASE ~in("tag") /\ m = c
    BY <1>2, <1>12, <1>17, <2>2
  <2>3. CASE ~in("tag") /\ m # c
    <3>1. m < c
      BY <1>1, <1>2, <2>3
    <3>2. rk(note[m].id) = 1 /\ note[m].id \in Words
      BY <1>2, <1>6, <1>11, <3>1
    <3> QED  BY <1>12, <2>3, <3>2
  <2> QED  BY <2>1, <2>2, <2>3
<1>21. \A x : rk(x) = 1 => x \in kept
  BY <1>17
<1>22. \A x : x \in kept => Has(Ids(note), x)
  <2>1. \A x : in(x) => Has(Ids(note), x)
    BY <1>2 DEF Has, in
  <2>2. in(note[m].id) /\ in("close")
    BY <1>2, <1>4, <1>11
  <2> QED  BY <2>1, <2>2
<1> HIDE DEF R, kept
<1>23. Frame(g)
  <2>1. g \in Layouts
    BY <1>18, <1>19 DEF Layouts
  <2>2. g.rank = R /\ g.kept = kept /\ g.closed
    OBVIOUS
  <2> HIDE DEF g
  <2>3. /\ R["open"] = 0 /\ R["close"] = 3 /\ R["gap"] = 4 /\ \A k \in OwnKeys : R[k] = 0
    BY <1>14, <1>16, <1>19
  <2>4. /\ \A x \in Words : R[x] = 3 => x = "close"
        /\ \A x, y \in Words : R[x] = 1 /\ R[y] = 1 => x = y
        /\ \A x \in Words : R[x] = 1 => x \in kept
    BY <1>17, <1>19, <1>21
  <2>5. \/ "tag" \in kept
        \/ R["tag"] = 0 /\ \A x \in Words : R[x] \notin {1, 2}
        \/ R["tag"] = 2 /\ \E x \in Words : R[x] = 1
    BY <1>14, <1>19, <1>20
  <2> QED  BY <1>18, <2>1, <2>2, <2>3, <2>4, <2>5 DEF Frame
<1>24. LaidIds(g, Ids(note))
  <2>1. Once(Ids(note))
    BY <1>2, <1>3 DEF Once
  <2>2. Sorted(R, Ids(note))
    BY <1>2, <1>6, <1>9, <1>19 DEF Sorted
  <2> QED  BY <1>2, <1>22, <2>1, <2>2 DEF LaidIds
<1>25. Keyed(note)
  BY DEF Keyed, Tidy
<1>26. ASSUME NEW i \in DOMAIN note, OddQuotes(note[i])  PROVE R[note[i].id] >= 1
  <2>1. ~(i \in 1..(m - 1)) /\ i \in Nat /\ i >= 1
    BY <1>1, <1>2, <1>26
  <2>2. i >= m
    BY <1>1, <1>2, <2>1
  <2>3. pr(i) >= 1 /\ rk(note[i].id) = pr(i) /\ note[i].id \in Words
    BY <1>2, <1>6, <1>26, <1>30, <2>2
  <2>4. R[note[i].id] = pr(i)
    BY <1>19, <2>3
  <2> QED  BY <2>3, <2>4
<1>27. Laid(g, note)
  BY <1>24, <1>25, <1>26 DEF Laid
<1> QED  BY <1>23, <1>27

LEMMA TidyLaid ==
  ASSUME NEW note, Regular(note), Tidy(note)
  PROVE  \E g : Frame(g) /\ Laid(g, note)
  BY OpenNoteLaid, BareNoteLaid, BlockNoteLaid

-----------------------------------------------------------------------------
(* What created and modified are, where keys are laid out.                 *)

Val(v, k) == IF At(v, k) = <<>> THEN Empty ELSE At(v, k)[1].val
OwnIn(v) == {v[i] : i \in {k \in DOMAIN v : v[k].id \in OwnKeys}}

LEMMA ValIs ==
  ASSUME NEW v \in Cells, Once(Ids(v)), NEW k \in OwnKeys
  PROVE  /\ \A l \in OwnIn(v) : l.id = k => Val(v, k) = l.val
         /\ (\A l \in OwnIn(v) : l.id # k) => Val(v, k) = Empty
<1>1. ASSUME NEW l \in OwnIn(v), l.id = k  PROVE Val(v, k) = l.val
  <2>1. PICK i \in DOMAIN v : l = v[i]
    BY DEF OwnIn
  <2>2. At(v, k) = <<l>>
    BY <1>1, <2>1, AtOnce
  <2> QED  BY <2>2 DEF Val
<1>2. ASSUME \A l \in OwnIn(v) : l.id # k  PROVE Val(v, k) = Empty
  <2>1. \A i \in DOMAIN v : v[i].id # k
    BY <1>2 DEF OwnIn
  <2> QED  BY <2>1, AtFacts DEF Val
<1> QED  BY <1>1, <1>2

LEMMA OwnUnique ==
  ASSUME NEW v \in Cells, Once(Ids(v)), NEW l \in OwnIn(v), NEW m \in OwnIn(v), l.id = m.id
  PROVE  l = m
<1>1. PICK i \in DOMAIN v : l = v[i]
  BY DEF OwnIn
<1>2. PICK k \in DOMAIN v : m = v[k]
  BY DEF OwnIn
<1>3. i = k
  BY <1>1, <1>2 DEF Once, Ids
<1> QED  BY <1>1, <1>2, <1>3

LEMMA BlockClosed ==
  ASSUME NEW g, Frame(g), g.closed, NEW v, Regular(v), Laid(g, v), Opened(v)
  PROVE  Close(v) # 0
<1>1. /\ v \in Cells /\ DOMAIN v = 1..Len(v) /\ DOMAIN Ids(v) = DOMAIN v /\ Len(v) \in Nat
      /\ \A i \in DOMAIN v : v[i] \in FineLines /\ Ids(v)[i] = v[i].id
  BY RegularCells DEF Cells
<1>2. v # <<>> /\ v[1].id = "open"
  BY OpenedFirst
<1>3. Has(Ids(v), "open")
  <2>1. 1 \in DOMAIN v
    BY <1>1, <1>2
  <2> QED  BY <1>1, <1>2, <2>1 DEF Has
<1>4. Has(Ids(v), "close")
  BY <1>3 DEF Laid, LaidIds, Frame
<1>5. PICK i \in DOMAIN v : v[i].id = "close"
  BY <1>1, <1>4 DEF Has
<1>6. i \in 2..Len(v) /\ v[i].kind = "fence"
  <2>1. i # 1
    BY <1>2, <1>5
  <2>2. v[i].kind = "fence"
    BY <1>1, <1>5 DEF FineLines
  <2> QED  BY <1>1, <2>1, <2>2
<1> QED  BY <1>1, <1>6, CloseFacts

\* A reader finds what the line has.
LEMMA ValueIsVal ==
  ASSUME NEW g, Frame(g), g.closed, NEW v, Regular(v), Laid(g, v), NEW k \in OwnKeys
  PROVE  ValueOf(v, k) = Val(v, k)
<1>0. v \in Cells /\ DOMAIN v = 1..Len(v) /\ Len(v) \in Nat /\ \A i \in DOMAIN v : v[i] \in FineLines
  BY RegularCells DEF Cells
<1>1. Once(Ids(v)) /\ Keyed(v)
  BY DEF Laid, LaidIds
<1>2. CASE ~Opened(v)
  <2>1. \A i \in DOMAIN v : v[i].id \notin OwnKeys
    BY <1>2, BodyOnly
  <2>2. Val(v, k) = Empty
    BY <1>0, <1>1, <2>1, ValIs DEF OwnIn
  <2>3. Close(v) = 0
    BY <1>2 DEF Close
  <2> QED  BY <2>2, <2>3 DEF ValueOf, Said
<1>3. CASE Close(v) # 0
  <2> DEFINE said == Said(v, k)
  <2>1. /\ \A i \in said : /\ i \in 1..(Close(v) - 2) /\ i + 1 \in DOMAIN v
                           /\ Inner(v)[i] = v[i + 1] /\ v[i + 1].id = k
        /\ \A i, n \in said : i = n
    BY <1>3, LaidSaysOnce
  <2>2. CASE said = {}
    <3>1. ASSUME NEW i \in DOMAIN v, v[i].id = k  PROVE FALSE
      <4>1. i \in 2..(Close(v) - 1) /\ \A n \in 1..i : ~OddQuotes(v[n])
        BY <1>3, <3>1, OwnPlace
      <4>2. /\ Inner(v) \in Cells /\ Len(Inner(v)) = Close(v) - 2
            /\ \A n \in 1..(Close(v) - 2) : Inner(v)[n] = v[n + 1]
        BY <1>3, InnerFacts
      <4>3. Close(v) \in 2..Len(v)
        BY <1>3, CloseLine
      <4> DEFINE j == i - 1
      <4>4. j \in 1..(Close(v) - 2) /\ j + 1 = i /\ j - 1 \in 0..Len(Inner(v))
        BY <4>1, <4>2, <4>3
      <4> HIDE DEF j
      <4>5. \A n \in 1..(j - 1) : ~OddQuotes(Inner(v)[n])
        <5> TAKE n \in 1..(j - 1)
        <5>1. n \in 1..(Close(v) - 2) /\ n + 1 \in 1..i
          BY <4>1, <4>3, <4>4
        <5> QED  BY <4>1, <4>2, <5>1
      <4>6. ~ReallyQuoted(Inner(v))[j - 1]
        BY <4>2, <4>4, <4>5, Quiet
      <4>7. Inner(v)[j] = v[i]
        BY <4>2, <4>4
      <4>8. v[i].kind = "key" /\ v[i].key = k
        <5>1. v[i] \in FineLines /\ v[i].key = v[i].id
          BY <1>0, <1>1, <3>1 DEF Keyed
        <5> QED  BY <3>1, <5>1 DEF FineLines
      <4>9. j \in DOMAIN Inner(v)
        BY <4>2, <4>4 DEF Cells
      <4>10. j \in said
        BY <1>3, <4>6, <4>7, <4>8, <4>9 DEF Said
      <4> QED  BY <2>2, <4>10
    <3>2. Val(v, k) = Empty
      <4>1. \A l \in OwnIn(v) : l.id # k
        BY <3>1 DEF OwnIn
      <4> QED  BY <1>0, <1>1, <4>1, ValIs
    <3> QED  BY <2>2, <3>2 DEF ValueOf
  <2>3. CASE said # {}
    <3> DEFINE i == CHOOSE i \in said : \A j \in said : i <= j
    <3>1. i \in said
      <4>1. PICK n \in said : TRUE
        BY <2>3
      <4>2. \A j \in said : n <= j
        BY <2>1
      <4> HIDE DEF said
      <4> QED  BY <4>1, <4>2
    <3>2. ValueOf(v, k) = Inner(v)[i].val
      BY <2>3 DEF ValueOf
    <3> HIDE DEF i, said
    <3>3. i + 1 \in DOMAIN v /\ Inner(v)[i] = v[i + 1] /\ v[i + 1].id = k
      BY <2>1, <3>1
    <3>4. v[i + 1] \in OwnIn(v)
      BY <3>3 DEF OwnIn
    <3>5. Val(v, k) = v[i + 1].val
      BY <1>0, <1>1, <3>3, <3>4, ValIs
    <3> QED  BY <3>2, <3>3, <3>5
  <2> QED  BY <2>2, <2>3
<1> QED  BY <1>2, <1>3, BlockClosed

\* What a date can become: created is filled in once and then only gets
\* earlier, modified only later.
EarlierDate(x, y) == x = Empty \/ y = x \/ (Empty < y /\ y < x)
LaterDate(x, y) == y = x \/ (x < y /\ Empty < y)
Aged(v, w) == EarlierDate(Val(v, "created"), Val(w, "created")) /\ LaterDate(Val(v, "modified"), Val(w, "modified"))
OwnDated(v, t) == \A l \in OwnIn(v) : Junk <= l.val /\ l.val <= t

LEMMA ValInt ==
  ASSUME NEW v \in Cells, Once(Ids(v)), NEW t, OwnDated(v, t), NEW k \in OwnKeys
  PROVE  Val(v, k) \in Int /\ Junk <= Val(v, k) /\ (Val(v, k) <= t \/ Val(v, k) = Empty)
<1>1. \A l \in OwnIn(v) : l.val \in Int
  <2>1. \A i \in DOMAIN v : v[i] \in NoteLines
    BY DEF Cells
  <2>2. \A i \in DOMAIN v : v[i].val \in Int
    BY <2>1 DEF NoteLines
  <2> QED  BY <2>2 DEF OwnIn
<1>2. CASE \A l \in OwnIn(v) : l.id # k
  BY <1>2, ValIs DEF Empty, Junk
<1>3. ASSUME NEW l \in OwnIn(v), l.id = k
      PROVE  Val(v, k) \in Int /\ Junk <= Val(v, k) /\ Val(v, k) <= t
  BY <1>1, <1>3, ValIs DEF OwnDated
<1> QED  BY <1>2, <1>3

LEMMA AgedFacts ==
  ASSUME NEW u \in Cells, NEW v \in Cells, NEW w \in Cells,
         Once(Ids(u)), Once(Ids(v)), Once(Ids(w)), NEW t, OwnDated(u, t), OwnDated(v, t), OwnDated(w, t)
  PROVE  Aged(u, u) /\ (Aged(u, v) /\ Aged(v, w) => Aged(u, w))
<1>1. \A k \in OwnKeys : Val(u, k) \in Int /\ Val(v, k) \in Int /\ Val(w, k) \in Int
  BY ValInt
<1>2. "created" \in OwnKeys /\ "modified" \in OwnKeys
  BY DEF OwnKeys
<1> QED  BY <1>1, <1>2 DEF Aged, EarlierDate, LaterDate, Empty

\* A merge that ends well, resolver included, has a created no later and a
\* modified no earlier than either side, and no time to come (conflict.go
\* reconcile, which takes the earlier and the later).
THEOREM MergeAges ==
  ASSUME NEW g, Frame(g), g.closed, NEW f, NEW o, NEW t, Regular(f), Regular(o), Regular(t),
         Follows(f, o), Follows(f, t), Laid(g, f), Laid(g, o), Laid(g, t),
         NEW s, OwnDated(f, s), OwnDated(o, s), OwnDated(t, s), Aged(f, o), Aged(f, t),
         NEW diff3 \in BOOLEAN, NEW op, NEW z \in Resolved(Merge(f, o, t, diff3), op)
  PROVE  OwnDated(z, s) /\ Aged(o, z) /\ Aged(t, z)
<1>1. /\ Regular(z) /\ Laid(g, z)
      /\ \A i \in DOMAIN z : (\E k \in DOMAIN o : z[i] = o[k]) \/ (\E k \in DOMAIN t : z[i] = t[k])
  BY MergeLaid, MergeLaw
<1>2. OwnDated(z, s)
  <2>1. \A l \in OwnIn(z) : l \in OwnIn(o) \cup OwnIn(t)
    BY <1>1 DEF OwnIn
  <2> QED  BY <2>1 DEF OwnDated
<1>3. ASSUME NEW v \in {f, o, t, z}  PROVE v \in Cells /\ Once(Ids(v)) /\ Keyed(v)
  <2>1. Regular(v) /\ Laid(g, v)
    BY <1>1
  <2> QED  BY <2>1, RegularCells DEF Laid, LaidIds
<1>4. \A id : CellLaw(At(f, id), At(o, id), At(t, id), At(z, id), op)
  <2>1. LaidIds(g, Ids(f)) /\ LaidIds(g, Ids(o)) /\ LaidIds(g, Ids(t))
    BY DEF Laid
  <2>2. Once(MergeIds(f, o, t))
    BY <2>1, MergeIdsLaid DEF LaidIds
  <2> QED  BY <1>3, <2>2, CellsMerged, SMTT(60)
<1>5. ASSUME NEW k \in OwnKeys
      PROVE  /\ Val(f, k) \in Int /\ Val(o, k) \in Int /\ Val(t, k) \in Int
             /\ Junk <= Val(f, k) /\ Junk <= Val(o, k) /\ Junk <= Val(t, k)
             /\ \/ Val(z, k) = Val(o, k) /\ Val(t, k) = Val(o, k)
                \/ Val(z, k) = Val(o, k) /\ Val(t, k) = Val(f, k)
                \/ Val(z, k) = Val(t, k) /\ Val(o, k) = Val(f, k)
                \/ Val(z, k) = Val(o, k) /\ Val(t, k) = Empty
                \/ Val(z, k) = Val(t, k) /\ Val(o, k) = Empty
                \/ /\ Junk # Val(o, k) /\ Junk # Val(t, k) /\ Val(o, k) # Empty /\ Val(t, k) # Empty
                   /\ Val(z, k) = IF (Val(o, k) > Val(t, k)) = (k = "modified") THEN Val(o, k) ELSE Val(t, k)
  <2>1. /\ Val(f, k) \in Int /\ Val(o, k) \in Int /\ Val(t, k) \in Int
        /\ Junk <= Val(f, k) /\ Junk <= Val(o, k) /\ Junk <= Val(t, k)
    BY <1>3, ValInt
  <2>2. CASE At(z, k) = Merged(At(f, k), At(o, k), At(t, k)) /\ (At(f, k) # At(t, k) => At(o, k) \in {At(f, k), At(t, k)})
    BY <2>1, <2>2 DEF Merged, Val
  <2>3. ASSUME NEW l, NEW m, At(o, k) = <<l>>, At(t, k) = <<m>>,
               NEW w \in Reconcile(l, m, op), At(z, k) = <<w>>
        PROVE  \/ w = l /\ m.val = Empty
               \/ w = m /\ l.val = Empty
               \/ /\ Junk # l.val /\ Junk # m.val /\ l.val # Empty /\ m.val # Empty
                  /\ w = IF (l.val > m.val) = (k = "modified") THEN l ELSE m
    <3>1. l.key = k
      <4>1. PICK i \in DOMAIN o : l = o[i] /\ l.id = k
        BY <1>3, <2>3, AtFacts
      <4> QED  BY <1>3, <4>1 DEF Keyed
    <3> QED  BY <2>3, <3>1 DEF Reconcile, Winner
  <2>4. ASSUME NEW l, NEW m, At(o, k) = <<l>>, At(t, k) = <<m>>,
               NEW w \in Reconcile(l, m, op), At(z, k) = <<w>>
        PROVE  Val(o, k) = l.val /\ Val(t, k) = m.val /\ Val(z, k) = w.val
    BY <2>4 DEF Val
  <2>5. CASE \E l, m : /\ At(o, k) = <<l>> /\ At(t, k) = <<m>>
                       /\ \E w \in Reconcile(l, m, op) : At(z, k) = <<w>>
    <3>1. PICK l, m : /\ At(o, k) = <<l>> /\ At(t, k) = <<m>>
                      /\ \E w \in Reconcile(l, m, op) : At(z, k) = <<w>>
      BY <2>5
    <3>2. PICK w \in Reconcile(l, m, op) : At(z, k) = <<w>>
      BY <3>1
    <3>3. Val(o, k) = l.val /\ Val(t, k) = m.val /\ Val(z, k) = w.val
      BY <2>4, <3>1, <3>2
    <3>4. \/ w = l /\ m.val = Empty
          \/ w = m /\ l.val = Empty
          \/ /\ Junk # l.val /\ Junk # m.val /\ l.val # Empty /\ m.val # Empty
             /\ w = IF (l.val > m.val) = (k = "modified") THEN l ELSE m
      BY <2>3, <3>1, <3>2
    <3> QED  BY <2>1, <3>3, <3>4
  <2>6. CellLaw(At(f, k), At(o, k), At(t, k), At(z, k), op)
    BY <1>4
  <2> QED  BY <2>1, <2>2, <2>5, <2>6 DEF CellLaw
<1>6. "created" \in OwnKeys /\ "modified" \in OwnKeys /\ "created" # "modified"
  BY DEF OwnKeys
<1>7. EarlierDate(Val(o, "created"), Val(z, "created")) /\ EarlierDate(Val(t, "created"), Val(z, "created"))
  <2>1. EarlierDate(Val(f, "created"), Val(o, "created")) /\ EarlierDate(Val(f, "created"), Val(t, "created"))
    BY DEF Aged
  <2> QED  BY <1>5, <1>6, <2>1 DEF EarlierDate, Empty, Junk
<1>8. LaterDate(Val(o, "modified"), Val(z, "modified")) /\ LaterDate(Val(t, "modified"), Val(z, "modified"))
  <2>1. LaterDate(Val(f, "modified"), Val(o, "modified")) /\ LaterDate(Val(f, "modified"), Val(t, "modified"))
    BY DEF Aged
  <2> QED  BY <1>5, <1>6, <2>1 DEF LaterDate, Empty, Junk
<1> QED  BY <1>2, <1>7, <1>8 DEF Aged

-----------------------------------------------------------------------------
(* What a save and its stamp make of the dates.                            *)

LEMMA InsertOwn ==
  ASSUME NEW w \in Cells, NEW p \in 1..(Len(w) + 1), NEW e \in NoteLines
  PROVE  OwnIn(InsertAt(w, p, e)) = OwnIn(w) \cup (IF e.id \in OwnKeys THEN {e} ELSE {})
<1> DEFINE y == InsertAt(w, p, e)
<1>1. /\ y \in Seq(NoteLines) /\ Len(y) = Len(w) + 1
      /\ \A k \in 1..(p - 1) : y[k] = w[k]
      /\ y[p] = e
      /\ \A k \in (p + 1)..(Len(w) + 1) : y[k] = w[k - 1]
  <2>1. w \in Seq(NoteLines)
    BY DEF Cells
  <2> QED  BY <2>1, InsertFacts
<1>2. DOMAIN w = 1..Len(w) /\ Len(w) \in Nat
  BY DEF Cells
<1> HIDE DEF y
<1>3. DOMAIN y = 1..(Len(w) + 1)
  BY <1>1
<1>4. ASSUME NEW k \in DOMAIN y  PROVE y[k] = e \/ \E j \in DOMAIN w : y[k] = w[j]
  <2>1. CASE k < p
    <3>1. k \in 1..(p - 1) /\ k \in DOMAIN w
      BY <1>2, <1>3, <2>1
    <3> QED  BY <1>1, <3>1
  <2>2. CASE k > p
    <3>1. k \in (p + 1)..(Len(w) + 1) /\ k - 1 \in DOMAIN w
      BY <1>2, <1>3, <2>2
    <3> QED  BY <1>1, <3>1
  <2> QED  BY <1>1, <1>3, <2>1, <2>2
<1>5. ASSUME NEW j \in DOMAIN w  PROVE \E k \in DOMAIN y : y[k] = w[j]
  <2>1. CASE j < p
    <3>1. j \in 1..(p - 1) /\ j \in DOMAIN y
      BY <1>2, <1>3, <2>1
    <3> QED  BY <1>1, <3>1
  <2>2. CASE j >= p
    <3> DEFINE k == j + 1
    <3>1. k \in (p + 1)..(Len(w) + 1) /\ k \in DOMAIN y /\ k - 1 = j
      BY <1>2, <1>3, <2>2
    <3> HIDE DEF k
    <3>2. y[k] = w[k - 1]
      BY <1>1, <3>1
    <3> QED  BY <3>1, <3>2
  <2> QED  BY <1>2, <2>1, <2>2
<1>6. p \in DOMAIN y
  BY <1>2, <1>3
<1>7. OwnIn(y) \subseteq OwnIn(w) \cup (IF e.id \in OwnKeys THEN {e} ELSE {})
  BY <1>4 DEF OwnIn
<1>8. OwnIn(w) \subseteq OwnIn(y)
  <2> SUFFICES ASSUME NEW j \in DOMAIN w, w[j].id \in OwnKeys  PROVE w[j] \in OwnIn(y)
    BY DEF OwnIn
  <2>1. PICK k \in DOMAIN y : y[k] = w[j]
    BY <1>5
  <2> QED  BY <2>1 DEF OwnIn
<1>9. e.id \in OwnKeys => e \in OwnIn(y)
  BY <1>1, <1>6 DEF OwnIn
<1> QED  BY <1>7, <1>8, <1>9 DEF y

LEMMA SaveKeepsOwn ==
  ASSUME NEW note, Regular(note), NEW t \in Int, Quoting = FALSE, NEW now \in Saves(note, t)
  PROVE  OwnIn(now) = OwnIn(note)
<1>1. /\ note \in Cells /\ DOMAIN note = 1..Len(note) /\ Len(note) \in Nat /\ note \in Seq(NoteLines)
  BY RegularCells DEF Cells
<1>2. ASSUME NEW id \in {"title", "b1", "b2"}, now = Rewritten(note, id, t)  PROVE OwnIn(now) = OwnIn(note)
  <2>1. id \notin OwnKeys
    BY DEF OwnKeys
  <2>2. /\ DOMAIN now = DOMAIN note
        /\ \A i \in DOMAIN note : now[i] = IF note[i].id = id THEN [note[i] EXCEPT !.val = t] ELSE note[i]
    BY <1>2 DEF Rewritten
  <2>3. \A i \in DOMAIN note : note[i] \in NoteLines
    BY <1>1
  <2>4. \A i \in DOMAIN note : now[i].id = note[i].id /\ (note[i].id # id => now[i] = note[i])
    BY <2>2, <2>3 DEF NoteLines
  <2> QED  BY <2>1, <2>2, <2>4 DEF OwnIn
<1>3. ASSUME NEW i \in DOMAIN note, note[i].id = "b1", now = RemoveAt(note, i)  PROVE OwnIn(now) = OwnIn(note)
  <2> DEFINE n == Len(note)
  <2>1. /\ now \in Seq(NoteLines) /\ Len(now) = n - 1
        /\ \A k \in 1..(i - 1) : now[k] = note[k]
        /\ \A k \in i..(n - 1) : now[k] = note[k + 1]
    <3>1. i \in 1..Len(note)
      BY <1>1
    <3>2. /\ RemoveAt(note, i) \in Seq(NoteLines) /\ Len(RemoveAt(note, i)) = Len(note) - 1
          /\ \A k \in 1..(i - 1) : RemoveAt(note, i)[k] = note[k]
          /\ \A k \in i..(Len(note) - 1) : RemoveAt(note, i)[k] = note[k + 1]
      BY <1>1, <3>1, RemoveFacts
    <3> QED  BY <1>3, <3>2
  <2>2. note[i].id \notin OwnKeys
    BY <1>3 DEF OwnKeys
  <2>3. DOMAIN now = 1..(n - 1) /\ n \in Nat /\ i \in 1..n
    BY <1>1, <2>1
  <2>4. ASSUME NEW k \in DOMAIN now  PROVE \E j \in DOMAIN note : now[k] = note[j]
    <3>1. k \in 1..(i - 1) \/ (k \in i..(n - 1) /\ k + 1 \in DOMAIN note)
      BY <1>1, <2>3
    <3>2. k \in 1..(i - 1) => k \in DOMAIN note
      BY <1>1, <2>3
    <3> QED  BY <2>1, <3>1, <3>2
  <2>5. ASSUME NEW j \in DOMAIN note, j # i  PROVE \E k \in DOMAIN now : now[k] = note[j]
    <3>1. CASE j < i
      <4>1. j \in 1..(i - 1) /\ j \in DOMAIN now
        BY <1>1, <2>3, <3>1
      <4> QED  BY <2>1, <4>1
    <3>2. CASE j > i
      <4> DEFINE k == j - 1
      <4>1. k \in i..(n - 1) /\ k \in DOMAIN now /\ k + 1 = j
        BY <1>1, <2>3, <3>2
      <4> HIDE DEF k
      <4>2. now[k] = note[k + 1]
        BY <2>1, <4>1
      <4> QED  BY <4>1, <4>2
    <3> QED  BY <1>1, <2>3, <2>5, <3>1, <3>2
  <2> HIDE DEF n
  <2>6. OwnIn(now) \subseteq OwnIn(note)
    BY <2>4 DEF OwnIn
  <2>7. OwnIn(note) \subseteq OwnIn(now)
    <3> SUFFICES ASSUME NEW j \in DOMAIN note, note[j].id \in OwnKeys  PROVE note[j] \in OwnIn(now)
      BY DEF OwnIn
    <3>1. j # i
      BY <2>2
    <3>2. PICK k \in DOMAIN now : now[k] = note[j]
      BY <2>5, <3>1
    <3> QED  BY <3>2 DEF OwnIn
  <2> QED  BY <2>6, <2>7
<1>4. ASSUME Close(note) # 0, now = InsertAt(note, Close(note), Line("tag", "key", "tag", t))
      PROVE  OwnIn(now) = OwnIn(note)
  <2>1. Close(note) \in 1..(Len(note) + 1)
    BY <1>1, <1>4, CloseFacts
  <2>2. Line("tag", "key", "tag", t) \in NoteLines /\ Line("tag", "key", "tag", t).id = "tag"
    BY LineType DEF Line, Words, Kinds
  <2>3. "tag" \notin OwnKeys
    BY DEF OwnKeys
  <2> QED  BY <1>1, <1>4, <2>1, <2>2, <2>3, InsertOwn
<1>5. CASE \E id \in Range(Ids(note)) \cap {"title", "b1", "b2"} : now = Rewritten(note, id, t)
  BY <1>2, <1>5
<1>6. CASE \E i \in DOMAIN note : note[i].id = "b1" /\ now = RemoveAt(note, i)
  BY <1>3, <1>6
<1>7. CASE Close(note) # 0 /\ now = InsertAt(note, Close(note), Line("tag", "key", "tag", t))
  BY <1>4, <1>7
<1> QED  BY <1>5, <1>6, <1>7 DEF Saves

LEMMA WrapOwn ==
  ASSUME NEW note \in Cells, Close(note) \in 2..Len(note), NEW x \in Cells,
         note[1].id \notin OwnKeys, \A k \in Close(note)..Len(note) : note[k].id \notin OwnKeys
  PROVE  OwnIn(Wrapped(note, x)) = OwnIn(x)
<1> DEFINE z == Wrapped(note, x)
           c == Close(note)
           n == Len(x)
<1>1. /\ z \in Cells /\ Len(z) = n + 2 + (Len(note) - c)
      /\ z[1] = note[1]
      /\ \A k \in 1..n : z[k + 1] = x[k]
      /\ \A k \in (n + 2)..Len(z) : z[k] = note[k - n - 2 + c]
  BY WrapFacts
<1>2. DOMAIN z = 1..Len(z) /\ DOMAIN x = 1..n /\ n \in Nat /\ Len(note) \in Nat /\ Len(z) \in Nat
  <2> HIDE DEF z
  <2> QED  BY <1>1 DEF Cells
<1> HIDE DEF z, n
<1>3. ASSUME NEW k \in DOMAIN z, z[k].id \in OwnKeys  PROVE z[k] \in OwnIn(x)
  <2>1. k # 1
    BY <1>1, <1>3
  <2>2. ~(k \in (n + 2)..Len(z))
    <3> SUFFICES ASSUME k \in (n + 2)..Len(z)  PROVE FALSE
      OBVIOUS
    <3>1. k - n - 2 + c \in c..Len(note)
      BY <1>1, <1>2
    <3> QED  BY <1>1, <1>3, <3>1
  <2> DEFINE j == k - 1
  <2>3. j \in 1..n /\ j + 1 = k
    BY <1>1, <1>2, <2>1, <2>2
  <2> HIDE DEF j
  <2>4. z[k] = x[j] /\ j \in DOMAIN x
    BY <1>1, <1>2, <2>3
  <2> QED  BY <1>3, <2>4 DEF OwnIn
<1>4. ASSUME NEW j \in DOMAIN x, x[j].id \in OwnKeys  PROVE x[j] \in OwnIn(z)
  <2>1. j \in 1..n /\ j + 1 \in DOMAIN z
    BY <1>1, <1>2
  <2>2. z[j + 1] = x[j]
    BY <1>1, <2>1
  <2> QED  BY <1>4, <2>1, <2>2 DEF OwnIn
<1>5. OwnIn(z) \subseteq OwnIn(x) /\ OwnIn(x) \subseteq OwnIn(z)
  BY <1>3, <1>4 DEF OwnIn
<1> QED  BY <1>5 DEF z

LEMMA InnerOwn ==
  ASSUME NEW g, Frame(g), g.closed, NEW note, Regular(note), Laid(g, note), Close(note) # 0
  PROVE  /\ note[1].id \notin OwnKeys /\ \A k \in Close(note)..Len(note) : note[k].id \notin OwnKeys
         /\ OwnIn(Inner(note)) = OwnIn(note)
<1> DEFINE x == Inner(note)
           c == Close(note)
<1>1. /\ note \in Cells /\ DOMAIN note = 1..Len(note) /\ Len(note) \in Nat /\ c \in 2..Len(note)
      /\ note[1].id = "open"
  BY RegularCells, CloseLine DEF Cells
<1>2. x \in Cells /\ Len(x) = c - 2 /\ \A k \in 1..(c - 2) : x[k] = note[k + 1]
  BY InnerFacts
<1>3. \A i \in DOMAIN note : note[i].id \in OwnKeys => i \in 2..(c - 1)
  BY OwnPlace
<1>4. note[1].id \notin OwnKeys
  BY <1>1 DEF OwnKeys
<1> HIDE DEF x, c
<1>5. \A k \in c..Len(note) : note[k].id \notin OwnKeys
  <2> SUFFICES ASSUME NEW k \in c..Len(note), note[k].id \in OwnKeys  PROVE FALSE
    OBVIOUS
  <2>1. k \in DOMAIN note /\ ~(k \in 2..(c - 1))
    BY <1>1
  <2> QED  BY <1>3, <2>1
<1>6. DOMAIN x = 1..(c - 2)
  BY <1>2 DEF Cells
<1>7. ASSUME NEW k \in DOMAIN x  PROVE \E i \in DOMAIN note : x[k] = note[i]
  <2>1. k \in 1..(c - 2) /\ k + 1 \in DOMAIN note
    BY <1>1, <1>6
  <2> QED  BY <1>2, <2>1
<1>8. ASSUME NEW i \in DOMAIN note, note[i].id \in OwnKeys  PROVE \E k \in DOMAIN x : x[k] = note[i]
  <2> DEFINE k == i - 1
  <2>1. i \in 2..(c - 1)
    BY <1>3, <1>8
  <2>2. k \in 1..(c - 2) /\ k + 1 = i
    BY <1>1, <2>1
  <2> HIDE DEF k
  <2>3. x[k] = note[k + 1]
    BY <1>2, <2>2
  <2> QED  BY <1>6, <2>2, <2>3
<1>9. OwnIn(x) \subseteq OwnIn(note)
  BY <1>7 DEF OwnIn
<1>10. OwnIn(note) \subseteq OwnIn(x)
  <2> SUFFICES ASSUME NEW i \in DOMAIN note, note[i].id \in OwnKeys  PROVE note[i] \in OwnIn(x)
    BY DEF OwnIn
  <2>1. PICK k \in DOMAIN x : x[k] = note[i]
    BY <1>8
  <2> QED  BY <2>1 DEF OwnIn
<1> QED  BY <1>4, <1>5, <1>9, <1>10 DEF x, c

\* The dates a stamped note has, by what it had.
DatesFrom(old, new, created, modified, o) ==
  /\ \A l \in new : \/ l \in old
                    \/ /\ l.id = "created" /\ l.val = created
                       /\ \A m \in old : m.id = "created" => m.val = Empty
                    \/ l.id = "modified" /\ l.val = modified
  /\ \A m \in old : \E l \in new : l.id = m.id
  /\ o.modified => /\ \E l \in new : l.id = "modified"
                   /\ \A l \in new : l.id = "modified" => l.val = modified

LEMMA StampDates ==
  ASSUME NEW g, Frame(g), g.closed, NEW note, Regular(note), Laid(g, note), Close(note) # 0,
         NEW created \in Int, NEW modified \in Int, NEW o \in OptionSet
  PROVE  DatesFrom(OwnIn(note), OwnIn(Wrapped(note, Stamped(Inner(note), created, modified, o))),
                   created, modified, o)
<1> DEFINE x == Inner(note)
<1>1. /\ note \in Cells /\ x \in Cells /\ Close(note) \in 2..Len(note)
      /\ note[1].id \notin OwnKeys /\ \A k \in Close(note)..Len(note) : note[k].id \notin OwnKeys
      /\ OwnIn(x) = OwnIn(note) /\ Once(Ids(note))
  BY RegularCells, InnerFacts, CloseLine, InnerOwn DEF Laid, LaidIds
<1>2. "created" \in OwnKeys /\ "modified" \in OwnKeys /\ "created" # "modified"
  BY DEF OwnKeys
<1>3. /\ FindKey(x, "created") \in 0..Len(x) /\ FindKey(x, "modified") \in 0..Len(x)
      /\ FindKey(x, "created") = 0 => ~Has(Ids(note), "created")
      /\ FindKey(x, "modified") = 0 => ~Has(Ids(note), "modified")
      /\ FindKey(x, "created") # 0 => FindKey(x, "created") \in DOMAIN x /\ x[FindKey(x, "created")].id = "created"
      /\ FindKey(x, "modified") # 0 => FindKey(x, "modified") \in DOMAIN x /\ x[FindKey(x, "modified")].id = "modified"
  BY <1>2, FindKeyFinds
<1> HIDE DEF x
<1>4. PICK ci, mi, kept : StampedSteps(x, created, modified, o, ci, mi, kept)
  BY <1>1, <1>3, StampedReads
<1> DEFINE missing == o.created /\ ci = 0
           c == Stamp("created", created)
           m == Stamp("modified", modified)
           both == IF missing THEN InsertAt(kept, 1, c) ELSE kept
           at == IF missing THEN 1 ELSE ci
           z == Stamped(x, created, modified, o)
<1>5. /\ ci = IF o.created THEN FindKey(x, "created") ELSE 0
      /\ mi = IF o.modified THEN FindKey(x, "modified") ELSE 0
      /\ kept \in Cells /\ SameLines(x, kept)
      /\ \A k \in DOMAIN x : kept[k] = x[k] \/ k = mi \/ (k = ci /\ x[k].val = Empty)
      /\ mi # 0 /\ mi # ci => kept[mi].val = modified
      /\ ci # 0 /\ mi # ci /\ x[ci].val = Empty => kept[ci].val = created
      /\ z = IF o.modified /\ mi = 0 THEN InsertAt(both, at + 1, m) ELSE both
  BY <1>4 DEF StampedSteps
<1>6. /\ ci # 0 => ci \in DOMAIN x /\ x[ci].id = "created"
      /\ mi # 0 => mi \in DOMAIN x /\ x[mi].id = "modified"
      /\ mi # 0 => mi # ci
      /\ ci # 0 => mi # ci
      /\ missing => ~Has(Ids(note), "created")
      /\ o.modified /\ mi = 0 => ~Has(Ids(note), "modified")
      /\ o.modified \in BOOLEAN /\ (mi # 0 => o.modified)
  BY <1>2, <1>3, <1>5 DEF OptionSet
<1>7. /\ DOMAIN kept = DOMAIN x /\ \A k \in DOMAIN x : kept[k].id = x[k].id
      /\ Len(kept) \in Nat /\ DOMAIN kept = 1..Len(kept)
  BY <1>5 DEF SameLines, Cells
<1>8. ASSUME NEW id \in OwnKeys, ~Has(Ids(note), id)  PROVE \A l \in OwnIn(note) : l.id # id
  BY <1>8 DEF OwnIn, Has, Ids
<1>9. c \in NoteLines /\ m \in NoteLines /\ c.id = "created" /\ m.id = "modified"
      /\ c.val = created /\ m.val = modified
  <2>1. c \in FineLines /\ m \in FineLines
    BY <1>2, OwnLine
  <2> QED  BY <2>1, FineCells DEF Stamp, Line
<1> HIDE DEF c, m, z
<1>10. ASSUME NEW k \in DOMAIN x, x[k].id \in OwnKeys
       PROVE  \/ kept[k] = x[k]
              \/ k = mi /\ kept[k].id = "modified" /\ kept[k].val = modified
              \/ k = ci /\ kept[k].id = "created" /\ kept[k].val = created /\ x[k].val = Empty
  <2>1. k # 0
    BY <1>1, <1>10 DEF Cells
  <2> QED  BY <1>5, <1>6, <1>7, <2>1
<1>11. ASSUME NEW l \in OwnIn(kept)
       PROVE  \/ l \in OwnIn(note)
              \/ l.id = "created" /\ l.val = created /\ \A n \in OwnIn(note) : n.id = "created" => n.val = Empty
              \/ l.id = "modified" /\ l.val = modified
  <2>1. PICK k \in DOMAIN x : l = kept[k] /\ x[k].id \in OwnKeys
    BY <1>7 DEF OwnIn
  <2>2. x[k] \in OwnIn(note)
    BY <1>1, <2>1 DEF OwnIn
  <2>3. ASSUME kept[k].id = "created", x[k].val = Empty
        PROVE  \A n \in OwnIn(note) : n.id = "created" => n.val = Empty
    BY <1>1, <1>7, <2>2, <2>3, OwnUnique
  <2> QED  BY <1>10, <2>1, <2>2, <2>3
<1>12. ASSUME NEW n \in OwnIn(note)  PROVE \E l \in OwnIn(kept) : l.id = n.id
  <2>1. PICK k \in DOMAIN x : n = x[k] /\ x[k].id \in OwnKeys
    BY <1>1 DEF OwnIn
  <2>2. kept[k] \in OwnIn(kept) /\ kept[k].id = n.id
    BY <1>7, <2>1 DEF OwnIn
  <2> QED  BY <2>2
<1>13. both \in Cells /\ OwnIn(both) = OwnIn(kept) \cup (IF missing THEN {c} ELSE {}) /\ at + 1 \in 1..(Len(both) + 1)
  <2>1. CASE missing
    <3>1. 1 \in 1..(Len(kept) + 1)
      BY <1>7
    <3>2. /\ InsertAt(kept, 1, c) \in Seq(NoteLines) /\ Len(InsertAt(kept, 1, c)) = Len(kept) + 1
      <4>1. kept \in Seq(NoteLines)
        BY <1>5 DEF Cells
      <4> QED  BY <1>9, <3>1, <4>1, InsertFacts
    <3>3. OwnIn(InsertAt(kept, 1, c)) = OwnIn(kept) \cup {c}
      BY <1>2, <1>5, <1>9, <3>1, InsertOwn
    <3>4. both = InsertAt(kept, 1, c) /\ at = 1
      BY <2>1
    <3> HIDE DEF both, at
    <3> QED  BY <1>7, <2>1, <3>2, <3>3, <3>4 DEF Cells
  <2>2. CASE ~missing
    <3>1. both = kept /\ at = ci
      BY <2>2
    <3>2. ci + 1 \in 1..(Len(kept) + 1)
      BY <1>6, <1>7
    <3> HIDE DEF both, at
    <3> QED  BY <1>5, <2>2, <3>1, <3>2
  <2> QED  BY <2>1, <2>2
<1> HIDE DEF both, at
<1>14. z \in Cells /\ OwnIn(z) = OwnIn(both) \cup (IF o.modified /\ mi = 0 THEN {m} ELSE {})
  <2>1. CASE o.modified /\ mi = 0
    <3>1. z = InsertAt(both, at + 1, m)
      BY <1>5, <2>1
    <3>2. OwnIn(InsertAt(both, at + 1, m)) = OwnIn(both) \cup {m}
      BY <1>2, <1>9, <1>13, InsertOwn
    <3>3. InsertAt(both, at + 1, m) \in Seq(NoteLines)
      <4>1. both \in Seq(NoteLines)
        BY <1>13 DEF Cells
      <4> QED  BY <1>9, <1>13, <4>1, InsertFacts
    <3> QED  BY <2>1, <3>1, <3>2, <3>3 DEF Cells
  <2>2. CASE ~(o.modified /\ mi = 0)
    BY <1>5, <1>13, <2>2
  <2> QED  BY <2>1, <2>2
<1>15. OwnIn(Wrapped(note, z)) = OwnIn(z)
  BY <1>1, <1>14, WrapOwn
<1>16. OwnIn(z) = OwnIn(kept) \cup (IF missing THEN {c} ELSE {}) \cup (IF o.modified /\ mi = 0 THEN {m} ELSE {})
  BY <1>13, <1>14
<1>17. \A l \in OwnIn(z) : \/ l \in OwnIn(note)
                           \/ /\ l.id = "created" /\ l.val = created
                              /\ \A n \in OwnIn(note) : n.id = "created" => n.val = Empty
                           \/ l.id = "modified" /\ l.val = modified
  <2> TAKE l \in OwnIn(z)
  <2>1. CASE l \in OwnIn(kept)
    BY <1>11, <2>1
  <2>2. CASE missing /\ l = c
    <3>1. \A n \in OwnIn(note) : n.id # "created"
      BY <1>2, <1>6, <1>8, <2>2
    <3> QED  BY <1>9, <2>2, <3>1
  <2>3. CASE l = m
    BY <1>9, <2>3
  <2> QED  BY <1>16, <2>1, <2>2, <2>3
<1>18. \A n \in OwnIn(note) : \E l \in OwnIn(z) : l.id = n.id
  BY <1>12, <1>16
<1>19. ASSUME o.modified
       PROVE  /\ \E l \in OwnIn(z) : l.id = "modified"
              /\ \A l \in OwnIn(z) : l.id = "modified" => l.val = modified
  <2>1. CASE mi = 0
    <3>1. \A l \in OwnIn(kept) : l.id # "modified"
      <4> SUFFICES ASSUME NEW k \in DOMAIN x, x[k].id = "modified"  PROVE FALSE
        BY <1>7 DEF OwnIn
      <4>1. x[k] \in OwnIn(note)
        BY <1>1, <1>2 DEF OwnIn
      <4> QED  BY <1>2, <1>6, <1>8, <1>19, <2>1, <4>1
    <3> QED  BY <1>2, <1>9, <1>16, <1>19, <2>1, <3>1
  <2>2. CASE mi # 0
    <3>1. kept[mi] \in OwnIn(kept) /\ kept[mi].id = "modified" /\ kept[mi].val = modified
      BY <1>2, <1>5, <1>6, <1>7, <2>2 DEF OwnIn
    <3>2. \A l \in OwnIn(kept) : l.id = "modified" => l = kept[mi]
      <4> SUFFICES ASSUME NEW k \in DOMAIN x, x[k].id = "modified"  PROVE k = mi
        BY <1>7 DEF OwnIn
      <4>1. x \in Seq(NoteLines) /\ Close(note) \in 2..Len(note) /\ \A j \in 1..(Close(note) - 2) : x[j] = note[j + 1]
        BY <1>1, InnerFacts DEF x, Cells
      <4>2. Len(x) = Close(note) - 2 /\ DOMAIN note = 1..Len(note) /\ Len(note) \in Nat
        BY <1>1, InnerFacts DEF x, Cells
      <4>3. k \in 1..(Close(note) - 2) /\ mi \in 1..(Close(note) - 2)
        BY <1>6, <2>2, <4>1, <4>2
      <4>4. k + 1 \in DOMAIN note /\ mi + 1 \in DOMAIN note
        BY <4>1, <4>2, <4>3
      <4>5. note[k + 1].id = "modified" /\ note[mi + 1].id = "modified"
        BY <1>6, <2>2, <4>1, <4>3
      <4>6. k + 1 = mi + 1
        BY <1>1, <4>4, <4>5 DEF Once, Ids
      <4> QED  BY <4>3, <4>6
    <3> QED  BY <1>9, <1>16, <2>2, <3>1, <3>2
  <2> QED  BY <2>1, <2>2
<1>20. DatesFrom(OwnIn(note), OwnIn(z), created, modified, o)
  BY <1>17, <1>18, <1>19 DEF DatesFrom
<1> QED  BY <1>15, <1>20 DEF x, z

LEMMA ApplyDates ==
  ASSUME NEW g, Frame(g), g.closed, NEW note, Regular(note), Laid(g, note),
         NEW created \in Int, NEW modified \in Int, NEW o \in OptionSet,
         Opened(note) \/ o.create, o.created \/ o.modified
  PROVE  DatesFrom(OwnIn(note), OwnIn(Apply(note, created, modified, o)), created, modified, o)
<1>1. CASE Opened(note)
  <2>1. Close(note) # 0
    BY <1>1, BlockClosed
  <2>2. Apply(note, created, modified, o) = Wrapped(note, Stamped(Inner(note), created, modified, o))
    BY <2>1 DEF Apply, Wrapped
  <2> QED  BY <2>1, <2>2, StampDates
<1>2. CASE ~Opened(note)
  <2> DEFINE new == NewBlock(created, modified, o)
             z == new \o note
  <2>1. Close(note) = 0
    BY <1>2 DEF Close
  <2>2. Apply(note, created, modified, o) = z
    BY <1>2, <2>1 DEF Apply
  <2>3. /\ new \in Cells /\ Once(Ids(new))
        /\ \A i \in DOMAIN new : new[i].id = "created" => o.created /\ new[i].val = created
        /\ \A i \in DOMAIN new : new[i].id = "modified" => new[i].val = modified
        /\ o.modified => Has(Ids(new), "modified")
    BY NewBlockLines
  <2>4. /\ note \in Cells /\ DOMAIN note = 1..Len(note) /\ Len(note) \in Nat
        /\ \A i \in DOMAIN note : note[i].id \notin OwnKeys
    BY <1>2, RegularCells, BodyOnly DEF Cells
  <2> HIDE DEF new
  <2>5. /\ DOMAIN z = 1..(Len(new) + Len(note)) /\ DOMAIN new = 1..Len(new) /\ Len(new) \in Nat
        /\ \A k \in 1..Len(new) : z[k] = new[k]
        /\ \A k \in (Len(new) + 1)..(Len(new) + Len(note)) : z[k] = note[k - Len(new)]
    <3>1. new \in Seq(NoteLines) /\ note \in Seq(NoteLines)
      BY <2>3, <2>4 DEF Cells
    <3>2. /\ z \in Seq(NoteLines) /\ Len(z) = Len(new) + Len(note)
          /\ \A k \in 1..Len(new) : z[k] = new[k]
          /\ \A k \in (Len(new) + 1)..(Len(new) + Len(note)) : z[k] = note[k - Len(new)]
      BY <3>1
    <3> HIDE DEF z
    <3> QED  BY <3>1, <3>2
  <2> HIDE DEF z
  <2>6. OwnIn(note) = {}
    BY <2>4 DEF OwnIn
  <2>7. ASSUME NEW k \in DOMAIN z, z[k].id \in OwnKeys  PROVE k \in DOMAIN new /\ z[k] = new[k]
    <3>1. CASE k \in (Len(new) + 1)..(Len(new) + Len(note))
      <4>1. k - Len(new) \in DOMAIN note
        BY <2>4, <2>5, <3>1
      <4> QED  BY <2>4, <2>5, <2>7, <3>1, <4>1
    <3>2. CASE k \in 1..Len(new)
      BY <2>5, <3>2
    <3> QED  BY <2>4, <2>5, <3>1, <3>2
  <2>8. \A l \in OwnIn(z) : l.id \in OwnKeys /\ \E k \in DOMAIN new : l = new[k]
    BY <2>7 DEF OwnIn
  <2>9. \A l \in OwnIn(z) : (l.id = "created" /\ l.val = created) \/ (l.id = "modified" /\ l.val = modified)
    BY <2>3, <2>8 DEF OwnKeys
  <2>10. o.modified => \E l \in OwnIn(z) : l.id = "modified"
    <3> SUFFICES ASSUME o.modified  PROVE \E l \in OwnIn(z) : l.id = "modified"
      OBVIOUS
    <3>1. PICK k \in DOMAIN new : new[k].id = "modified"
      BY <2>3 DEF Has, Ids
    <3>2. k \in DOMAIN z /\ z[k] = new[k]
      BY <2>4, <2>5
    <3>3. z[k] \in OwnIn(z)
      BY <3>1, <3>2 DEF OwnIn, OwnKeys
    <3> QED  BY <3>1, <3>2, <3>3
  <2>11. DatesFrom(OwnIn(note), OwnIn(z), created, modified, o)
    BY <2>6, <2>9, <2>10 DEF DatesFrom
  <2> QED  BY <2>2, <2>11 DEF z
<1> QED  BY <1>1, <1>2

LEMMA DatesAge ==
  ASSUME NEW v \in Cells, NEW w \in Cells, Once(Ids(v)), Once(Ids(w)), NEW s \in Int, OwnDated(v, s),
         NEW created \in Int, NEW t \in Int, s < t, 0 < t, NEW o \in OptionSet,
         0 < created, created <= t,
         DatesFrom(OwnIn(v), OwnIn(w), created, t, o)
  PROVE  OwnDated(w, t) /\ Aged(v, w) /\ (o.modified => Val(w, "modified") = t)
<1>1. /\ \A l \in OwnIn(w) : \/ l \in OwnIn(v)
                             \/ /\ l.id = "created" /\ l.val = created
                                /\ \A m \in OwnIn(v) : m.id = "created" => m.val = Empty
                             \/ l.id = "modified" /\ l.val = t
      /\ \A m \in OwnIn(v) : \E l \in OwnIn(w) : l.id = m.id
      /\ o.modified => /\ \E l \in OwnIn(w) : l.id = "modified"
                       /\ \A l \in OwnIn(w) : l.id = "modified" => l.val = t
  BY DEF DatesFrom
<1>2. "created" \in OwnKeys /\ "modified" \in OwnKeys /\ "created" # "modified"
  BY DEF OwnKeys
<1>3. \A l \in OwnIn(v) : l.val \in Int /\ Junk <= l.val /\ l.val <= s
  <2>1. \A i \in DOMAIN v : v[i] \in NoteLines
    BY DEF Cells
  <2>2. \A i \in DOMAIN v : v[i].val \in Int
    BY <2>1 DEF NoteLines
  <2> QED  BY <2>2 DEF OwnIn, OwnDated
<1>4. OwnDated(w, t)
  <2> SUFFICES ASSUME NEW l \in OwnIn(w)  PROVE Junk <= l.val /\ l.val <= t
    BY DEF OwnDated
  <2>1. CASE l \in OwnIn(v)
    BY <1>3, <2>1 DEF Junk
  <2>2. CASE l.val = created \/ l.val = t
    BY <2>2 DEF Junk
  <2> QED  BY <1>1, <2>1, <2>2
<1>5. EarlierDate(Val(v, "created"), Val(w, "created"))
  <2>1. CASE \A m \in OwnIn(v) : m.id = "created" => m.val = Empty
    <3>1. Val(v, "created") = Empty
      BY <1>2, <2>1, ValIs
    <3> QED  BY <3>1 DEF EarlierDate
  <2>2. ASSUME NEW m \in OwnIn(v), m.id = "created", m.val # Empty
        PROVE  EarlierDate(Val(v, "created"), Val(w, "created"))
    <3>1. PICK l \in OwnIn(w) : l.id = "created"
      BY <1>1, <2>2
    <3>2. l \in OwnIn(v)
      BY <1>1, <1>2, <2>2, <3>1
    <3>3. Val(v, "created") = l.val /\ Val(w, "created") = l.val
      BY <1>2, <3>1, <3>2, ValIs
    <3> QED  BY <3>3 DEF EarlierDate
  <2> QED  BY <2>1, <2>2
<1>6. LaterDate(Val(v, "modified"), Val(w, "modified"))
  <2>0. Val(v, "modified") \in Int /\ (Val(v, "modified") <= s \/ Val(v, "modified") = Empty)
    BY <1>2, ValInt
  <2>1. CASE \A l \in OwnIn(w) : l.id # "modified"
    <3>1. \A l \in OwnIn(v) : l.id # "modified"
      BY <1>1, <2>1
    <3>2. Val(v, "modified") = Empty /\ Val(w, "modified") = Empty
      BY <1>2, <2>1, <3>1, ValIs
    <3> QED  BY <3>2 DEF LaterDate
  <2>2. ASSUME NEW l \in OwnIn(w), l.id = "modified"
        PROVE  LaterDate(Val(v, "modified"), Val(w, "modified"))
    <3>1. Val(w, "modified") = l.val
      BY <1>2, <2>2, ValIs
    <3>2. CASE l.val = t
      BY <2>0, <3>1, <3>2 DEF LaterDate, Empty
    <3>3. CASE l \in OwnIn(v)
      <4>1. Val(v, "modified") = l.val
        BY <1>2, <2>2, <3>3, ValIs
      <4> QED  BY <3>1, <4>1 DEF LaterDate
    <3> QED  BY <1>1, <1>2, <2>2, <3>2, <3>3
  <2> QED  BY <2>1, <2>2
<1>7. o.modified => Val(w, "modified") = t
  <2> SUFFICES ASSUME o.modified  PROVE Val(w, "modified") = t
    OBVIOUS
  <2>1. PICK l \in OwnIn(w) : l.id = "modified" /\ l.val = t
    BY <1>1
  <2> QED  BY <1>2, <2>1, ValIs
<1> QED  BY <1>4, <1>5, <1>6, <1>7 DEF Aged

\* A save leaves the dates as they are.
LEMMA SaveAges ==
  ASSUME NEW g, Frame(g), g.closed, NEW v, Regular(v), Laid(g, v), NEW s \in Int, OwnDated(v, s),
         NEW t \in Int, s < t, Quoting = FALSE, NEW note \in Saves(v, t), Regular(note)
  PROVE  OwnDated(note, t) /\ Aged(v, note) /\ \A k \in OwnKeys : Val(note, k) = Val(v, k)
<1>1. Laid(g, note) /\ OwnIn(note) = OwnIn(v)
  BY SaveLaid, SaveKeepsOwn
<1>2. v \in Cells /\ note \in Cells /\ Once(Ids(v)) /\ Once(Ids(note))
  <2>1. Once(Ids(v)) /\ Once(Ids(note))
    BY <1>1 DEF Laid, LaidIds
  <2> QED  BY <2>1, RegularCells
<1>3. OwnDated(note, t)
  <2>1. \A i \in DOMAIN v : v[i] \in NoteLines
    BY <1>2 DEF Cells
  <2>2. \A i \in DOMAIN v : v[i].val \in Int
    BY <2>1 DEF NoteLines
  <2>3. \A l \in OwnIn(v) : l.val \in Int
    BY <2>2 DEF OwnIn
  <2> QED  BY <1>1, <2>3 DEF OwnDated, Junk
<1>4. \A k \in OwnKeys : Val(note, k) = Val(v, k)
  <2> TAKE k \in OwnKeys
  <2>1. CASE \A l \in OwnIn(v) : l.id # k
    BY <1>1, <1>2, <2>1, ValIs
  <2>2. ASSUME NEW l \in OwnIn(v), l.id = k  PROVE Val(note, k) = Val(v, k)
    BY <1>1, <1>2, <2>2, ValIs
  <2> QED  BY <2>1, <2>2
<1>5. Aged(v, note)
  BY <1>4 DEF Aged, EarlierDate, LaterDate, OwnKeys
<1> QED  BY <1>3, <1>4, <1>5

\* A stamp fills created in or leaves it, and modified only gets later
\* (frontmatter.go Apply).
THEOREM StampAges ==
  ASSUME NEW g, Frame(g), g.closed, NEW v, Regular(v), Laid(g, v), NEW s \in Int, OwnDated(v, s),
         NEW t \in Int, s < t, 0 < t, Quoting = FALSE, NEW note \in Saves(v, t), Regular(note),
         NEW created \in Int, 0 < created, created <= t, NEW o \in OptionSet,
         NEW w, w = Apply(note, created, t, o)
  PROVE  OwnDated(w, t) /\ Aged(v, w)
<1>1. Laid(g, note) /\ OwnIn(note) = OwnIn(v)
  BY SaveLaid, SaveKeepsOwn
<1>2. Laid(g, w) /\ Regular(w)
  BY <1>1, ApplyLaid, StampLaw
<1>3. v \in Cells /\ w \in Cells /\ Once(Ids(v)) /\ Once(Ids(w))
  BY <1>2, RegularCells DEF Laid, LaidIds
<1>4. CASE (Opened(note) \/ o.create) /\ (o.created \/ o.modified)
  <2>1. DatesFrom(OwnIn(v), OwnIn(w), created, t, o)
    BY <1>1, <1>4, ApplyDates
  <2> QED  BY <1>3, <2>1, DatesAge
<1>5. CASE ~((Opened(note) \/ o.create) /\ (o.created \/ o.modified))
  <2>1. w = note
    BY <1>5 DEF Apply, Close
  <2> QED  BY <2>1, SaveAges
<1> QED  BY <1>4, <1>5

\* Where it is not off, modified is the time of the save.
LEMMA StampIsOfSave ==
  ASSUME NEW g, Frame(g), g.closed, NEW v, Regular(v), Laid(g, v), NEW s \in Int, OwnDated(v, s),
         NEW t \in Int, s < t, 0 < t, Quoting = FALSE, NEW note \in Saves(v, t), Regular(note),
         NEW created \in Int, 0 < created, created <= t, NEW o \in OptionSet,
         NEW w, w = Apply(note, created, t, o),
         o.modified, Opened(note) \/ o.create
  PROVE  Val(w, "modified") = t
<1>1. Laid(g, note) /\ OwnIn(note) = OwnIn(v)
  BY SaveLaid, SaveKeepsOwn
<1>2. Laid(g, w) /\ Regular(w)
  BY <1>1, ApplyLaid, StampLaw
<1>3. v \in Cells /\ w \in Cells /\ Once(Ids(v)) /\ Once(Ids(w))
  BY <1>2, RegularCells DEF Laid, LaidIds
<1>4. DatesFrom(OwnIn(v), OwnIn(w), created, t, o)
  BY <1>1, ApplyDates
<1> QED  BY <1>3, <1>4, DatesAge
=============================================================================
