---------------------------- MODULE ConflictMerge ----------------------------
(***************************************************************************)
(* frontmatter.ResolveConflict: a file git left with conflict markers is   *)
(* taken apart into its two sides, and put together again if they differ   *)
(* in nothing but timestamps.  A line of kind "ours", "base", "theirs" or  *)
(* "end" begins with the characters of that marker, whoever wrote it.  An  *)
(* operator that may refuse returns the set of its results, {} or one.     *)
(***************************************************************************)
EXTENDS Frontmatter

Mark(kind) == Line("mark", kind, "", 0)

\* slip: the section of the base is taken for more of ours
NoBase(l, state) == FALSE

StartsBase(l, state) == l.kind = "base" /\ state = "ours"

\* one line of splitConflict, which is in the state "common", "ours", "base"
\* or "theirs", or has "failed"
SplitLine(acc, l) ==
  LET goto(s) == [acc EXCEPT !.state = s, !.saw = TRUE] IN
  CASE acc.state = "failed" -> acc
    [] l.kind = "ours" -> goto(IF acc.state = "common" THEN "ours" ELSE "failed")
    [] StartsBase(l, acc.state) -> goto("base")
    [] l.kind = "theirs" /\ acc.state \in {"ours", "base"} -> goto("theirs")
    [] l.kind = "end" /\ acc.state = "theirs" -> goto("common")
    [] OTHER -> [acc EXCEPT
                  !.ours = IF acc.state \in {"common", "ours"} THEN Append(@, l) ELSE @,
                  !.theirs = IF acc.state \in {"common", "theirs"} THEN Append(@, l) ELSE @]

Unsplit == [state |-> "common", saw |-> FALSE, ours |-> <<>>, theirs |-> <<>>]

SplitConflict(file) ==
  LET split[i \in 0..Len(file)] == IF i = 0 THEN Unsplit ELSE SplitLine(split[i - 1], file[i])
  IN split[Len(file)]

Owned(key, o) == (key = "modified" /\ o.modified) \/ (key = "created" /\ o.created)

\* slip: the later of the two, whichever key it is
LaterOf(key, a, b) == IF a.val > b.val THEN a ELSE b

\* slip: the earlier of the two, whichever key it is
EarlierOf(key, a, b) == IF a.val > b.val THEN b ELSE a

\* the later modified, the earlier created
Winner(key, a, b) == IF (a.val > b.val) = (key = "modified") THEN a ELSE b

\* slip: a key that is not ours is resolved as well
ReconcileAnyKey(a, b, o) == IF a.kind = "key" /\ b.kind = "key" THEN {Winner(a.key, a, b)} ELSE {}

\* an empty value loses; one that is no time is left to a human
Reconcile(a, b, o) ==
  IF ~(a.kind = "key" /\ b.kind = "key" /\ a.key = b.key /\ Owned(a.key, o)) THEN {}
  ELSE IF b.val = Empty THEN {a}
  ELSE IF a.val = Empty THEN {b}
  ELSE IF Junk \in {a.val, b.val} THEN {}
  ELSE {Winner(a.key, a, b)}

\* the two sides agree but for lines of the block that can be reconciled
MergeSides(ours, theirs, o) ==
  LET end == Close(ours)
      rows == {i \in 2..end - 1 : ours[i] # theirs[i]}
      merged(i) == IF i \in rows THEN Reconcile(ours[i], theirs[i], o) ELSE {ours[i]}
  IN IF /\ end # 0 /\ end = Close(theirs)
        /\ ours[1] = theirs[1]
        /\ SubSeq(ours, end, Len(ours)) = SubSeq(theirs, end, Len(theirs))
        /\ rows # {} /\ \A i \in rows : merged(i) # {}
     THEN {[i \in DOMAIN ours |-> CHOOSE l \in merged(i) : TRUE]}
     ELSE {}

ResolveConflict(file, o) ==
  LET split == SplitConflict(file) IN
  IF split.state = "common" /\ split.saw THEN MergeSides(split.ours, split.theirs, o) ELSE {}
=============================================================================
