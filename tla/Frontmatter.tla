----------------------------- MODULE Frontmatter -----------------------------
(***************************************************************************)
(* frontmatter.Apply as operators on a note.  A note is a sequence of      *)
(* lines; of a line counts what Apply can tell apart: whether it is a      *)
(* fence (`---`), a top-level `key: value`, or anything else, which key,   *)
(* which value, and its double quotes: "even", "odd", or "opens" if they   *)
(* are odd and the value begins with one, as a quoted scalar does that     *)
(* goes on in the next line.  "id" is what a reader would call the same    *)
(* line in two versions of the note.  Line ends, the byte order mark,      *)
(* letter case, comments and the layout of a timestamp are left out.       *)
(***************************************************************************)
EXTENDS Integers, SequencesExt

Empty == 0       \* a value isEmptyValue accepts; a time is a greater number
Junk == -1       \* a value that is no time

Line(id, kind, key, val) == [id |-> id, kind |-> kind, key |-> key, val |-> val, quote |-> "even"]
Fence(id) == Line(id, "fence", "", 0)
Text(id) == Line(id, "text", "", 0)
Stamp(key, t) == Line(key, "key", key, t)

\* findBlock: the line that closes the block the first line opens, or 0
Opened(note) == note # <<>> /\ note[1].kind = "fence"
Close(note) == IF Opened(note)
               THEN SelectInSubSeq(note, 2, Len(note), LAMBDA l : l.kind = "fence")
               ELSE 0
Inner(note) == SubSeq(note, 2, Close(note) - 1)

OddQuotes(l) == l.quote # "even"

\* slip: the quotes before a line are not looked at
SeesAll(lines) == [i \in 0..Len(lines) |-> FALSE]

\* after which lines findKey is inside a quoted scalar: one with odd quotes
\* ends it, a key with odd quotes begins one
InQuoted(lines) ==
  LET q[i \in 0..Len(lines)] ==
        i # 0 /\ IF q[i - 1] THEN ~OddQuotes(lines[i])
                            ELSE lines[i].kind = "key" /\ OddQuotes(lines[i])
  IN q

\* findKey: the first line that defines the key, or 0
FindKey(lines, key) ==
  LET q == InQuoted(lines)
      defines == {i \in DOMAIN lines : /\ ~q[i - 1] /\ lines[i].kind = "key"
                                       /\ ~OddQuotes(lines[i]) /\ lines[i].key = key}
  IN IF defines = {} THEN 0 ELSE CHOOSE i \in defines : \A j \in defines : i <= j

NewBlock(created, modified, o) ==
  <<Fence("open")>>
  \o (IF o.created THEN <<Stamp("created", created)>> ELSE <<>>)
  \o (IF o.modified THEN <<Stamp("modified", modified)>> ELSE <<>>)
  \o <<Fence("close"), Text("gap")>>

\* created is written only where it is empty
FillCreated(lines, at, t) ==
  IF at # 0 /\ lines[at].val = Empty THEN [lines EXCEPT ![at].val = t] ELSE lines

SetModified(lines, at, t) == IF at # 0 THEN [lines EXCEPT ![at].val = t] ELSE lines

\* slip: modified goes to the end of the block, into whatever is open there
InsertLast(lines, ci, t) == Append(lines, Stamp("modified", t))

\* a missing modified goes right below created, or to the top
InsertModified(lines, ci, t) == InsertAt(lines, ci + 1, Stamp("modified", t))

\* the block's lines once both keys are as they should be
Stamped(lines, created, modified, o) ==
  LET ci == IF o.created THEN FindKey(lines, "created") ELSE 0
      mi == IF o.modified THEN FindKey(lines, "modified") ELSE 0
      kept == FillCreated(SetModified(lines, mi, modified), ci, created)
      missing == o.created /\ ci = 0
      both == IF missing THEN <<Stamp("created", created)>> \o kept ELSE kept
  IN IF o.modified /\ mi = 0
     THEN InsertModified(both, IF missing THEN 1 ELSE ci, modified)
     ELSE both

\* a block that is opened and not closed is left alone; a note without one
\* gets one if o.create says so
Apply(note, created, modified, o) ==
  IF ~o.created /\ ~o.modified THEN note
  ELSE IF Close(note) # 0
  THEN <<note[1]>> \o Stamped(Inner(note), created, modified, o)
       \o SubSeq(note, Close(note), Len(note))
  ELSE IF Opened(note) \/ ~o.create THEN note
  ELSE NewBlock(created, modified, o) \o note

-----------------------------------------------------------------------------
(* What the note says, to a reader who knows YAML: a quote in the middle   *)
(* of a plain value opens nothing.                                         *)

ReallyQuoted(lines) ==
  LET q[i \in 0..Len(lines)] ==
        i # 0 /\ IF q[i - 1] THEN ~OddQuotes(lines[i])
                            ELSE lines[i].kind = "key" /\ lines[i].quote = "opens"
  IN q

Said(note, key) ==
  LET lines == IF Close(note) = 0 THEN <<>> ELSE Inner(note)
      q == ReallyQuoted(lines)
  IN {i \in DOMAIN lines : ~q[i - 1] /\ lines[i].kind = "key" /\ lines[i].key = key}

\* the first value of the key, or Empty
ValueOf(note, key) ==
  LET said == Said(note, key) IN
  IF said = {} THEN Empty ELSE Inner(note)[CHOOSE i \in said : \A j \in said : i <= j].val
=============================================================================
