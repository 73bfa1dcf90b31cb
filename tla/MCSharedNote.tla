---------------------------- MODULE MCSharedNote ----------------------------
(* Small instances of SharedNote for TLC. *)
EXTENDS SharedNote

Body == <<Text("b1"), Text("sp"), Text("b2")>>
Block(inner) == <<Fence("open")>> \o inner \o <<Fence("close")>> \o Body
Title == Line("title", "key", "title", 0)
Quote(l, q) == [l EXCEPT !.quote = q]

Plain == Body
Both == Block(<<Stamp("created", 1), Stamp("modified", 1), Title>>)
Neither == Block(<<Title>>)
ModifiedOnly == Block(<<Title, Stamp("modified", 1)>>)
EmptyCreated == Block(<<Title, Stamp("created", Empty)>>)
JunkCreated == Block(<<Stamp("created", Junk), Title, Stamp("modified", Junk)>>)
Malformed == <<Fence("open")>> \o Body
\* a scalar over two lines, with what looks like a key in the second
Scalar == Block(<<Quote(Line("desc", "key", "desc", 0), "opens"), Line("fake", "key", "modified", 0),
                  Quote(Text("endq"), "odd"), Stamp("created", 1)>>)
\* `title: 27" monitor`, below the timestamp and above it
Inches == Block(<<Stamp("created", 1), Quote(Title, "odd")>>)
InchesFirst == Block(<<Quote(Title, "odd"), Stamp("created", 1)>>)

Notes == {Plain, Both, Neither, ModifiedOnly, EmptyCreated, JunkCreated, Malformed, Scalar, Inches}

On == [created |-> TRUE, modified |-> TRUE, create |-> TRUE, backfill |-> FALSE, diff3 |-> FALSE,
       stops |-> FALSE, steps |-> 2]
Backfilling == [On EXCEPT !.backfill = TRUE, !.diff3 = TRUE]
Existing == [On EXCEPT !.create = FALSE]
NoCreated == [On EXCEPT !.created = FALSE, !.diff3 = TRUE]
Stopping == [On EXCEPT !.stops = TRUE]
OneStep == [On EXCEPT !.steps = 1]
NoModified == [On EXCEPT !.modified = FALSE]

Alike(o) == [A |-> o, B |-> o]
Start(note, o, n) == [note |-> note, opts |-> o, edits |-> n]

\* two saves from every note with every choice of options; three where the
\* stamps conflict most, so that one of two commits may become empty and the
\* steps run out
MCStarts ==
  {Start(note, Alike(o), 2) : note \in Notes, o \in {On, Backfilling, Existing, NoCreated, NoModified}}
  \cup {Start(note, [A |-> On, B |-> o], 2) :
         note \in Notes, o \in {Backfilling, Existing, NoCreated, NoModified}}
  \cup {Start(Both, [A |-> Stopping, B |-> On], 3), Start(Inches, [A |-> OneStep, B |-> On], 3)}

\* what the theorems suppose of the notes, all but one of these notes have
ASSUME MostAreOrdinary == \A note \in Notes : Ordinary(note) /\ Tidy(note) /\ Current(note, {}) <=> note # Scalar

MCInches == {Start(InchesFirst, Alike(On), 1)}
MCQuoting == {Start(Both, Alike(On), 2)}
=============================================================================
