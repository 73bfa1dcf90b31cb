----------------------------- MODULE StampProofs -----------------------------
(***************************************************************************)
(* Proofs about Stamp, for every settle time, any number of saves and      *)
(* failures and every configuration.                                       *)
(***************************************************************************)
EXTENDS Stamp, TLAPS

-----------------------------------------------------------------------------
(* The inductive invariant.  As long as the mtime is the one stampFile saw *)
(* first, the note is the one it read; the second stat carries that over   *)
(* to the rename, and `late` says that it has ceased to be true there.     *)

SavingIsEmpty == size = "zero" <=> editor = "saving"
ReadIsCurrent ==
  /\ pc \in {"read", "restat"} => before <= mtime
  /\ pc = "read" /\ before = mtime => size = "some"
  /\ pc = "restat" /\ before = mtime => size = "some" /\ src = [note |-> file, size |-> size]
RenameIsCurrent ==
  pc = "rename" => /\ src.size = "some"
                   /\ late \/ (size = "some" /\ src.note = file)
OrphansAreLate == editor = "orphan" => late

SaveInv == TypeOK /\ SavingIsEmpty /\ ReadIsCurrent /\ RenameIsCurrent /\ OrphansAreLate /\ SavesSurvive

USE DEF disk, repo, loop, vars, Goto, Same

LEMMA BlankType == Blank \in Contents
<1>1. 0 \in 0..MaxSaves
  BY StampAssumption, SMT
<1>2. QED
  BY <1>1, Zenon DEF Blank, Contents, Forms

LEMMA InitType == Init => TypeOK
<1> SUFFICES ASSUME Init PROVE TypeOK
  OBVIOUS
<1>1. NoteType
  BY BlankType, Zenon DEF Init, NoteType
<1>2. TimeType
  BY StampAssumption, SMT DEF Init, TimeType
<1>3. FlagType
  BY Zenon DEF Init, FlagType
<1>4. QED
  BY <1>1, <1>2, <1>3 DEF TypeOK

\* A save numbered within bounds makes a note of any form.
LEMMA NoteIsContents == ASSUME NEW n \in 0..MaxSaves, NEW f \in Forms
                        PROVE [save |-> n, form |-> f] \in Contents
BY Zenon DEF Contents

LEMMA StampedIsContents == ASSUME NEW c \in Contents
                           PROVE [c EXCEPT !.form = "stamped"] \in Contents
BY Zenon DEF Contents, Forms

\* Types are kept by every action.
LEMMA TypeStep == ASSUME TypeOK, [Next]_vars PROVE TypeOK'
<1> USE DEF TypeOK
<1>1. NoteType'
  <2> USE DEF NoteType
  <2>1. CASE SyncOnChange \/ SyncOnPoll
    BY <2>1 DEF SyncOnChange, SyncOnPoll, Look
  <2>2. CASE Stat \/ Restat \/ Commit \/ StampError \/ Fail \/ Crash \/ Tick \/ Truncate \/ WriteOrphan
    BY <2>2 DEF Stat, Restat, Commit, StampError, Fail, Crash, Tick, Truncate, Touch, WriteOrphan
  <2>3. CASE Read
    BY <2>3, Zenon DEF Read, FlagType
  <2>4. CASE Rename
    <3>1. src.note \in Contents
      BY Zenon
    <3>2. file' \in Contents
      BY <2>4, <3>1, StampedIsContents, Zenon DEF Rename
    <3>3. QED
      BY <2>4, <3>2, Zenon DEF Rename
  <2>5. CASE Add
    BY <2>5, BlankType DEF Add
  <2>6. CASE Save
    <3>1. last' \in 0..MaxSaves
      BY <2>6, StampAssumption, SMT DEF Save, TimeType
    <3>2. QED
      BY <2>6, <3>1, NoteIsContents, Zenon DEF Save
  <2>7. CASE Write
    BY <2>7, NoteIsContents, Zenon DEF Write, TimeType
  <2>8. CASE UNCHANGED vars
    BY <2>8
  <2>9. QED
    BY <2>1, <2>2, <2>3, <2>4, <2>5, <2>6, <2>7, <2>8 DEF Next, Cycle, Editor
<1>2. TimeType'
  <2> USE StampAssumption DEF TimeType
  <2>1. CASE SyncOnChange \/ SyncOnPoll \/ Cycle
    BY <2>1 DEF SyncOnChange, SyncOnPoll, Look, Cycle, Stat, Read, Restat, Rename, Add, Commit
  <2>2. CASE StampError \/ Fail \/ Crash \/ Tick
    BY <2>2 DEF StampError, Fail, Crash, Tick
  <2>3. CASE Editor
    <3>1. mtime' \in Nat /\ age' \in 0..Settle /\ before' \in Nat /\ fails' \in 0..MaxFails
      BY <2>3 DEF Editor, Save, Truncate, Write, Touch, WriteOrphan
    <3>2. last' \in 0..MaxSaves
      BY <2>3 DEF Editor, Save, Truncate, Write, WriteOrphan
    <3>3. QED
      BY <3>1, <3>2
  <2>4. CASE UNCHANGED vars
    BY <2>4
  <2>5. QED
    BY <2>1, <2>2, <2>3, <2>4 DEF Next
<1>3. FlagType'
  <2> USE DEF FlagType
  <2>1. CASE SyncOnChange \/ SyncOnPoll
    BY <2>1, Zenon DEF SyncOnChange, SyncOnPoll, Look
  <2>2. CASE Stat \/ Read \/ Restat
    BY <2>2, Zenon DEF Stat, Read, Restat
  <2>3. CASE Rename \/ Add \/ Commit
    BY <2>3, Zenon DEF Rename, Add, Commit
  <2>4. CASE StampError \/ Fail \/ Crash \/ Tick
    BY <2>4, Zenon DEF StampError, Fail, Crash, Tick
  <2>5. CASE Editor
    BY <2>5, Zenon DEF Editor, Save, Truncate, Write, WriteOrphan, Touch
  <2>6. CASE UNCHANGED vars
    BY <2>6, Zenon
  <2>7. QED
    BY <2>1, <2>2, <2>3, <2>4, <2>5, <2>6 DEF Next, Cycle
<1>4. QED
  BY <1>1, <1>2, <1>3

\* The note, as the daemon has read it, is current while the mtime is.
Current == SavingIsEmpty /\ ReadIsCurrent /\ RenameIsCurrent /\ OrphansAreLate /\ SavesSurvive

LEMMA InitCurrent == Init => Current
BY SMT DEF Init, Current, SavingIsEmpty, ReadIsCurrent, RenameIsCurrent, OrphansAreLate, SavesSurvive, Blank

LEMMA CurrentStep == ASSUME TypeOK, Current, [Next]_vars PROVE Current'
<1> USE DEF TypeOK, Current, SavingIsEmpty, ReadIsCurrent, RenameIsCurrent, OrphansAreLate, SavesSurvive
<1>1. CASE SyncOnChange \/ SyncOnPoll
  BY <1>1 DEF SyncOnChange, SyncOnPoll, Look
<1>2. CASE Stat
  BY <1>2, SMT DEF Stat, TimeType, FlagType
<1>3. CASE Read
  BY <1>3, SMT DEF Read, TimeType, FlagType
<1>4. CASE Restat
  BY <1>4, SMT DEF Restat
<1>5. CASE Rename
  <2>1. ~late => file'.save = file.save
    BY <1>5, SMT DEF Rename, NoteType, Contents
  <2>2. QED
    BY <1>5, <2>1 DEF Rename
<1>6. CASE Add \/ Commit
  BY <1>6 DEF Add, Commit
<1>7. CASE StampError \/ Fail \/ Crash \/ Tick
  BY <1>7 DEF StampError, Fail, Crash, Tick
<1>8. CASE Save \/ Truncate \/ Write
  <2>1. mtime' > mtime /\ mtime' \in Nat /\ before' = before /\ pc' = pc /\ src' = src
    BY <1>8, SMT DEF Save, Truncate, Write, Touch, TimeType
  <2>2. ReadIsCurrent'
    BY <2>1, SMT DEF TimeType
  <2>3. late' = (late \/ pc = "rename")
    BY <1>8, Zenon DEF Save, Truncate, Write, Touch
  <2>4. RenameIsCurrent' /\ OrphansAreLate'
    BY <1>8, <2>1, <2>3, Zenon DEF Save, Truncate, Write
  <2>5. SavingIsEmpty'
    BY <1>8, Zenon DEF Save, Truncate, Write
  <2>6. SavesSurvive'
    BY <1>8, SMT DEF Save, Truncate, Write
  <2>7. QED
    BY <2>2, <2>4, <2>5, <2>6
<1>9. CASE WriteOrphan
  BY <1>9 DEF WriteOrphan
<1>10. CASE UNCHANGED vars
  BY <1>10
<1>11. QED
  BY <1>1, <1>2, <1>3, <1>4, <1>5, <1>6, <1>7, <1>8, <1>9, <1>10 DEF Next, Cycle, Editor

LEMMA InitSaveInv == Init => SaveInv
BY InitType, InitCurrent DEF SaveInv, Current

LEMMA SaveStep == SaveInv /\ [Next]_vars => SaveInv'
BY TypeStep, CurrentStep DEF SaveInv, Current

\* The invariant the three theorems below are read off.
THEOREM SaveInvariant == Spec => []SaveInv
BY InitSaveInv, SaveStep, PTL DEF Spec

\* Every variable keeps to its values (stamp.go stampFile).
THEOREM StampTypeCorrect == Spec => []TypeOK
<1>1. SaveInv => TypeOK
  BY DEF SaveInv
<1>2. QED
  BY <1>1, SaveInvariant, PTL

\* The stamp is written only from a note that was whole (stamp.go:93-98,
\* 140-151).
THEOREM StampsOnlyWholeNotes == Spec => []StampsWholeNotes
<1>1. SaveInv => StampsWholeNotes
  BY DEF SaveInv, RenameIsCurrent, StampsWholeNotes
<1>2. QED
  BY <1>1, SaveInvariant, PTL

\* A save is lost to the stamp only if it began between the second stat and
\* the rename (stamp.go:140-153).
THEOREM SavesSurviveAlways == Spec => []SavesSurvive
<1>1. SaveInv => SavesSurvive
  BY DEF SaveInv
<1>2. QED
  BY <1>1, SaveInvariant, PTL

\* The daemon never leaves the note empty, whenever it dies (stamp.go
\* writeAtomic).
THEOREM NeverHalfWrittenAlways == Spec => []NeverHalfWritten
<1>1. SaveInv => NeverHalfWritten
  BY DEF SaveInv, SavingIsEmpty, NeverHalfWritten
<1>2. QED
  BY <1>1, SaveInvariant, PTL

-----------------------------------------------------------------------------
(* What a quiet note is committed as.  Nothing has touched it since the    *)
(* cycle took the time, so the second stat finds the mtime of the first.   *)

QuietIsSame == quiet /\ pc \in {"read", "restat"} => mtime = before
QuietIsStamped == quiet /\ pc = "add" /\ size = "some" /\ ~erred => file.form # "plain"
QuietInv == QuietIsSame /\ QuietIsStamped

LEMMA QuietStep == ASSUME TypeOK, QuietInv, [Next]_vars PROVE QuietInv'
<1> USE DEF TypeOK, FlagType, QuietInv, QuietIsSame, QuietIsStamped
<1>1. CASE SyncOnChange \/ SyncOnPoll
  BY <1>1 DEF SyncOnChange, SyncOnPoll, Look
<1>2. CASE Stat
  BY <1>2 DEF Stat
<1>3. CASE Read \/ Restat
  BY <1>3 DEF Read, Restat, NoteType, Contents, Forms
<1>4. CASE Rename
  <2>1. src.note \in Contents
    BY Zenon DEF NoteType
  <2>2. [src.note EXCEPT !.form = "stamped"].form = "stamped"
    BY <2>1, Zenon DEF Contents
  <2>3. file'.form = "stamped" /\ pc' = "add"
    BY <1>4, <2>2, Zenon DEF Rename
  <2>4. QED
    BY <2>3
<1>5. CASE Add \/ Commit \/ StampError \/ Fail \/ Crash
  BY <1>5 DEF Add, Commit, StampError, Fail, Crash
<1>6. CASE Tick \/ WriteOrphan \/ UNCHANGED vars
  BY <1>6 DEF Tick, WriteOrphan
<1>7. CASE Save \/ Truncate \/ Write
  <2>1. ~quiet'
    BY <1>7, Zenon DEF Save, Truncate, Write, Touch
  <2>2. QED
    BY <2>1
<1>8. QED
  BY <1>1, <1>2, <1>3, <1>4, <1>5, <1>6, <1>7 DEF Next, Cycle, Editor

\* A settled note that can be stamped, that nobody touches and no call fails on,
\* is committed with its stamp, whatever happened in the cycles before
\* (stamp.go:54-68, 83-155, syncer.go commit).
THEOREM SettledIsStampedAlways == Spec => SettledIsStamped
<1>1. Init => QuietInv
  BY DEF Init, QuietInv, QuietIsSame, QuietIsStamped
<1>2. TypeOK /\ QuietInv /\ [Next]_vars => QuietInv'
  BY QuietStep
<1>3. ASSUME TypeOK, QuietInv, [Next]_vars
      PROVE  [pc = "add" /\ pc' = "commit" /\ quiet /\ size # "zero" /\ ~erred
              => index'.form # "plain"]_vars
  <2> SUFFICES ASSUME pc = "add", pc' = "commit", quiet, size # "zero", ~erred
               PROVE  index'.form # "plain"
    BY Zenon
  <2>1. Add
    BY <1>3 DEF Next, Cycle, Editor, SyncOnChange, SyncOnPoll, Look, Stat, Read, Restat, Rename,
                Commit, StampError, Fail, Crash, Tick, Save, Truncate, Write, WriteOrphan
  <2>2. size = "some" /\ file.form # "plain"
    BY <1>3 DEF TypeOK, FlagType, QuietInv, QuietIsStamped
  <2>3. index' = file
    BY <2>1, Zenon DEF Add
  <2>4. QED
    BY <2>2, <2>3
<1>4. QED
  BY <1>1, <1>2, <1>3, StampTypeCorrect, PTL DEF Spec, SettledIsStamped
=============================================================================
