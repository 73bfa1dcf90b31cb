---------------------------- MODULE WatcherProofs ----------------------------
(* Theorems about Watcher, for every value of its constants: any tree of   *)
(* directories, any ignore rules, any size of the buffer.                  *)
EXTENDS Watcher, SequenceTheorems, TLAPS

Event == [path : Paths, create : BOOLEAN]

\* The tree is walked between the window and its sync only.  The root is watched
\* first; if it cannot be, nothing ever is, and nothing is noticed.
WalkIsOver == pc \in {"select", "sync"} => level = {} /\ children = {}
Unnoticing == watched = {} /\ level \subseteq {Root} /\ children = {} /\ events = <<>>
              /\ created = {} /\ pc # "list"
RootFirst == Root \in watched \/ Unnoticing

\* What is left on the timer does not reach beyond MaxDebounce.
TimerIsCapped == since # Never => timer = 0 \/ since + timer <= MaxDebounce

WatchInv ==
  TypeOK /\ WalkIsOver /\ RootFirst /\ TimerIsCapped /\ ChangesAreScheduled /\ NewDirsAreWatched

-----------------------------------------------------------------------------
(* The buffer.                                                             *)

\* An event that is buffered adds its path, and itself if it is a creation.
LEMMA Buffered ==
  ASSUME NEW evs \in Seq(Event), NEW ev \in Event
  PROVE  /\ Append(evs, ev) \in Seq(Event) /\ Len(Append(evs, ev)) = Len(evs) + 1
         /\ PathsOf(Append(evs, ev)) = PathsOf(evs) \cup {ev.path}
         /\ NewOf(Append(evs, ev)) = NewOf(evs) \cup (IF ev.create THEN {ev.path} ELSE {})
<1> DEFINE app == Append(evs, ev)
<1>1. /\ app \in Seq(Event) /\ Len(app) = Len(evs) + 1 /\ Len(evs) \in Nat
      /\ \A i \in 1..Len(evs) : app[i] = evs[i]
      /\ app[Len(evs) + 1] = ev
  OBVIOUS
<1> HIDE DEF app
<1>2. 1..Len(app) = 1..Len(evs) \cup {Len(evs) + 1}
  BY <1>1
<1>3. PathsOf(app) = PathsOf(evs) \cup {ev.path}
  BY <1>1, <1>2 DEF PathsOf
<1>4. NewOf(app) = NewOf(evs) \cup (IF ev.create THEN {ev.path} ELSE {})
  BY <1>1, <1>2 DEF NewOf
<1> QED  BY <1>1, <1>3, <1>4 DEF app

\* An event that is taken takes its path from the buffer and nothing else.
LEMMA Taken ==
  ASSUME NEW evs \in Seq(Event), evs # <<>>
  PROVE  /\ Head(evs) \in Event /\ Tail(evs) \in Seq(Event) /\ Len(Tail(evs)) <= Len(evs)
         /\ PathsOf(evs) = PathsOf(Tail(evs)) \cup {Head(evs).path}
         /\ NewOf(evs) = NewOf(Tail(evs)) \cup (IF Head(evs).create THEN {Head(evs).path} ELSE {})
<1> DEFINE h == Head(evs)  t == Tail(evs)
<1>1. /\ h \in Event /\ t \in Seq(Event) /\ Len(t) = Len(evs) - 1
      /\ Len(evs) \in Nat \ {0} /\ evs[1] = h
      /\ \A i \in 1..Len(t) : t[i] = evs[i + 1]
  OBVIOUS
<1> HIDE DEF h, t
<1>2. \A i \in 1..Len(evs) : i = 1 \/ ((i - 1) \in 1..Len(t) /\ evs[i] = t[i - 1])
  BY <1>1
<1>3. 1 \in 1..Len(evs) /\ \A i \in 1..Len(t) : (i + 1) \in 1..Len(evs)
  BY <1>1
<1>4. PathsOf(evs) = PathsOf(t) \cup {h.path}
  BY <1>1, <1>2, <1>3 DEF PathsOf
<1>5. NewOf(evs) = NewOf(t) \cup (IF h.create THEN {h.path} ELSE {})
  BY <1>1, <1>2, <1>3 DEF NewOf
<1> QED  BY <1>1, <1>4, <1>5 DEF h, t

\* What is in the buffer is a path of the worktree.
LEMMA BufferedPaths ==
  ASSUME NEW evs \in Seq(Event)
  PROVE  PathsOf(evs) \subseteq Paths /\ NewOf(evs) \subseteq PathsOf(evs)
<1>1. \A i \in 1..Len(evs) : evs[i] \in Event
  OBVIOUS
<1>2. \A i \in 1..Len(evs) : evs[i].path \in Paths
  BY <1>1 DEF Event
<1>3. PathsOf(evs) \subseteq Paths
  BY <1>2 DEF PathsOf
<1>4. NewOf(evs) \subseteq PathsOf(evs)
  BY DEF PathsOf, NewOf
<1> QED  BY <1>3, <1>4

\* An empty buffer has no paths.
LEMMA EmptyBuffer == PathsOf(<<>>) = {} /\ NewOf(<<>>) = {}
  BY DEF PathsOf, NewOf

\* A notification in a watched directory is buffered or counted as dropped,
\* and it takes nothing away.
LEMMA NotifyAdds ==
  ASSUME TypeOK, NEW p \in Paths, NEW create \in BOOLEAN, Notify(p, create)
  PROVE  /\ events' \in Seq(Event) /\ Len(events') <= Buffer /\ dropped' \in BOOLEAN
         /\ missed \subseteq missed' /\ missed' \subseteq missed \cup ({p} \cap Files)
         /\ PathsOf(events) \subseteq PathsOf(events') /\ NewOf(events) \subseteq NewOf(events')
         /\ dropped => dropped'
         /\ In[p] \in watched =>
              /\ p \in PathsOf(events') \/ ({p} \cap Files) \subseteq missed'
              /\ create => p \in NewOf(events') \/ dropped'
<1>1. /\ events \in Seq(Event) /\ Len(events) \in Nat /\ Len(events) <= Buffer
      /\ dropped \in BOOLEAN /\ Buffer \in Nat
  BY WatcherAssumption DEF TypeOK, Event
<1>2. CASE In[p] \notin watched
  BY <1>1, <1>2 DEF Notify
<1>3. CASE In[p] \in watched /\ Len(events) < Buffer
  <2> DEFINE ev == [path |-> p, create |-> create]
  <2>1. ev \in Event /\ ev.path = p /\ ev.create = create
    BY DEF Event
  <2>2. events' = Append(events, ev) /\ UNCHANGED <<missed, dropped>>
    BY <1>3 DEF Notify
  <2> HIDE DEF ev
  <2>3. /\ events' \in Seq(Event) /\ Len(events') = Len(events) + 1
        /\ PathsOf(events') = PathsOf(events) \cup {ev.path}
        /\ NewOf(events') = NewOf(events) \cup (IF ev.create THEN {ev.path} ELSE {})
    BY <1>1, <2>1, <2>2, Buffered
  <2> QED  BY <1>1, <1>3, <2>1, <2>2, <2>3
<1>4. CASE In[p] \in watched /\ ~(Len(events) < Buffer)
  BY <1>1, <1>4 DEF Notify
<1> QED  BY <1>2, <1>3, <1>4

-----------------------------------------------------------------------------
(* Types.                                                                  *)

\* The times the timer is set to.
LEMMA WaitIsShort ==
  ASSUME NEW age \in Nat
  PROVE  /\ Wait(age) \in 0..(Never - 1)
         /\ Wait(age) = 0 \/ age + Wait(age) <= MaxDebounce
  BY WatcherAssumption DEF Wait, Lesser, Never

LEMMA TypesHold == TypeOK /\ [Next]_vars => TypeOK'
<1> SUFFICES ASSUME TypeOK, [Next]_vars  PROVE TypeOK'
  OBVIOUS
<1> USE WatcherAssumption
<1>0. /\ Never \in Nat \ {0} /\ events \in Seq(Event) /\ Len(events) \in Nat
      /\ PathsOf(events) \subseteq Paths /\ NewOf(events) \subseteq PathsOf(events)
  <2>1. events \in Seq(Event)
    BY DEF TypeOK, Event
  <2> QED  BY <2>1, BufferedPaths DEF Never
<1>1. CASE OnEvent
  <2>1. /\ Head(events) \in Event /\ events' \in Seq(Event) /\ Len(events') <= Len(events)
        /\ Len(events') \in Nat
    BY <1>0, <1>1, Taken DEF OnEvent
  <2>2. /\ Head(events).path \in Paths /\ Len(events') <= Buffer
        /\ pending' \subseteq Paths /\ created' \subseteq pending'
    BY <1>0, <1>1, <2>1 DEF OnEvent, TypeOK, Event
  <2>3. since' \in 0..(Never - 1)
    BY <1>0, <1>1 DEF OnEvent, TypeOK
  <2>4. since' \in Nat /\ timer' = Wait(since') /\ timer' \in 0..(Never - 1)
    <3>1. since' \in Nat
      BY <1>0, <2>3
    <3> QED  BY <1>1, <3>1, WaitIsShort DEF OnEvent
  <2>5. /\ since' \in 0..Never /\ timer' \in 0..Never /\ since' # Never /\ timer' # Never
    BY <1>0, <2>3, <2>4
  <2> QED
    BY <1>0, <1>1, <2>1, <2>2, <2>5
    DEF OnEvent, TypeOK, Event, world, tree, Never
<1>2. CASE OnDebounce
  <2>1. /\ pc' \in {"select", "walk"} /\ level' \subseteq Places /\ omitted' \subseteq Dirs
    BY <1>0, <1>2 DEF OnDebounce, Unignored, TypeOK, Places
  <2>2. events' = <<>> /\ events' \in Seq(Event) /\ Len(events') <= Buffer
    BY <1>2 DEF OnDebounce, Unignored
  <2> QED  BY <1>0, <1>2, <2>1, <2>2 DEF OnDebounce, Unignored, TypeOK, world, Event, Never
<1>3. CASE OnPoll \/ OnWake
  BY <1>3 DEF OnPoll, OnWake, TypeOK, world, window, tree, Never
<1>4. CASE Walk
  <2>1. /\ watched' \subseteq Places /\ level' \subseteq Places /\ children' \subseteq Dirs
        /\ dir' \in Places /\ omitted' \subseteq Dirs
        /\ pc' \in {"walk", "list", "sync"}
    BY <1>4 DEF Walk, Unignored, Subdirs, TypeOK, Places
  <2> QED  BY <1>4, <2>1 DEF Walk, Unignored, TypeOK, window, Never
<1>5. CASE Sync
  BY <1>5 DEF Sync, TypeOK, window, tree, Never
<1>13. CASE WatchFails
  BY <1>13 DEF WatchFails, MayFail, TypeOK, world, window, Never
<1>14. CASE ReadDirFails
  BY <1>14 DEF ReadDirFails, MayFail, Subdirs, TypeOK, world, window, tree, Never
<1>6. CASE Tick
  <2>1. since' \in 0..(Never - 1)
    BY <1>0, <1>6 DEF Tick, TypeOK, Lesser
  <2>2. timer' \in 0..(Never - 1)
    BY <1>0, <1>6 DEF Tick, TypeOK
  <2>3. since' \in 0..Never /\ timer' \in 0..Never /\ since' # Never /\ timer' # Never
    BY <1>0, <2>1, <2>2
  <2> QED  BY <1>6, <2>3 DEF Tick, TypeOK, world, tree, Never
<1>7. ASSUME NEW p \in Paths, NEW create \in BOOLEAN, Notify(p, create), May,
             exists' \subseteq Dirs, ignored' \in Rules,
             dirty' \subseteq Files, dirty \subseteq dirty', ({p} \cap Files) \subseteq dirty',
             watched' \subseteq watched, omitted' \subseteq omitted,
             UNCHANGED <<window, pc, tree, fails>>
      PROVE  TypeOK'
  <2>1. /\ events' \in Seq(Event) /\ Len(events') <= Buffer /\ dropped' \in BOOLEAN
        /\ missed' \subseteq missed \cup ({p} \cap Files)
    BY <1>7, NotifyAdds
  <2>2. changes' \in 0..MaxChanges
    BY <1>7 DEF May, TypeOK
  <2> QED  BY <1>7, <2>1, <2>2 DEF TypeOK, window, tree, Event, Never
<1>8. ASSUME NEW f \in Files, Change(f)  PROVE TypeOK'
  <2>1. f \in Paths /\ FALSE \in BOOLEAN
    BY DEF Paths
  <2>2. /\ exists' \subseteq Dirs /\ ignored' \in Rules
        /\ dirty' \subseteq Files /\ dirty \subseteq dirty' /\ ({f} \cap Files) \subseteq dirty'
    BY <1>8 DEF Change, TypeOK
  <2> QED  BY <1>7, <1>8, <2>1, <2>2 DEF Change
<1>9. CASE ChangeRules
  <2>1. RulesFile \in Paths /\ FALSE \in BOOLEAN
    BY DEF Paths
  <2>2. /\ exists' \subseteq Dirs /\ ignored' \in Rules
        /\ dirty' \subseteq Files /\ dirty \subseteq dirty' /\ ({RulesFile} \cap Files) \subseteq dirty'
    BY <1>9 DEF ChangeRules, TypeOK
  <2> QED  BY <1>7, <1>9, <2>1, <2>2 DEF ChangeRules
<1>10. ASSUME NEW d \in Dirs, Mkdir(d)  PROVE TypeOK'
  <2>1. d \in Paths /\ TRUE \in BOOLEAN /\ {d} \cap Files = {}
    BY DEF Paths
  <2>2. /\ exists' \subseteq Dirs /\ ignored' \in Rules /\ dirty' \subseteq Files
    BY <1>10 DEF Mkdir, TypeOK
  <2> QED  BY <1>7, <1>10, <2>1, <2>2 DEF Mkdir
<1>11. ASSUME NEW d \in Dirs, Rmdir(d)  PROVE TypeOK'
  <2>1. d \in Paths /\ FALSE \in BOOLEAN /\ {d} \cap Files = {}
    BY DEF Paths
  <2> QED  BY <1>7, <1>11, <2>1 DEF Rmdir, TypeOK
<1>12. CASE UNCHANGED vars
  BY <1>12 DEF vars, world, window, tree, TypeOK, Never
<1> QED
  BY <1>1, <1>2, <1>3, <1>4, <1>5, <1>6, <1>8, <1>9, <1>10, <1>11, <1>12, <1>13,
     <1>14 DEF Next, Run, User

-----------------------------------------------------------------------------
(* The window and the walk.                                                *)

\* What passes on the one side has gone on the other.
LEMMA TickKeepsSum ==
  ASSUME NEW age \in Nat, NEW left \in Nat, NEW older \in Nat, NEW max \in Nat,
         older <= age + 1, left = 0 \/ age + left <= max
  PROVE  LET less == IF left > 0 THEN left - 1 ELSE 0 IN less = 0 \/ older + less <= max
<1>1. CASE left = 0
  BY <1>1
<1>2. CASE left > 0
  BY <1>2
<1> QED  BY <1>1, <1>2

LEMMA WindowHolds ==
  ASSUME TypeOK, TypeOK', WalkIsOver, RootFirst, TimerIsCapped, [Next]_vars
  PROVE  WalkIsOver' /\ RootFirst' /\ TimerIsCapped'
<1> USE WatcherAssumption
<1>0. Never \in Nat /\ Never > MaxDebounce /\ MaxDebounce \in Nat
  BY DEF Never
<1>1. CASE OnEvent
  <2>1. WalkIsOver' /\ RootFirst'
    BY <1>1 DEF OnEvent, world, tree, WalkIsOver, RootFirst, Unnoticing
  <2>2. since' \in Nat /\ timer' = Wait(since')
    BY <1>0, <1>1 DEF OnEvent, TypeOK
  <2>3. TimerIsCapped'
    BY <2>2, WaitIsShort DEF TimerIsCapped
  <2> QED  BY <2>1, <2>3
<1>2. CASE OnDebounce
  <2>1. WalkIsOver' /\ RootFirst'
    <3>1. events = <<>> => NewOf(events) = {}
      BY EmptyBuffer
    <3> QED  BY <1>2, <3>1 DEF OnDebounce, Unignored, world, WalkIsOver, RootFirst, Unnoticing
  <2>2. TimerIsCapped'
    BY <1>2 DEF OnDebounce, Unignored, TimerIsCapped
  <2> QED  BY <2>1, <2>2
<1>3. CASE OnPoll \/ OnWake \/ Sync
  BY <1>3 DEF OnPoll, OnWake, Sync, world, window, tree, WalkIsOver, RootFirst, Unnoticing, TimerIsCapped
<1>4. CASE Walk
  <2>1. WalkIsOver'
    BY <1>4 DEF Walk, Unignored, WalkIsOver
  <2>2. RootFirst'
    BY <1>4 DEF Walk, Unignored, window, RootFirst, Unnoticing
  <2>3. TimerIsCapped'
    BY <1>4 DEF Walk, Unignored, window, TimerIsCapped
  <2> QED  BY <2>1, <2>2, <2>3
<1>5. CASE Tick
  <2>1. WalkIsOver' /\ RootFirst'
    BY <1>5 DEF Tick, world, tree, WalkIsOver, RootFirst, Unnoticing
  <2>2. since \in Nat /\ timer \in Nat /\ since' \in Nat /\ since' <= since + 1
        /\ timer' = IF timer > 0 THEN timer - 1 ELSE 0
    BY <1>0, <1>5 DEF Tick, TypeOK, Lesser
  <2>3. timer = 0 \/ since + timer <= MaxDebounce
    BY <1>5 DEF Tick, TimerIsCapped
  <2>4. timer' = 0 \/ since' + timer' <= MaxDebounce
    BY <1>0, <2>2, <2>3, TickKeepsSum
  <2> QED  BY <2>1, <2>4 DEF TimerIsCapped
<1>6. CASE User \/ UNCHANGED vars
  <2>1. /\ UNCHANGED <<window, pc, tree>>
        /\ watched' \subseteq watched /\ (Root \in watched => Root \in watched')
    BY <1>6 DEF User, Change, ChangeRules, Mkdir, Rmdir, vars, world
  <2>2. watched = {} => events' = events
    BY <1>6 DEF User, Change, ChangeRules, Mkdir, Rmdir, Notify, vars
  <2> QED  BY <2>1, <2>2 DEF window, tree, WalkIsOver, RootFirst, Unnoticing, TimerIsCapped
<1>7. CASE WatchFails \/ ReadDirFails
  BY <1>7 DEF WatchFails, ReadDirFails, world, window, tree, WalkIsOver, RootFirst, Unnoticing,
              TimerIsCapped
<1> QED  BY <1>1, <1>2, <1>3, <1>4, <1>5, <1>6, <1>7 DEF Next, Run

-----------------------------------------------------------------------------
(* What is noticed.                                                        *)

\* A step of the user's that notifies of p keeps what was scheduled; p itself
\* may have become dirty, and .gitignore may have uncovered other files.
LEMMA NotifyKeepsScheduled ==
  ASSUME TypeOK, ChangesAreScheduled, RootFirst, NEW p \in Paths, NEW create \in BOOLEAN,
         Notify(p, create), UNCHANGED <<window, pc, tree>>, watched' \subseteq watched,
         dirty' \subseteq dirty \cup ({p} \cap Files), p = RulesFile \/ ignored' = ignored
  PROVE  ChangesAreScheduled'
<1> USE WatcherAssumption
<1>1. /\ missed \subseteq missed' /\ PathsOf(events) \subseteq PathsOf(events')
      /\ In[p] \in watched => p \in PathsOf(events') \/ ({p} \cap Files) \subseteq missed'
  BY NotifyAdds
<1>2. Noted \subseteq Noted' /\ PathsOf(events') \subseteq Noted' /\ (Coming => Coming')
  BY <1>1 DEF Noted, Coming, window
<1>3. ASSUME NEW f \in dirty' \ (missed' \cup ignored'), In[f] \in watched'
      PROVE  Coming' \/ f \in Noted' \/ RulesFile \in Noted' \cup missed'
  <2>1. CASE f = p
    <3>1. f \in Files /\ f \notin missed' /\ In[p] \in watched
      BY <1>3, <2>1 DEF TypeOK
    <3> QED  BY <3>1, <2>1, <1>1, <1>2
  <2>2. CASE f # p /\ ignored' = ignored
    <3>1. f \in dirty \ (missed \cup ignored) /\ In[f] \in watched
      BY <1>1, <1>3, <2>2
    <3>2. Coming \/ f \in Noted \/ RulesFile \in Noted \cup missed
      BY <3>1 DEF ChangesAreScheduled
    <3> QED  BY <3>2, <1>1, <1>2
  <2>3. CASE p = RulesFile
    <3>1. CASE Root \in watched
      <4>1. RulesFile \in PathsOf(events') \/ RulesFile \in missed'
        BY <3>1, <2>3, <1>1
      <4> QED  BY <4>1, <1>2
    <3>2. CASE Root \notin watched
      BY <3>2, <1>3 DEF RootFirst, Unnoticing
    <3> QED  BY <3>1, <3>2
  <2> QED  BY <2>1, <2>2, <2>3
<1>4. pending' # {} => timer' # Never
  BY DEF ChangesAreScheduled, window
<1>5. Never' = Never
  BY DEF Never
<1> QED  BY <1>3, <1>4, <1>5 DEF ChangesAreScheduled

LEMMA ScheduledHolds ==
  ASSUME TypeOK, TypeOK', RootFirst, ChangesAreScheduled, [Next]_vars
  PROVE  ChangesAreScheduled'
<1> USE WatcherAssumption
<1>0. /\ events \in Seq(Event) /\ Never \in Nat
  BY DEF TypeOK, Event, Never
<1>1. CASE OnEvent
  <2>1. Noted' = Noted
    BY <1>0, <1>1, Taken DEF OnEvent, Noted
  <2>2. timer' # Never
    <3>1. since' \in Nat /\ timer' = Wait(since')
      BY <1>0, <1>1 DEF OnEvent, TypeOK
    <3>2. timer' \in 0..(Never - 1)
      BY <3>1, WaitIsShort
    <3> QED  BY <3>2, <1>0
  <2> QED  BY <1>1, <2>1, <2>2 DEF OnEvent, world, ChangesAreScheduled, Coming, Never
<1>2. CASE OnDebounce
  <2> DEFINE seen == pending \cup PathsOf(events)
  <2>1. PICK live \in {seen \ ignored, seen} : pc' = IF live = {} THEN "select" ELSE "walk"
    BY <1>2 DEF OnDebounce, Unignored
  <2>2. CASE live # {}
    BY <1>2, <2>1, <2>2 DEF OnDebounce, Unignored, ChangesAreScheduled, Coming
  <2>3. CASE live = {}
    <3>1. seen \subseteq ignored
      BY <2>1, <2>3
    <3>2. RulesFile \notin ignored
      BY DEF TypeOK
    <3>3. ~Coming
      BY <1>2 DEF OnDebounce, Unignored, Coming
    <3>4. ASSUME NEW f \in dirty \ (missed \cup ignored), In[f] \in watched
          PROVE  RulesFile \in missed
      <4>1. f \notin Noted /\ RulesFile \notin Noted
        BY <3>1, <3>2, <3>4 DEF Noted
      <4> QED  BY <4>1, <3>3, <3>4 DEF ChangesAreScheduled
    <3> QED  BY <1>2, <3>4 DEF OnDebounce, Unignored, world, ChangesAreScheduled
  <2> QED  BY <2>2, <2>3
<1>3. CASE OnPoll \/ OnWake \/ WatchFails \/ ReadDirFails
  BY <1>3 DEF OnPoll, OnWake, WatchFails, ReadDirFails, window, ChangesAreScheduled, Coming, Never
<1>10. CASE Walk
  BY <1>10 DEF Walk, Unignored, window, ChangesAreScheduled, Coming, Never
<1>4. CASE Sync
  BY <1>4 DEF Sync, window, ChangesAreScheduled, Never
<1>5. CASE Tick
  <2>1. timer' # Never
    BY <1>0, <1>5 DEF Tick, TypeOK
  <2> QED
    BY <1>5, <2>1 DEF Tick, world, ChangesAreScheduled, Coming, Noted, Never
<1>6. ASSUME NEW f \in Files, Change(f)  PROVE ChangesAreScheduled'
  <2>1. f \in Paths /\ FALSE \in BOOLEAN
    BY DEF Paths
  <2>2. dirty' \subseteq dirty \cup ({f} \cap Files)
    BY <1>6 DEF Change
  <2> QED  BY <1>6, <2>1, <2>2, NotifyKeepsScheduled DEF Change
<1>7. CASE ChangeRules
  <2>1. RulesFile \in Paths /\ FALSE \in BOOLEAN
    BY DEF Paths
  <2>2. dirty' \subseteq dirty \cup ({RulesFile} \cap Files)
    BY <1>7 DEF ChangeRules
  <2> QED  BY <1>7, <2>1, <2>2, NotifyKeepsScheduled DEF ChangeRules
<1>8. ASSUME NEW d \in Dirs, Mkdir(d) \/ Rmdir(d)  PROVE ChangesAreScheduled'
  <2>1. d \in Paths /\ FALSE \in BOOLEAN /\ TRUE \in BOOLEAN
    BY DEF Paths
  <2>2. dirty' \subseteq dirty \cup ({d} \cap Files) /\ watched' \subseteq watched /\ ignored' = ignored
        /\ (Notify(d, TRUE) \/ Notify(d, FALSE)) /\ UNCHANGED <<window, pc, tree>>
    BY <1>8 DEF Mkdir, Rmdir
  <2> QED  BY <2>1, <2>2, NotifyKeepsScheduled
<1>9. CASE UNCHANGED vars
  BY <1>9 DEF vars, world, window, ChangesAreScheduled, Coming, Noted, Never
<1> QED
  BY <1>1, <1>2, <1>3, <1>4, <1>5, <1>6, <1>7, <1>8, <1>9, <1>10 DEF Next, Run, User

\* What the user does keeps the directories watched that were.
LEMMA NotifyKeepsWatched ==
  ASSUME TypeOK, NewDirsAreWatched, NEW p \in Paths, NEW create \in BOOLEAN,
         Notify(p, create), UNCHANGED <<window, pc, tree>>,
         NEW c \in exists \ omitted, In[c] \in watched
  PROVE  \/ c \in watched \/ dropped'
         \/ c \in NewOf(events') \cup created' \cup level' \cup children'
         \/ pc' = "list" /\ dir' = In[c]
<1>1. NewOf(events) \subseteq NewOf(events') /\ (dropped => dropped')
  BY NotifyAdds
<1> QED  BY <1>1 DEF NewDirsAreWatched, window, tree

LEMMA WatchedHolds ==
  ASSUME TypeOK, WalkIsOver, NewDirsAreWatched, [Next]_vars
  PROVE  NewDirsAreWatched'
<1> USE WatcherAssumption
<1>0. events \in Seq(Event)
  BY DEF TypeOK, Event
<1>1. CASE OnEvent
  <2>1. NewOf(events') \cup created' = NewOf(events) \cup created
    BY <1>0, <1>1, Taken DEF OnEvent
  <2> QED  BY <1>1, <2>1 DEF OnEvent, world, tree, NewDirsAreWatched
<1>2. CASE OnDebounce
  <2> DEFINE new == created \cup NewOf(events)
  <2>1. new \cap exists \subseteq level' \cup omitted'
    BY <1>2 DEF OnDebounce, Unignored
  <2>2. level = {} /\ children = {} /\ omitted \subseteq omitted' /\ pc # "list"
        /\ UNCHANGED <<world, dropped>>
    BY <1>2 DEF OnDebounce, Unignored, WalkIsOver
  <2> QED  BY <2>1, <2>2 DEF world, NewDirsAreWatched
<1>3. CASE OnPoll \/ OnWake
  BY <1>3 DEF OnPoll, OnWake, world, window, tree, NewDirsAreWatched
<1>4. CASE Walk \/ WatchFails \/ ReadDirFails
  <2>1. UNCHANGED <<exists, events, created, dropped>> /\ watched \subseteq watched'
        /\ omitted \subseteq omitted' \cup watched'
    BY <1>4 DEF Walk, WatchFails, ReadDirFails, Unignored, world, window
  <2>2. ASSUME NEW c \in exists \ omitted', In[c] \in watched'
        PROVE  \/ c \in watched' \/ dropped
               \/ c \in NewOf(events) \cup created \cup level' \cup children'
               \/ pc' = "list" /\ dir' = In[c]
    <3>1. c \in watched' \/
            (In[c] \in watched =>
            \/ c \in watched \/ dropped
            \/ c \in NewOf(events) \cup created \cup level \cup children
            \/ pc = "list" /\ dir = In[c])
      BY <2>1, <2>2 DEF NewDirsAreWatched
    <3>2. c \in Dirs
      BY DEF TypeOK
    <3>3. CASE Walk
      BY <3>3, <2>1, <2>2, <3>1, <3>2 DEF Walk, Unignored, Subdirs
    <3>4. CASE WatchFails
      BY <3>4, <2>1, <2>2, <3>1, <3>2 DEF WatchFails, world
    <3>5. CASE ReadDirFails
      BY <3>5, <2>1, <2>2, <3>1, <3>2 DEF ReadDirFails, Subdirs, world, tree
    <3> QED  BY <1>4, <3>3, <3>4, <3>5
  <2> QED  BY <2>1, <2>2 DEF NewDirsAreWatched
<1>5. CASE Sync
  BY <1>5 DEF Sync, window, tree, NewDirsAreWatched
<1>6. CASE Tick
  BY <1>6 DEF Tick, world, tree, NewDirsAreWatched
<1>7. CASE (\E f \in Files : Change(f)) \/ ChangeRules
  <2>1. PICK f \in Files : Notify(f, FALSE)
    BY <1>7 DEF Change, ChangeRules
  <2>2. f \in Paths /\ FALSE \in BOOLEAN
    BY DEF Paths
  <2>3. UNCHANGED <<window, pc, tree, exists, watched, omitted>>
    BY <1>7 DEF Change, ChangeRules
  <2> QED  BY <2>1, <2>2, <2>3, NotifyKeepsWatched DEF NewDirsAreWatched
<1>8. ASSUME NEW d \in Dirs, Mkdir(d)  PROVE NewDirsAreWatched'
  <2>1. /\ d \in Paths /\ TRUE \in BOOLEAN /\ Notify(d, TRUE)
        /\ UNCHANGED <<window, pc, tree, watched, omitted>> /\ exists' = exists \cup {d}
    BY <1>8 DEF Mkdir, Paths
  <2>2. In[d] \in watched => d \in NewOf(events') \/ dropped'
    BY <2>1, NotifyAdds
  <2> QED  BY <2>1, <2>2, NotifyKeepsWatched DEF NewDirsAreWatched
<1>9. ASSUME NEW d \in Dirs, Rmdir(d)  PROVE NewDirsAreWatched'
  <2>1. /\ d \in Paths /\ FALSE \in BOOLEAN /\ Notify(d, FALSE)
        /\ UNCHANGED <<window, pc, tree>> /\ exists' = exists \ {d}
        /\ watched' = watched \ {d} /\ omitted' = omitted \ {d}
    BY <1>9 DEF Rmdir, Paths
  <2> QED  BY <2>1, NotifyKeepsWatched DEF NewDirsAreWatched
<1>10. CASE UNCHANGED vars
  BY <1>10 DEF vars, world, window, tree, NewDirsAreWatched
<1> QED  BY <1>1, <1>2, <1>3, <1>4, <1>5, <1>6, <1>7, <1>8, <1>9, <1>10 DEF Next, Run, User

-----------------------------------------------------------------------------
(* The theorems.                                                           *)

\* The inductive invariant of the watcher: the walk happens between a window
\* and its sync, the root first; the timer is capped; and what is noticed is
\* kept until a sync has read it (watcher.go Run, absorb, addTree).
THEOREM WatchInvariant == Spec => []WatchInv
<1>1. Init => WatchInv
  <2> SUFFICES ASSUME Init  PROVE WatchInv
    OBVIOUS
  <2>1. TypeOK
    <3>1. Never \in Nat \ {0} /\ Never \in 0..Never /\ Buffer >= 0
      BY WatcherAssumption DEF Never
    <3>2. events \in Seq([path : Paths, create : BOOLEAN]) /\ Len(events) = 0
      BY DEF Init
    <3>3. dirty \subseteq Files /\ ignored \in Rules /\ exists \subseteq Dirs
      BY DEF Init
    <3>4. since \in 0..Never /\ timer \in 0..Never /\ changes \in 0..MaxChanges
          /\ fails \in 0..MaxFails
      BY <3>1, WatcherAssumption DEF Init
    <3> QED  BY <3>1, <3>2, <3>3, <3>4 DEF Init, TypeOK, Places
  <2>2. WalkIsOver /\ RootFirst /\ TimerIsCapped
    BY DEF Init, WalkIsOver, RootFirst, Unnoticing, TimerIsCapped
  <2>3. ChangesAreScheduled /\ NewDirsAreWatched
    BY DEF Init, ChangesAreScheduled, NewDirsAreWatched
  <2> QED  BY <2>1, <2>2, <2>3 DEF WatchInv
<1>2. WatchInv /\ [Next]_vars => WatchInv'
  BY TypesHold, WindowHolds, ScheduledHolds, WatchedHolds DEF WatchInv
<1> QED  BY <1>1, <1>2, PTL DEF Spec

\* Type correctness of the watcher.
THEOREM WatcherTypeCorrect == Spec => []TypeOK
<1>1. WatchInv => TypeOK
  BY DEF WatchInv
<1> QED  BY <1>1, WatchInvariant, PTL

\* A noticed change is not forgotten before a sync has read it, however the
\* ignore rules change and whatever arrives while the timer fires.
THEOREM ChangesAreAlwaysScheduled == Spec => []ChangesAreScheduled
<1>1. WatchInv => ChangesAreScheduled
  BY DEF WatchInv
<1> QED  BY <1>1, WatchInvariant, PTL

\* A directory that appears below a watched one is watched or about to be, in
\* a tree of any depth, unless an event was dropped, or it was ignored or a call
\* failed on it when it was noticed.
THEOREM NewDirsAreAlwaysWatched == Spec => []NewDirsAreWatched
<1>1. WatchInv => NewDirsAreWatched
  BY DEF WatchInv
<1> QED  BY <1>1, WatchInvariant, PTL

\* The debounce ends by MaxDebounce, for every Debounce and MaxDebounce.
THEOREM AlwaysDueByMaxDebounce == Spec => []DueByMaxDebounce
<1>1. WatchInv => DueByMaxDebounce
  <2> SUFFICES ASSUME WatchInv, since # Never, since >= MaxDebounce  PROVE timer = 0
    BY DEF DueByMaxDebounce
  <2>1. since \in Nat /\ timer \in Nat /\ MaxDebounce \in Nat
    BY WatcherAssumption DEF WatchInv, TypeOK, Never
  <2>2. timer = 0 \/ since + timer <= MaxDebounce
    BY DEF WatchInv, TimerIsCapped
  <2> QED  BY <2>1, <2>2
<1> QED  BY <1>1, WatchInvariant, PTL
=============================================================================
