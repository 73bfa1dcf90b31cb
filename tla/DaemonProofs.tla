----------------------------- MODULE DaemonProofs -----------------------------
(* Theorems about Daemon: what the daemon says is true of its cycles.        *)
EXTENDS Daemon, SyncCycleProofs

-----------------------------------------------------------------------------
\* The daemon only watches: its steps are those of SyncCycle, and all that is
\* proved there holds here.
THEOREM RunsSyncCycle == DSpec => Spec
<1>1. DInit => Init
  BY DEF DInit
<1>2. [DNext]_dvars => [Next]_vars
  BY DEF DNext, dvars
<1> QED  BY <1>1, <1>2, PTL DEF DSpec, Spec

-----------------------------------------------------------------------------
(* The status line.                                                        *)

\* What ends a process, or begins a cycle, does nothing else to the repository.
LEMMA ProcessSteps ==
  ASSUME [Next]_vars
  PROVE  /\ ProcessEnds => pc' = "idle" /\ ~CycleReturns
         /\ CycleBegins => BeginSync
<1> USE DEF Quiet, Untouched, ByHand, vars, daemon, At, Goto, Return
<1>1. ProcessEnds => pc' = "idle" /\ ~CycleReturns
  <2>1. CASE Sync
    BY <2>1 DEF ProcessEnds, CycleReturns, Sync, BeginSync, CheckInProgress, CheckStatus, StampFiles, PickPaths,
       AddPaths, Recheck, GitCommit, FindUpstream, Fetch, CheckBehind, RebaseRefused, RebaseStart,
       RebaseDone, RebaseStop, Stopped, AbortRebase, CheckAhead, PushAccepted, PushRejected, Finish
  <2>2. CASE Failure
    BY <2>2 DEF ProcessEnds, CycleReturns, Failure, Interrupted, NetworkDown, GitRefuses, Signal, Restart, Crash
  <2> QED  BY <2>1, <2>2, DaemonStep DEF ProcessEnds, CycleReturns
<1>2. CycleBegins => BeginSync
  <2>1. CASE Sync
    BY <2>1 DEF CycleBegins, Sync, CheckInProgress, CheckStatus, StampFiles, PickPaths,
       AddPaths, Recheck, GitCommit, FindUpstream, Fetch, CheckBehind, RebaseRefused, RebaseStart,
       RebaseDone, RebaseStop, Stopped, AbortRebase, CheckAhead, PushAccepted, PushRejected, Finish
  <2>2. CASE Failure
    BY <2>2 DEF CycleBegins, Failure, Interrupted, GitSteps, Locking, Pushing, NetworkDown, GitRefuses,
       Signal, Restart, Crash
  <2> QED  BY <2>1, <2>2, DaemonStep DEF CycleBegins
<1> QED  BY <1>1, <1>2

\* The memory of the last failure is that of the last cycle, the time of a
\* present failure is its own, the line that is shown is the one remembered,
\* and a cycle runs only once READY=1 is sent.
MemoryInv ==
  /\ pc # "idle" => ready
  /\ ~ready => outcome = NoError
  /\ lastErr = outcome
  /\ outcome # NoError => since = "current"
  /\ shown = lastStatus
  /\ StatusIsHonest

LEMMA MemoryStep ==
  ASSUME MemoryInv, SaidTypeOK, [DNext]_dvars
  PROVE  MemoryInv'
<1> USE DEF MemoryInv, StatusIsHonest, CycleReturns
<1>0. [Next]_vars /\ ready \in BOOLEAN
  BY DEF DNext, dvars, SaidTypeOK
<1>1. CASE FirstSync
  <2>1. UNCHANGED <<lastErr, since, outcome>> /\ ready' = TRUE
    BY <1>1 DEF FirstSync
  <2>2. ready => UNCHANGED <<lastStatus, shown>>
    BY <1>1 DEF FirstSync
  <2>3. ~ready => lastStatus' = Watching /\ shown' = Watching
    BY <1>1 DEF FirstSync
  <2> QED  BY <2>1, <2>2, <2>3 DEF FailureStatus
<1>2. CASE Success
  BY <1>2 DEF Success, Status, Forgotten
<1>3. CASE Failed
  <2>1. Text # NoError
    BY <1>3 DEF Failed, Text, NoError
  <2>2. since' = "current"
    BY <1>3, <2>1 DEF Failed, SameText
  <2> QED  BY <1>3, <2>1, <2>2 DEF Failed, Status, FailureStatus
<1>4. CASE Cancelled
  BY <1>4 DEF Cancelled, FailureStatus
<1>5. CASE EndOfProcess
  BY <1>0, <1>5, ProcessSteps DEF EndOfProcess
<1>6. CASE Otherwise
  BY <1>6 DEF Otherwise, CycleBegins, FailureStatus
<1>7. CASE UNCHANGED dvars
  BY <1>7 DEF dvars, vars, daemon, said, FailureStatus
<1> QED  BY <1>1, <1>2, <1>3, <1>4, <1>5, <1>6, <1>7 DEF DNext, Report

LEMMA StatusTypes ==
  /\ NoError \in Texts
  /\ NoStatus \in Statuses /\ Watching \in Statuses /\ Synced \in Statuses
  /\ \A t \in Texts, s \in Times : FailureStatus(t, s) \in Statuses
BY DEF NoError, Texts, Errors, Statuses

\* What is said keeps to its type.
LEMMA SaidStep ==
  ASSUME TypeOK, TypeOK', SaidTypeOK, [DNext]_dvars
  PROVE  SaidTypeOK'
<1> USE StatusTypes DEF SaidTypeOK, Times
<1>1. CASE FirstSync
  BY <1>1 DEF FirstSync
<1>2. CASE Success
  <2>1. logged' \in BOOLEAN
    BY <1>2 DEF Success
  <2>2. UNCHANGED ready /\ attended' = FALSE
    BY <1>2 DEF Success
  <2>3. lastErr' \in Texts /\ outcome' \in Texts /\ since' \in Times
    BY <1>2 DEF Success, Forgotten
  <2>4. lastStatus' \in Statuses /\ shown' \in Statuses
    BY <1>2 DEF Success, Status
  <2> QED  BY <2>1, <2>2, <2>3, <2>4
<1>3. CASE Failed
  <2>1. Text \in Texts
    BY DEF Text, Texts, TypeOK, DaemonType, PCs, GitSteps, Pushing
  <2>2. logged' \in BOOLEAN
    BY <1>3 DEF Failed, SameText
  <2>3. UNCHANGED ready /\ attended' = FALSE
    BY <1>3 DEF Failed
  <2>4. lastErr' \in Texts /\ outcome' \in Texts /\ since' \in Times
    BY <1>3, <2>1 DEF Failed
  <2>5. lastStatus' \in Statuses /\ shown' \in Statuses
    BY <1>3, <2>1, <2>4 DEF Failed, Status
  <2> QED  BY <2>2, <2>3, <2>4, <2>5
<1>4. CASE Cancelled
  BY <1>4 DEF Cancelled
<1>5. CASE EndOfProcess
  BY <1>5 DEF EndOfProcess
<1>6. CASE Otherwise
  <2>1. attended' \in BOOLEAN
    BY <1>6 DEF Otherwise
  <2>2. logged' = FALSE /\ UNCHANGED <<ready, lastErr, since, lastStatus, shown, outcome>>
    BY <1>6 DEF Otherwise
  <2> QED  BY <2>1, <2>2
<1>7. CASE UNCHANGED dvars
  BY <1>7 DEF dvars, said
<1> QED  BY <1>1, <1>2, <1>3, <1>4, <1>5, <1>6, <1>7 DEF DNext, Report

\* The daemon always says one of the things it can say.
THEOREM SaidTypeCorrect == DSpec => []SaidTypeOK
<1>1. DInit => SaidTypeOK
  BY StatusTypes DEF DInit, SaidTypeOK, Times
<1>2. TypeOK /\ TypeOK' /\ SaidTypeOK /\ [DNext]_dvars => SaidTypeOK'
  BY SaidStep
<1> QED  BY <1>1, <1>2, RunsSyncCycle, TypeCorrect, PTL DEF DSpec

THEOREM MemoryInvariant == DSpec => []MemoryInv
<1>1. DInit => MemoryInv
  BY DEF DInit, Init, MemoryInv, StatusIsHonest
<1>2. MemoryInv /\ SaidTypeOK /\ [DNext]_dvars => MemoryInv'
  BY MemoryStep
<1> QED  BY <1>1, <1>2, SaidTypeCorrect, PTL DEF DSpec

\* The status line always tells how the last cycle went.
THEOREM StatusIsAlwaysHonest == DSpec => []StatusIsHonest
<1>1. MemoryInv => StatusIsHonest
  BY DEF MemoryInv
<1> QED  BY <1>1, MemoryInvariant, PTL

\* Of a failure that repeats only the first occurrence is logged.
THEOREM AlwaysLoggedOnce == DSpec => LoggedOnce
<1>1. ASSUME MemoryInv, [DNext]_dvars
      PROVE  [CycleReturns /\ err' # "none" => (logged' <=> outcome' # outcome)]_dvars
  <2> SUFFICES ASSUME CycleReturns, err' # "none", Report
               PROVE  logged' <=> outcome' # outcome
    BY <1>1 DEF DNext
  <2>1. Failed \/ Cancelled
    BY <1>1, ProcessSteps DEF DNext, dvars, Report, FirstSync, CycleBegins, CycleReturns, Success,
       Otherwise, EndOfProcess
  <2>2. CASE Failed
    BY <1>1, <2>2 DEF Failed, SameText, MemoryInv
  <2>3. CASE Cancelled
    BY <2>3 DEF Cancelled
  <2> QED  BY <2>1, <2>2, <2>3
<1> QED  BY <1>1, MemoryInvariant, PTL DEF DSpec, LoggedOnce

-----------------------------------------------------------------------------
(* What needs a human stays until one comes.                               *)

Blocking == {"busy", "detached"}

\* As long as nobody has attended to it, the repository is as the guards found
\* it, and no cycle gets past them.
BlockedInv ==
  outcome.kind \in Blocking /\ ~attended =>
    /\ pc \in {"idle", "inprogress", "status"}
    /\ op # "none" \/ unmerged # {} \/ head = "detached"
    /\ pc = "status" => unmerged # {} \/ head = "detached"

\* A cycle that meets a blocked repository reports it and moves nothing.
LEMMA GuardsReport ==
  ASSUME [Next]_vars, CycleReturns, err' \in Blocking
  PROVE  /\ op # "none" \/ unmerged # {} \/ head = "detached"
         /\ UNCHANGED <<op, unmerged, head>>
<1> USE DEF Blocking, CycleReturns, Quiet, Untouched, ByHand, vars, daemon, tree, refs, At, Goto, Return,
            AfterPull
<1>1. CASE CheckInProgress
  BY <1>1 DEF CheckInProgress
<1>2. CASE CheckStatus
  BY <1>2 DEF CheckStatus
<1>3. ~(Sync /\ ~CheckInProgress /\ ~CheckStatus)
  BY DEF Sync, BeginSync, StampFiles, PickPaths, AddPaths, Recheck, GitCommit, FindUpstream, Fetch,
     CheckBehind, RebaseRefused, RebaseStart, RebaseDone, RebaseStop, Stopped, AbortRebase,
     CheckAhead, PushAccepted, PushRejected, Finish
<1>4. ~Failure
  BY DEF Failure, Interrupted, NetworkDown, GitRefuses, Signal, Restart, Crash
<1> QED  BY <1>1, <1>2, <1>3, <1>4, DaemonStep

\* From the guards on, a blocked repository is reported, unless git is killed;
\* what the step does not report it leaves alone.
LEMMA BlockedSteps ==
  ASSUME TypeOK, [Next]_vars, pc \in {"idle", "inprogress", "status"},
         op # "none" \/ unmerged # {} \/ head = "detached",
         pc = "status" => unmerged # {} \/ head = "detached"
  PROVE  /\ pc' \in {"idle", "inprogress", "status"}
         /\ pc' = "status" /\ pc # "status" => op = "none"
         /\ pc' # pc => UNCHANGED <<op, unmerged, head>>
         /\ CycleReturns /\ hazards' = hazards /\ ~term => err' \in Blocking
<1> USE DEF Blocking, CycleReturns, Quiet, Untouched, ByHand, vars, daemon, tree, refs, At, Goto, Return
<1>1. CASE BeginSync
  BY <1>1 DEF BeginSync
<1>2. CASE CheckInProgress
  BY <1>2 DEF CheckInProgress
<1>3. CASE CheckStatus
  BY <1>3 DEF CheckStatus
<1>4. ~(Sync /\ ~BeginSync /\ ~CheckInProgress /\ ~CheckStatus)
  BY DEF Sync, StampFiles, PickPaths, AddPaths, Recheck, GitCommit, FindUpstream, Fetch,
     CheckBehind, RebaseRefused, RebaseStart, RebaseDone, RebaseStop, Stopped, AbortRebase,
     CheckAhead, PushAccepted, PushRejected, Finish
<1>5. CASE Interrupted
  <2>1. /\ pc' = "idle" /\ UNCHANGED <<op, unmerged, head>>
        /\ term \/ Hazard("kill")
    BY <1>5 DEF Interrupted, Pushing
  <2>2. Hazard("kill") => hazards' = hazards + 1 /\ hazards < MaxHazards
    BY DEF Hazard
  <2>3. hazards + 1 # hazards
    BY SyncAssumption DEF TypeOK, HistoryType
  <2> QED  BY <2>1, <2>2, <2>3
<1>6. CASE NetworkDown \/ GitRefuses \/ Signal \/ Restart
  BY <1>6 DEF NetworkDown, GitRefuses, Signal, Restart
<1>7. CASE Crash
  BY <1>7 DEF Crash
<1>8. CASE UNCHANGED daemon
  BY <1>8
<1> QED  BY <1>1, <1>2, <1>3, <1>4, <1>5, <1>6, <1>7, <1>8, DaemonStep DEF Failure

LEMMA BlockedStep ==
  ASSUME TypeOK, BlockedInv, [DNext]_dvars
  PROVE  BlockedInv'
<1> USE DEF BlockedInv
<1>0. [Next]_vars
  BY DEF DNext, dvars
<1>1. CASE FirstSync
  <2>1. UNCHANGED <<outcome, attended>> /\ pc' = "inprogress" /\ UNCHANGED <<op, unmerged, head>>
    BY <1>0, <1>1, ProcessSteps DEF FirstSync, BeginSync, tree, refs
  <2> QED  BY <2>1
<1>2. CASE Success
  BY <1>2 DEF Success, NoError, Blocking
<1>3. CASE Failed
  <2>1. outcome'.kind = err' /\ pc' = "idle" /\ CycleReturns
    BY <1>3 DEF Failed, Text, CycleReturns
  <2> QED  BY <1>0, <2>1, GuardsReport
<1>4. CASE Cancelled
  <2>1. UNCHANGED <<outcome, attended>> /\ pc' = "idle" /\ pc # "idle"
    BY <1>4 DEF Cancelled, CycleReturns
  <2> QED  BY <1>0, <2>1, BlockedSteps
<1>5. CASE EndOfProcess
  BY <1>5 DEF EndOfProcess, NoError, Blocking
<1>6. CASE Otherwise
  <2> SUFFICES ASSUME outcome'.kind \in Blocking, ~attended'
               PROVE  BlockedInv'
    OBVIOUS
  <2>1. UNCHANGED <<outcome, op, unmerged, head>> /\ ~attended
    BY <1>6 DEF Otherwise
  <2> QED  BY <1>0, <2>1, BlockedSteps
<1>7. CASE UNCHANGED dvars
  BY <1>7 DEF dvars, vars, tree, refs, daemon, said
<1> QED  BY <1>1, <1>2, <1>3, <1>4, <1>5, <1>6, <1>7 DEF DNext, Report

\* A repository that was reported mid-operation or detached is reported so
\* by every cycle until somebody has done something about it.
THEOREM AlwaysPersistsUntilAttended == DSpec => PersistsUntilAttended
<1>1. DInit => BlockedInv
  BY DEF DInit, BlockedInv, NoError, Blocking
<1>2. TypeOK /\ BlockedInv /\ [DNext]_dvars => BlockedInv'
  BY BlockedStep
<1>3. ASSUME TypeOK, BlockedInv, [DNext]_dvars
      PROVE  [CycleReturns /\ outcome.kind \in {"busy", "detached"} /\ ~attended /\ hazards' = hazards /\ ~term
              => err' \in {"busy", "detached"}]_dvars
  <2>1. [Next]_vars
    BY <1>3 DEF DNext, dvars
  <2> QED  BY <1>3, <2>1, BlockedSteps DEF BlockedInv, Blocking
<1> QED  BY <1>1, <1>2, <1>3, RunsSyncCycle, TypeCorrect, PTL DEF DSpec, PersistsUntilAttended
=============================================================================
