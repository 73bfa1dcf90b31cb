-------------------------------- MODULE Daemon --------------------------------
(***************************************************************************)
(* runWatch around the sync cycle: what the daemon tells the service       *)
(* manager and the journal about the cycles of SyncCycle, while the user,  *)
(* the other machine, signals and crashes go on there.  Every step is a    *)
(* step of SyncCycle together with what the closure in runWatch makes of   *)
(* it: nothing unless a cycle begins or returns, or the process ends.      *)
(*                                                                         *)
(* The text of an error is known by its class and the step that failed;    *)
(* of times counts whether they lie in the present run of failures.  What  *)
(* is sent to the service manager arrives.                                 *)
(***************************************************************************)
EXTENDS SyncCycle

VARIABLES
  ready,      \* READY=1 has been sent
  lastErr,    \* the text of the last failure, NoError once a cycle succeeded
  since,      \* failingSince: "unset", "current", or "stale": before a success
  lastStatus, \* the status line as the closure remembers it
  shown,      \* the status line the service manager shows
  \* history
  outcome,    \* what the last cycle came to
  attended,   \* the user, a signal or a failure has changed things since
  logged      \* this step has put a line into the journal

said == <<ready, lastErr, since, lastStatus, shown, outcome, attended, logged>>
dvars == <<vars, said>>

Texts == [kind : Errors, step : PCs \cup {"none"}]
NoError == [kind |-> "none", step |-> "none"]

\* Kind.NeedsHuman; the class "detached" is of the kind "busy"
NeedsHuman(kind) == kind \in {"conflict", "busy", "detached", "config"}

Line(verb, text, from) == [verb |-> verb, text |-> text, since |-> from]
NoStatus == Line("", NoError, "unset")
Watching == Line("watching", NoError, "unset")
Synced == Line("last sync", NoError, "unset")

\* failureStatus
FailureStatus(text, from) ==
  Line(IF NeedsHuman(text.kind) THEN "BLOCKED" ELSE "degraded", text, from)

DInit ==
  /\ Init
  /\ ready = FALSE /\ lastErr = NoError /\ since = "unset"
  /\ lastStatus = NoStatus /\ shown = NoStatus
  /\ outcome = NoError /\ attended = FALSE /\ logged = FALSE

-----------------------------------------------------------------------------
CycleBegins == pc = "idle" /\ pc' # "idle"
CycleReturns == pc # "idle" /\ pc' = "idle" /\ err' # "crash"
ProcessEnds == (pc # "idle" /\ pc' = "idle" /\ err' = "crash") \/ (term /\ ~term')

\* slip: the line of a failure is sent past the closure
OnlySuccess(line) ==
  /\ lastStatus' = IF line = Synced THEN line ELSE lastStatus
  /\ shown' = IF line = lastStatus THEN shown ELSE line

\* the status closure: a line is sent if it is another than the one remembered
Status(line) ==
  /\ lastStatus' = line
  /\ shown' = IF line = lastStatus THEN shown ELSE line

\* READY=1 goes out when the first cycle begins, not when it has succeeded
FirstSync ==
  /\ CycleBegins
  /\ ready' = TRUE
  /\ IF ready THEN UNCHANGED <<lastStatus, shown>> ELSE lastStatus' = Watching /\ shown' = Watching
  /\ logged' = FALSE
  /\ UNCHANGED <<lastErr, since, outcome, attended>>

\* slip: the last error is remembered when it is over
Remembered == lastErr

Forgotten == NoError

Success ==
  /\ CycleReturns /\ err' = "none"
  /\ lastErr' = Forgotten
  /\ since' = IF lastErr' = NoError THEN "unset" ELSE "stale"
  /\ Status(Synced)
  /\ outcome' = NoError /\ attended' = FALSE
  /\ logged' = (lastErr # NoError \/ res.committed # {} \/ res.rebased \/ res.pushed)
  /\ UNCHANGED ready

\* slip: a failure of the same kind is the same failure
SameKind(text) == text.kind = lastErr.kind

SameText(text) == text = lastErr

\* the text Sync's error renders to: both pushes word it alike
Text == [kind |-> err', step |-> IF pc = "pushagain" THEN "push" ELSE pc]

\* a text seen before is not logged again, a new one starts failingSince anew
Failed ==
  /\ CycleReturns /\ err' # "none"
  /\ lastErr' = Text
  /\ since' = IF SameText(Text) THEN since ELSE "current"
  /\ Status(FailureStatus(Text, since'))
  /\ outcome' = Text /\ attended' = FALSE
  /\ logged' = ~SameText(Text)
  /\ UNCHANGED ready

\* the error is context.Canceled when the context was cancelled before git was
\* started; wrapped with %w it is still found
Cancelled ==
  /\ CycleReturns /\ term /\ err' \in {"unknown", "remote"}
  /\ logged' = FALSE
  /\ UNCHANGED <<ready, lastErr, since, lastStatus, shown, outcome, attended>>

\* nothing outlives the process, and the service manager clears the line
EndOfProcess ==
  /\ ProcessEnds
  /\ ready' = FALSE /\ lastErr' = NoError /\ since' = "unset"
  /\ lastStatus' = NoStatus /\ shown' = NoStatus
  /\ outcome' = NoError /\ attended' = FALSE /\ logged' = FALSE

Otherwise ==
  /\ ~CycleBegins /\ ~CycleReturns /\ ~ProcessEnds
  /\ attended' = (attended \/ <<op, unmerged, head, hazards>>' # <<op, unmerged, head, hazards>>)
  /\ logged' = FALSE
  /\ UNCHANGED <<ready, lastErr, since, lastStatus, shown, outcome>>

Report == FirstSync \/ Success \/ Failed \/ Cancelled \/ EndOfProcess \/ Otherwise

DNext == Next /\ Report

DSpec == DInit /\ [][DNext]_dvars /\ Fairness

-----------------------------------------------------------------------------
Times == {"unset", "current", "stale"}
Statuses == {NoStatus, Watching, Synced} \cup {FailureStatus(t, s) : t \in Texts, s \in Times}

\* What is said is one of the things runWatch can say.
SaidTypeOK ==
  /\ ready \in BOOLEAN /\ attended \in BOOLEAN /\ logged \in BOOLEAN
  /\ lastErr \in Texts /\ outcome \in Texts
  /\ since \in Times /\ lastStatus \in Statuses /\ shown \in Statuses

\* The status line that is shown always tells how the last cycle went, though a
\* line is sent only if it is not the one remembered: a failure with its own
\* text and a time after the last success, and no failure once a cycle has
\* succeeded (watch.go:50-56, 74, 90).
StatusIsHonest ==
  IF outcome = NoError THEN shown \in {NoStatus, Watching, Synced}
  ELSE shown = FailureStatus(outcome, "current")

\* Of a failure that repeats the first occurrence is logged and no other; one
\* that differs from the last, or comes back after a success, is logged
\* (watch.go:40, lastErr).
LoggedOnce ==
  [][CycleReturns /\ err' # "none" => (logged' <=> outcome' # outcome)]_dvars

\* A repository reported mid-operation or detached stays reported so, cycle
\* after cycle, until the user has done something about it: the daemon never
\* resolves it on its own (kind.go NeedsHuman, syncer.go Sync).
PersistsUntilAttended ==
  [][CycleReturns /\ outcome.kind \in {"busy", "detached"} /\ ~attended /\ hazards' = hazards /\ ~term
     => err' \in {"busy", "detached"}]_dvars

\* Whatever has gone wrong, once it is over the status line says so and does
\* not go back (watch.go:90-96).
RecoveryIsShown == <>[](shown = Synced)
=============================================================================
