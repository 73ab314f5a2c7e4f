---------------------------- MODULE StudioContext ----------------------------
(***************************************************************************)
(* StudioContextController (activation/studioContextController.ts) feeding *)
(* the ContextBridge.  Most events that change the context begin a build,  *)
(* but not all: a tab of a custom editor, a refresh of the workspace and   *)
(* some checks push nothing.  A build reads the editor, awaits the         *)
(* kicad-cli detection, reads the DRC errors, awaits the active variant,   *)
(* and pushes what it has read.  Builds overlap and end in any order.      *)
(*                                                                         *)
(* The workspace is trusted throughout.  What a build reads besides the    *)
(* text editor, the project and the DRC run (viewer selection, variant,    *)
(* MCP state, KiCad version) is left out of the context.                   *)
(***************************************************************************)
EXTENDS ContextBridge

CONSTANTS
  Views,       \* what a build reads at once: active file, cursor, project
  MaxRuns,     \* bound on the DRC runs
  MaxBuilds    \* bound on the builds

ASSUME StudioAssumption ==
  /\ Contexts = Views \X (0 .. MaxRuns)
  /\ MaxRuns \in Nat /\ MaxBuilds \in Nat

VARIABLES
  view,          \* what the editor shows
  drc,           \* the DRC run whose errors a build would read
  owed,          \* checks that have stored their run and have still to push
  builds,        \* the builds begun so far, in order
  cursorTimer,   \* whether cursorPushTimer is armed
  disposed,      \* deactivate() has run
  unseen,        \* history: what changed with no build begun for it since
  slips          \* history: how the build pushed last was overtaken, see Slips

studioVars == <<view, drc, owed, builds, cursorTimer, disposed, unseen, slips>>
allVars    == <<bridgeVars, studioVars>>

\* A build that awaits the detection has not read the DRC run yet.
Builds == [stage : {"detecting", "naming", "done"}, reason : Reasons,
           view : Views, drc : 0 .. MaxRuns]

\* The builds begun and the one that an armed cursor timer will begin.
BuildsBegun == Len(builds) + (IF cursorTimer THEN 1 ELSE 0)

StudioTypeOK ==
  /\ BridgeTypeOK
  /\ view \in Views
  /\ drc \in 0 .. MaxRuns /\ owed \in 0 .. drc
  /\ builds \in Seq(Builds) /\ BuildsBegun <= MaxBuilds
  /\ cursorTimer \in BOOLEAN
  /\ disposed \in BOOLEAN
  /\ unseen \subseteq {"view", "drc"}
  /\ slips \subseteq {"reordered", "returned"}

StudioInit ==
  /\ BridgeInit
  /\ view \in Views
  /\ drc = 0 /\ owed = 0
  /\ builds = <<>>
  /\ cursorTimer = FALSE
  /\ disposed = FALSE
  /\ unseen = {} /\ slips = {}

-----------------------------------------------------------------------------
\* The bound on builds.
Room == BuildsBegun < MaxBuilds

\* pushStudioContext(reason) up to the first await of buildStudioContext: it
\* has read the view, and will read the DRC run.
BeginBuild(reason, v) ==
  /\ builds' = Append(builds, [stage |-> "detecting", reason |-> reason,
                               view |-> v, drc |-> 0])
  /\ unseen' = {}

\* Another text editor becomes active, or the user selects a project.
Focus(v) ==
  /\ ~disposed /\ Room
  /\ view' = v
  /\ BeginBuild("focus", v)
  /\ UNCHANGED <<bridgeVars, drc, owed, cursorTimer, disposed, slips>>

\* Another tab of a custom editor becomes active (onDidChangeTabs), or a refresh
\* of the workspace finds another active project: nothing is pushed.
ChangeUnpushed(v) ==
  /\ ~disposed /\ v # view
  /\ view' = v
  /\ unseen' = unseen \union {"view"}
  /\ UNCHANGED <<bridgeVars, drc, owed, builds, cursorTimer, disposed, slips>>

\* A file is saved, or a variant is created or selected.
Save(reason) ==
  /\ ~disposed /\ Room
  /\ BeginBuild(reason, view)
  /\ UNCHANGED <<bridgeVars, view, drc, owed, cursorTimer, disposed, slips>>

\* A DRC check stores its run.  The push comes after steps that wait for the
\* user ("Start AI analysis?").
DrcEnds ==
  /\ ~disposed /\ drc < MaxRuns
  /\ drc' = drc + 1
  /\ owed' = owed + 1
  /\ UNCHANGED <<bridgeVars, view, builds, cursorTimer, disposed, unseen, slips>>

\* Mutant of DrcPushes: the push is forgotten.
DrcPushesNothing(reason) ==
  /\ Room
  /\ owed > 0
  /\ owed' = owed - 1
  /\ UNCHANGED <<bridgeVars, view, drc, builds, cursorTimer, disposed, unseen, slips>>

\* The check pushes: on save as "drc", from the command as "default".
DrcPushes(reason) ==
  /\ Room
  /\ owed > 0
  /\ owed' = owed - 1
  /\ BeginBuild(reason, view)
  /\ UNCHANGED <<bridgeVars, view, drc, cursorTimer, disposed, slips>>

\* A step before the push fails, or the check is a language model tool's: the
\* run is stored and nothing is pushed.
DrcIsNotPushed ==
  /\ owed > 0
  /\ owed' = owed - 1
  /\ unseen' = unseen \union {"drc"}
  /\ UNCHANGED <<bridgeVars, view, drc, builds, cursorTimer, disposed, slips>>

\* schedulePushStudioContext('cursor'): the debounce timer starts again.
MoveCursor(v) ==
  /\ ~disposed /\ (cursorTimer \/ Room)
  /\ view' = v
  /\ cursorTimer' = TRUE
  /\ UNCHANGED <<bridgeVars, drc, owed, builds, disposed, unseen, slips>>

CursorTimerFires ==
  /\ cursorTimer
  /\ cursorTimer' = FALSE
  /\ BeginBuild("cursor", view)
  /\ UNCHANGED <<bridgeVars, view, drc, owed, disposed, slips>>

\* "await cliDetector.detect()" continues: the DRC errors are read.
Detected(b) ==
  /\ builds[b].stage = "detecting"
  /\ builds' = [builds EXCEPT ![b].stage = "naming", ![b].drc = drc]
  /\ UNCHANGED <<bridgeVars, view, drc, owed, cursorTimer, disposed, unseen, slips>>

BuiltContext(b) == <<builds[b].view, builds[b].drc>>

\* How a push may leave an older context behind it: a later build was handed
\* over before this one, or this one equals what was sent last while another
\* context is still pending.
Slips(b) ==
  {slip \in {"reordered", "returned"} :
     \/ /\ slip = "reordered"
        /\ \E d \in b + 1 .. Len(builds) : builds[d].stage = "done"
     \/ /\ slip = "returned"
        /\ BuiltContext(b) = last /\ pending # None}

\* "await getActiveVariantName()" continues: the built context is pushed.
PushBuilt(b) ==
  /\ builds[b].stage = "naming"
  /\ builds' = [builds EXCEPT ![b].stage = "done"]
  /\ PushContext(BuiltContext(b), builds[b].reason)
  /\ slips' = Slips(b)
  /\ UNCHANGED <<view, drc, owed, cursorTimer, disposed, unseen>>

FlushFires == FlushTimerFires /\ UNCHANGED studioVars

\* deactivate: the subscriptions are disposed, bridge and controller included.
Dispose ==
  /\ ~disposed
  /\ disposed' = TRUE
  /\ DisposeBridge
  /\ cursorTimer' = FALSE
  /\ UNCHANGED <<view, drc, owed, builds, unseen, slips>>

StudioNext ==
  \/ \E v \in Views : Focus(v) \/ ChangeUnpushed(v) \/ MoveCursor(v)
  \/ \E reason \in {"save", "default"} : Save(reason)
  \/ DrcEnds
  \/ \E reason \in {"drc", "default"} : DrcPushes(reason)
  \/ DrcIsNotPushed
  \/ CursorTimerFires
  \/ \E b \in 1 .. Len(builds) : Detected(b) \/ PushBuilt(b)
  \/ FlushFires
  \/ Dispose

\* Timers fire and what a build awaits settles; events need not come, and a
\* notification need not be answered.
StudioFairness ==
  /\ WF_allVars(CursorTimerFires)
  /\ WF_allVars(FlushFires)
  /\ \A b \in 1 .. MaxBuilds :
       WF_allVars(b <= Len(builds) /\ (Detected(b) \/ PushBuilt(b)))

StudioSpec == StudioInit /\ [][StudioNext]_allVars /\ StudioFairness

-----------------------------------------------------------------------------
Current == <<view, drc>>

\* No timer is armed and no build under way.
Idle ==
  /\ ~cursorTimer /\ ~flushTimer
  /\ \A b \in 1 .. Len(builds) : builds[b].stage = "done"

\* What the server has, or will have once the flush timer fires.
Effective == IF pending # None THEN pending ELSE last

Done(b) == builds[b].stage = "done"

\* Unless the push made last left an older context behind it, what is effective
\* is what the latest build that was handed over has read, deactivated or not;
\* nothing is effective before.
LatestBuildIsEffective ==
  slips = {} =>
    /\ (\A b \in 1 .. Len(builds) : ~Done(b)) => Effective = None
    /\ \A b \in 1 .. Len(builds) :
         Done(b) /\ (\A d \in b + 1 .. Len(builds) : ~Done(d))
           => Effective = BuiltContext(b)

\* The latest build has read, or will read, what is there now, unless that
\* changed with nothing pushed for it, is timed, or is a check's that has still
\* to push: the next build of any event makes up for all of them.
LatestBuildIsCurrent ==
  builds # <<>> /\ ~disposed =>
    LET b == Len(builds)
    IN  /\ ~cursorTimer /\ "view" \notin unseen => builds[b].view = view
        /\ builds[b].stage # "detecting" /\ owed = 0 /\ "drc" \notin unseen
             => builds[b].drc = drc

\* However the builds overlap, and through deactivation: controller and bridge
\* keep their types, what is pending has its timer, the hash kept is that of
\* what was sent last, nothing is sent twice in a row, and the latest build has
\* read what is there and is what the server has or will have.
StudioInv ==
  /\ StudioTypeOK
  /\ PendingIsTimed
  /\ LastIsSent
  /\ NoRepeatedSend
  /\ LatestBuildIsCurrent
  /\ LatestBuildIsEffective

\* When everything has run its course, the server has been given exactly the
\* context of the editor and of the latest DRC run, unless something changed
\* since the latest build for which the code pushes nothing, or the push made
\* last left an older context behind it.  Neither the two debounces nor a build
\* that read its halves at different times leaves an outdated one.
IdleIsCurrent ==
  Idle /\ owed = 0 /\ ~disposed /\ unseen = {} /\ slips = {} /\ builds # <<>>
    => last = Current

\* After every burst of events, and after deactivation, the timers and builds
\* run out, and with them what is pending.
AlwaysIdleAgain == []<>Idle
=============================================================================
