-------------------------- MODULE WorkspaceContext --------------------------
(***************************************************************************)
(* WorkspaceContextController (activation/workspaceContextController.ts)   *)
(* with what it works on: project discovery (workspace/projectContext.ts), *)
(* the project store, and the CLI detector's caches.                       *)
(*                                                                         *)
(* A refresh reads the workspace over several awaits, publishes what it    *)
(* read in one step, and then sets context keys and the status bar.        *)
(* Requests that meet a refresh in flight are coalesced into one more run. *)
(* Meanwhile projects appear and disappear, the user selects a project,    *)
(* changes the configuration or grants trust, and the window is reloaded.  *)
(*                                                                         *)
(* A workspace folder holds one project; what lies on disk, the focus and  *)
(* the configuration change at most MaxEvents times.                       *)
(***************************************************************************)
EXTENDS Integers, Sequences

CONSTANTS
  Folders,    \* the workspace folders in order, each named after its project
  Clis,       \* the kicad-cli versions detection may come upon
  MaxEvents,  \* bound on what the user and the file system do
  None

Projects == {Folders[i] : i \in 1 .. Len(Folders)}

ASSUME WorkspaceAssumption ==
  /\ Folders \in Seq(Projects)
  /\ None \notin Projects /\ None \notin Clis
  /\ MaxEvents \in Nat

VARIABLES
  disk,       \* the projects that are on disk
  focus,      \* the project the active resource lies in
  setting,    \* the CLI that detection finds under the current configuration
  trusted,    \* isWorkspaceTrusted()
  watched,    \* a .kicad_pro came or went and the watcher has not said so yet
  timers,     \* the debounce timers that are set
  stage,      \* how far doRefreshContexts is; "idle" is refreshInFlight = false
  queued,     \* refreshQueued
  run,        \* the locals of the refresh in flight
  store,      \* ProjectStateStore
  listed,     \* history: the projects that a list of this window has had
  persisted,  \* ACTIVE_PROJECT_STORAGE_KEY in workspaceState
  selecting,  \* selectActiveProject calls that await workspaceState.update
  detected,   \* KiCadCliDetector.detected
  allegro,    \* allegroSupported: the CLI whose answer is cached
  keys,       \* the context keys
  barName,    \* activeProjectName of the status bar
  failed,     \* the last refresh threw
  gone,       \* history: projects off the disk at some time since it began
  events

world   == <<disk, focus, setting, trusted>>
flags   == <<timers, stage, queued, run>>
caches  == <<detected, allegro>>
wvars   == <<world, watched, flags, store, listed, persisted, selecting, caches,
             keys, barName, failed, gone, events>>

Stages == {"idle", "scanning", "asking-provider", "asking-variants", "publishing"}

Maybe(S) == S \union {None}

WorkspaceTypeOK ==
  /\ disk \in SUBSET Projects /\ focus \in Maybe(Projects)
  /\ setting \in Maybe(Clis) /\ trusted \in BOOLEAN
  /\ watched \in BOOLEAN
  /\ timers \in SUBSET {"context", "projects"}
  /\ stage \in Stages /\ queued \in BOOLEAN
  /\ run \in [uri : Maybe(Projects), next : 1 .. Len(Folders) + 1,
              found : SUBSET Projects, trusted : BOOLEAN, cli : Maybe(Clis),
              allegro : Maybe(Clis), name : Maybe(Projects)]
  /\ store \in [projects : SUBSET Projects, active : Maybe(Projects), trusted : BOOLEAN]
  /\ listed \in SUBSET Projects
  /\ persisted \in Maybe(Projects)
  /\ selecting \in Seq(Projects)
  /\ detected \in Maybe(Clis) /\ allegro \in Maybe(Clis)
  /\ keys \in [focus : Maybe(Projects), cli : Maybe(Clis), allegro : Maybe(Clis),
               trusted : BOOLEAN]
  /\ barName \in Maybe(Projects)
  /\ failed \in BOOLEAN
  /\ gone \in SUBSET Projects
  /\ events \in 0 .. MaxEvents

NewRun(uri) == [uri |-> uri, next |-> 1, found |-> {}, trusted |-> FALSE,
                cli |-> None, allegro |-> None, name |-> None]

EmptyStore == [projects |-> {}, active |-> None, trusted |-> FALSE]
EmptyKeys  == [focus |-> None, cli |-> None, allegro |-> None, trusted |-> FALSE]

\* activate() ends with a refresh.
WorkspaceInit ==
  /\ disk \in SUBSET Projects /\ focus \in Maybe(Projects)
  /\ setting \in Maybe(Clis) /\ trusted \in BOOLEAN
  /\ watched = FALSE /\ timers = {}
  /\ stage = "scanning" /\ queued = FALSE /\ run = NewRun(focus)
  /\ store = EmptyStore /\ listed = {} /\ persisted = None /\ selecting = << >>
  /\ detected = None /\ allegro = None
  /\ keys = EmptyKeys /\ barName = None
  /\ failed = FALSE
  /\ gone = Projects \ disk
  /\ events = 0

-----------------------------------------------------------------------------
(***************************************************************************)
(* refreshContexts and its coalescing.                                     *)
(***************************************************************************)

BeginRun ==
  /\ stage' = "scanning"
  /\ run' = NewRun(focus)
  /\ gone' = Projects \ disk

\* Mutant of Refresh: a request that meets a refresh in flight is dropped.
RefreshUnlessBusy ==
  /\ IF stage = "idle" THEN BeginRun ELSE UNCHANGED <<stage, run, gone>>
  /\ UNCHANGED queued

Refresh ==
  IF stage = "idle"
    THEN BeginRun /\ UNCHANGED queued
    ELSE queued' = TRUE /\ UNCHANGED <<stage, run, gone>>

\* The finally block.
EndRun ==
  /\ queued' = FALSE
  /\ IF queued THEN BeginRun
               ELSE stage' = "idle" /\ UNCHANGED <<run, gone>>

\* A timer that is set again starts anew; a set timer is all that matters here.
ContextTimer ==
  /\ "context" \in timers
  /\ timers' = timers \ {"context"}
  /\ Refresh
  /\ UNCHANGED <<world, watched, store, listed, persisted, selecting, caches, keys, barName,
                 failed, events>>

\* The tree and the variants are refreshed too; they keep no state modelled here.
ProjectTimer ==
  /\ "projects" \in timers
  /\ timers' = timers \ {"projects"}
  /\ Refresh
  /\ UNCHANGED <<world, watched, store, listed, persisted, selecting, caches, keys, barName,
                 failed, events>>

-----------------------------------------------------------------------------
(***************************************************************************)
(* doRefreshContexts, one action between two awaits.                       *)
(***************************************************************************)

\* collectProjectFiles of the next folder.
ScanFolder ==
  /\ stage = "scanning" /\ run.next <= Len(Folders)
  /\ run' = [run EXCEPT !.next = @ + 1,
                        !.found = @ \union ({Folders[run.next]} \intersect disk)]
  /\ UNCHANGED <<world, watched, timers, stage, queued, store, listed, persisted, selecting,
                 caches, keys, barName, failed, gone, events>>

\* Mutant of ReadTrust: the last folder is not waited for.
ReadTrustEarly ==
  /\ stage = "scanning" /\ run.next >= Len(Folders)
  /\ stage' = "asking-provider"
  /\ run' = [run EXCEPT !.trusted = trusted]
  /\ UNCHANGED <<world, watched, timers, queued, store, listed, persisted, selecting, caches,
                 keys, barName, failed, gone, events>>

ReadTrust ==
  /\ stage = "scanning" /\ run.next > Len(Folders)
  /\ stage' = "asking-provider"
  /\ run' = [run EXCEPT !.trusted = trusted]
  /\ UNCHANGED <<world, watched, timers, queued, store, listed, persisted, selecting, caches,
                 keys, barName, failed, gone, events>>

\* detect(): what was found once is kept, nothing found is not.
Detect == IF detected # None THEN detected ELSE setting

\* detectAllegroImportSupport asks the same CLI, unless an answer is cached.
ProbeCli ==
  /\ stage = "asking-provider"
  /\ stage' = "asking-variants"
  /\ IF run.trusted /\ Detect # None
       THEN /\ detected' = Detect
            /\ allegro' = IF allegro # None THEN allegro ELSE Detect
            /\ run' = [run EXCEPT !.cli = Detect, !.allegro = allegro']
       ELSE UNCHANGED <<run, caches>>
  /\ UNCHANGED <<world, watched, timers, queued, store, listed, persisted, selecting, keys,
                 barName, failed, gone, events>>

Position(p) == CHOOSE i \in 1 .. Len(Folders) : Folders[i] = p

\* Mutant of PickActiveProject: the resource is asked before the selection.
PickByResource(projects, previous, stored, uri) ==
  IF projects = {} THEN None
  ELSE IF uri \in projects THEN uri
  ELSE IF previous \in projects THEN previous
  ELSE IF stored \in projects THEN stored
  ELSE CHOOSE p \in projects : \A q \in projects : Position(p) <= Position(q)

PickActiveProject(projects, previous, stored, uri) ==
  IF projects = {} THEN None
  ELSE IF previous \in projects THEN previous
  ELSE IF stored \in projects THEN stored
  ELSE IF uri \in projects THEN uri
  ELSE CHOOSE p \in projects : \A q \in projects : Position(p) <= Position(q)

\* The previous selection is read now, not when the refresh began.
Publish ==
  /\ stage = "asking-variants"
  /\ stage' = "publishing"
  /\ LET active == PickActiveProject(run.found, store.active, persisted, run.uri)
     IN  /\ store' = [projects |-> run.found, active |-> active, trusted |-> run.trusted]
         /\ run' = [run EXCEPT !.name = active]
  /\ listed' = listed \union run.found
  /\ UNCHANGED <<world, watched, timers, queued, persisted, selecting, caches, keys,
                 barName, failed, gone, events>>

\* Ten setContext calls and the status bar: all from the locals of the refresh,
\* except the trust, which is read again.
SetKeys ==
  /\ stage = "publishing"
  /\ keys' = [focus |-> run.uri, cli |-> run.cli, allegro |-> run.allegro,
              trusted |-> trusted]
  /\ barName' = run.name
  /\ failed' = FALSE
  /\ EndRun
  /\ UNCHANGED <<world, watched, timers, store, listed, persisted, selecting, caches, events>>

\* A file search, the AI provider or a setContext call is rejected.
RefreshFails ==
  /\ stage # "idle" /\ events < MaxEvents
  /\ events' = events + 1
  /\ failed' = TRUE
  /\ EndRun
  /\ UNCHANGED <<world, watched, timers, store, listed, persisted, selecting, caches, keys, barName>>

-----------------------------------------------------------------------------
(***************************************************************************)
(* selectActiveProject: workspaceState.update is awaited; its promises are *)
(* resolved in the order of the calls.  A tree item or a pick holds its    *)
(* project, which may have left the list since: nothing asks for it again. *)
(***************************************************************************)
Select(p) ==
  /\ events < MaxEvents
  /\ events' = events + 1
  /\ p \in listed
  /\ persisted' = p
  /\ selecting' = Append(selecting, p)
  /\ UNCHANGED <<world, watched, flags, store, listed, caches, keys, barName, failed, gone>>

SelectResumes ==
  /\ selecting # << >>
  /\ selecting' = Tail(selecting)
  /\ store' = [store EXCEPT !.active = Head(selecting)]
  /\ barName' = Head(selecting)
  /\ UNCHANGED <<world, watched, flags, listed, persisted, caches, keys, failed, gone, events>>

-----------------------------------------------------------------------------
(***************************************************************************)
(* What happens around the controller.                                     *)
(***************************************************************************)
Event == events < MaxEvents /\ events' = events + 1

\* .kicad_pro files are created or deleted, and the watcher tells later.
DiskChanges(D) ==
  /\ Event
  /\ D # disk
  /\ disk' = D /\ watched' = TRUE
  /\ gone' = gone \union (Projects \ D)
  /\ UNCHANGED <<focus, setting, trusted, flags, store, listed, persisted, selecting, caches, keys,
                 barName, failed>>

WatcherTells ==
  /\ watched
  /\ watched' = FALSE
  /\ timers' = timers \union {"projects"}
  /\ UNCHANGED <<world, stage, queued, run, store, listed, persisted, selecting, caches, keys,
                 barName, failed, gone, events>>

\* Another editor or tab, or a save.
FocusChanges(f) ==
  /\ Event
  /\ focus' = f
  /\ timers' = timers \union {"context"}
  /\ UNCHANGED <<disk, setting, trusted, watched, stage, queued, run, store, listed, persisted,
                 selecting, caches, keys, barName, failed, gone>>

\* Mutant of ConfigurationChanges: the capability probe stays cached.
ConfigurationChangesKeepingProbe(c) ==
  /\ Event
  /\ setting' = c
  /\ detected' = None
  /\ timers' = timers \union {"context"}
  /\ UNCHANGED <<disk, focus, trusted, watched, stage, queued, run, store, listed, persisted,
                 selecting, allegro, keys, barName, failed, gone>>

\* clearCache and invalidateProbeCache.
ConfigurationChanges(c) ==
  /\ Event
  /\ setting' = c
  /\ detected' = None /\ allegro' = None
  /\ timers' = timers \union {"context"}
  /\ UNCHANGED <<disk, focus, trusted, watched, stage, queued, run, store, listed, persisted,
                 selecting, keys, barName, failed, gone>>

\* detect() for the status bar, and a refresh at once.
TrustGranted ==
  /\ Event
  /\ ~trusted /\ trusted' = TRUE
  /\ detected' = Detect
  /\ Refresh
  /\ UNCHANGED <<disk, focus, setting, watched, timers, store, listed, persisted, selecting, allegro,
                 keys, barName, failed>>

\* A command (a key stored, a variant created) refreshes at once.
CommandRefreshes ==
  /\ Event
  /\ Refresh
  /\ UNCHANGED <<world, watched, timers, store, listed, persisted, selecting, caches, keys, barName,
                 failed>>

\* dispose(), and activation in a new extension host.
Reload ==
  /\ Event
  /\ watched' = FALSE /\ timers' = {}
  /\ BeginRun /\ queued' = FALSE
  /\ store' = EmptyStore /\ listed' = {} /\ selecting' = << >>
  /\ detected' = None /\ allegro' = None
  /\ keys' = EmptyKeys /\ barName' = None
  /\ failed' = FALSE
  /\ UNCHANGED <<world, persisted>>

RefreshStep == ScanFolder \/ ReadTrust \/ ProbeCli \/ Publish \/ SetKeys

WorkspaceNext ==
  \/ ContextTimer \/ ProjectTimer \/ WatcherTells
  \/ RefreshStep \/ RefreshFails
  \/ SelectResumes \/ \E p \in Projects : Select(p)
  \/ \E D \in SUBSET Projects : DiskChanges(D)
  \/ \E f \in Maybe(Projects) : FocusChanges(f)
  \/ \E c \in Maybe(Clis) : ConfigurationChanges(c)
  \/ TrustGranted \/ CommandRefreshes \/ Reload

\* Timers fire once nothing sets them again (events are bounded), the watcher
\* tells, and what is awaited is answered.  The user need not do anything.
WorkspaceFairness ==
  /\ WF_wvars(ContextTimer) /\ WF_wvars(ProjectTimer) /\ WF_wvars(WatcherTells)
  /\ WF_wvars(RefreshStep) /\ WF_wvars(SelectResumes)

WorkspaceSpec == WorkspaceInit /\ [][WorkspaceNext]_wvars /\ WorkspaceFairness

-----------------------------------------------------------------------------
(***************************************************************************)
(* Properties.                                                             *)
(***************************************************************************)

\* What a refresh has scanned so far misses only projects that were off the disk
\* at some time since it began, however the disk changes while it reads.
ScanMissesOnlyGone ==
  stage # "idle" =>
    /\ Projects \ disk \subseteq gone
    /\ \A i \in 1 .. run.next - 1 : Folders[i] \in run.found \union gone
    /\ stage # "scanning" => run.next = Len(Folders) + 1

\* The inductive invariant.
WorkspaceInv == WorkspaceTypeOK /\ ScanMissesOnlyGone

\* The active project is never taken from the user: another one becomes active
\* only by being selected, or because a refresh in flight may have missed the
\* active one while it was off the disk, and a reload restores the last
\* selection.  However long a refresh has been reading, a selection made
\* meanwhile is kept.
SelectionIsKept ==
  [][store'.active # store.active /\ store' # EmptyStore =>
       \/ selecting # << >> /\ store'.active = Head(selecting)
       \/ store.active # None /\ store.active \in gone
       \/ store.active = None /\ store'.active = persisted
       \/ store.active = None /\ persisted \in Maybe(gone)]_wvars

\* What the store promises its readers, implemented with no more than this.
View == INSTANCE ActiveProject
          WITH projects <- store.projects, active <- store.active,
               saved <- persisted, chosen <- selecting

\* Reads over several awaits, coalesced refreshes and reloads are not visible in
\* the store: it is one list that changes as a whole, with the user's choices
\* applied in their order.
ImplementsActiveProject == View!ActiveSpec

Current ==
  /\ store.projects = disk
  /\ store.trusted = trusted
  /\ keys = [focus |-> focus, trusted |-> trusted,
             cli |-> IF trusted THEN setting ELSE None,
             allegro |-> IF trusted THEN setting ELSE None]

\* No request is lost and no cache outlives the configuration it is of: when no
\* refresh is in flight or due, the list, the trust, and the context keys of the
\* focus, the CLI, the allegro import and the trust are current, unless the last
\* refresh threw.  Of the status bar see BarNamesActiveProject.
QuietIsCurrent == stage = "idle" /\ timers = {} /\ ~watched => failed \/ Current

\* Whatever comes while refreshes are in flight, queued or debounced, once
\* nothing comes any more the store and the context keys agree with the disk,
\* the focus, the configured CLI and the trust, unless the last refresh threw:
\* no request is lost, and no cache outlives the configuration it is of.
EventuallyCurrent == <>[](failed \/ Current)

\* 'The active project name is shown in the status bar.'
\* (docs/getting-started.md:49): when nothing is in flight or due, and the last
\* refresh did not throw, the status bar has the name of the active project.
BarNamesActiveProject ==
  stage = "idle" /\ timers = {} /\ selecting = << >> => failed \/ barName = store.active
=============================================================================
