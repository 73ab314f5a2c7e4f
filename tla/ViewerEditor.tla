---------------------------- MODULE ViewerEditor ----------------------------
(***************************************************************************)
(* BaseKiCanvasEditorProvider (providers/baseKiCanvasEditorProvider.ts)    *)
(* for one file: its panels, the payload cache, the refreshes in flight,   *)
(* and the status ViewerStateStore keeps of the file (state/stateStores.ts). *)
(*                                                                         *)
(* A payload is built over several awaits: the file's mtime, its content,  *)
(* the cache.  Opening a panel builds one and sets the panel's page; a     *)
(* refresh builds one and posts it to the panels that were visible when it *)
(* began.  Saves, closed and hidden panels come in between.                *)
(*                                                                         *)
(* Every write gives the file a new version, which is also its mtime.      *)
(***************************************************************************)
EXTENDS Integers

CONSTANTS
  Panels,
  MaxVersion,  \* bound on the writes of the file
  MaxBuilds,   \* bound on the payloads being built
  MaxEvents    \* bound on what the user and the file system do

ASSUME ViewerAssumption ==
  /\ MaxVersion \in Nat \ {0}
  /\ MaxBuilds \in Nat \ {0}
  /\ MaxEvents \in Nat

Builds == 1 .. MaxBuilds

VARIABLES
  disk,      \* the version of the file
  auto,      \* the setting viewer.autoRefresh
  panels,    \* panels and panelInfo; shows: the version in the page, 0 before it is set
  release,   \* the panels whose releaseTimer is set
  cache,     \* fileCache: an mtime and the content that was read, or 0
  debounce,  \* refreshDebounce holds a timer
  builds,    \* the payloads being built
  status,    \* the file's status in ViewerStateStore
  wanted,    \* history: the version at the last save that a refresh is to show
  raced,     \* history: panels that more than one build in flight was to fill
  broken,    \* history: a build failed
  events

evars == <<disk, auto, panels, release, cache, debounce, builds, status, wanted, raced,
           broken, events>>

NoCache == [mtime |-> 0, content |-> 0]
NoBuild == [kind |-> "off", at |-> "stat", mtime |-> 0, content |-> 0, to |-> {}]
Closed  == [at |-> "closed", shows |-> 0, pending |-> FALSE]

ViewerTypeOK ==
  /\ disk \in 1 .. MaxVersion /\ auto \in BOOLEAN
  /\ panels \in [Panels -> [at : {"closed", "visible", "hidden"}, shows : 0 .. MaxVersion,
                            pending : BOOLEAN]]
  /\ release \in SUBSET Panels
  /\ cache \in [mtime : 0 .. MaxVersion, content : 0 .. MaxVersion]
  /\ debounce \in BOOLEAN
  /\ builds \in [Builds -> [kind : {"off", "open", "refresh"},
                            at : {"stat", "read", "store", "post"},
                            mtime : 0 .. MaxVersion, content : 0 .. MaxVersion,
                            to : SUBSET Panels]]
  /\ status \in {"idle", "loading", "ready", "error"}
  /\ wanted \in 0 .. MaxVersion
  /\ raced \in SUBSET Panels /\ broken \in BOOLEAN
  /\ events \in 0 .. MaxEvents

ViewerInit ==
  /\ disk = 1 /\ auto \in BOOLEAN
  /\ panels = [p \in Panels |-> Closed] /\ release = {}
  /\ cache = NoCache /\ debounce = FALSE
  /\ builds = [b \in Builds |-> NoBuild]
  /\ status = "idle"
  /\ wanted = 0 /\ raced = {} /\ broken = FALSE /\ events = 0

Event == events < MaxEvents /\ events' = events + 1

Visible == {p \in Panels : panels[p].at = "visible"}
Hidden  == {p \in Panels : panels[p].at = "hidden"}

-----------------------------------------------------------------------------
(***************************************************************************)
(* Building a payload.                                                     *)
(***************************************************************************)

\* Builds have no identity: a new one takes the first free place.
Begin(b, kind, to) ==
  /\ builds[b].kind = "off" /\ \A c \in 1 .. b - 1 : builds[c].kind # "off"
  /\ builds' = [builds EXCEPT ![b] = [NoBuild EXCEPT !.kind = kind, !.to = to]]
  /\ raced' = raced \union {p \in to : \E c \in Builds : p \in builds[c].to}

\* stat, and the cache if the mtime is the one it was stored with.
Stat(b) ==
  /\ builds[b].kind # "off" /\ builds[b].at = "stat"
  /\ builds' = [builds EXCEPT ![b].mtime = disk,
                              ![b].at = IF cache.mtime = disk THEN "post" ELSE "read",
                              ![b].content = IF cache.mtime = disk THEN cache.content ELSE 0]
  /\ UNCHANGED <<disk, auto, panels, release, cache, debounce, status, wanted, raced, broken,
                 events>>

Read(b) ==
  /\ builds[b].kind # "off" /\ builds[b].at = "read"
  /\ builds' = [builds EXCEPT ![b].content = disk, ![b].at = "store"]
  /\ UNCHANGED <<disk, auto, panels, release, cache, debounce, status, wanted, raced, broken,
                 events>>

\* Mutant of Store: the content is stored with the mtime at the end of the read.
StoreWithLateMtime(b) ==
  /\ builds[b].kind # "off" /\ builds[b].at = "store"
  /\ cache' = [mtime |-> disk, content |-> builds[b].content]
  /\ builds' = [builds EXCEPT ![b].at = "post"]
  /\ UNCHANGED <<disk, auto, panels, release, debounce, status, wanted, raced, broken, events>>

\* The content is stored with the mtime from before the read, even when the
\* cache was invalidated or filled by another build meanwhile.
Store(b) ==
  /\ builds[b].kind # "off" /\ builds[b].at = "store"
  /\ cache' = [mtime |-> builds[b].mtime, content |-> builds[b].content]
  /\ builds' = [builds EXCEPT ![b].at = "post"]
  /\ UNCHANGED <<disk, auto, panels, release, debounce, status, wanted, raced, broken, events>>

\* One panel gets the payload: its page is set, or a message is posted to it.  A
\* message to a page that is not set yet is lost.
Delivered(b, p) ==
  [panels EXCEPT ![p].shows =
     IF builds[b].kind = "open" \/ @ # 0 THEN builds[b].content ELSE @]

Sole(b, p) == \A c \in Builds \ {b} : p \notin builds[c].to

\* What is left of build b when p has been served.
Rest(b, p) ==
  IF builds[b].to = {p} THEN NoBuild ELSE [builds[b] EXCEPT !.to = @ \ {p}]

Post(b, p) ==
  /\ builds[b].at = "post" /\ p \in builds[b].to
  /\ panels[p].at # "closed"
  /\ panels' = Delivered(b, p)
  /\ builds' = [builds EXCEPT ![b] = Rest(b, p)]
  /\ raced' = IF Sole(b, p) /\ panels'[p].shows = builds[b].content /\ builds[b].content = disk
                THEN raced \ {p} ELSE raced
  /\ UNCHANGED <<disk, auto, release, cache, debounce, status, wanted, broken, events>>

\* The file system fails, or a panel has been closed: postMessage throws, and the
\* panels after it get nothing.
BuildFails(b) ==
  /\ builds[b].kind # "off"
  /\ \/ builds[b].at \in {"stat", "read"} /\ Event
     \/ /\ builds[b].at = "post" /\ \E p \in builds[b].to : panels[p].at = "closed"
        /\ UNCHANGED events
  /\ builds' = [builds EXCEPT ![b] = NoBuild]
  /\ status' = "error"
  /\ broken' = TRUE
  /\ UNCHANGED <<disk, auto, panels, release, cache, debounce, wanted, raced>>

-----------------------------------------------------------------------------
(***************************************************************************)
(* refreshDocument and what calls it.                                      *)
(***************************************************************************)

\* Mutant of RefreshDocument: hidden panels are passed over.
RefreshVisibleOnly(now) ==
  IF \A p \in Panels : now[p].at # "visible"
    THEN panels' = now /\ UNCHANGED <<builds, raced, status>>
    ELSE /\ panels' = now
         /\ status' = "loading"
         /\ \E b \in Builds : Begin(b, "refresh", {p \in Panels : now[p].at = "visible"})

\* Hidden panels are marked, and visible ones are served by one build.
RefreshDocument(now) ==
  /\ panels' = [p \in Panels |-> [now[p] EXCEPT !.pending = @ \/ now[p].at = "hidden"]]
  /\ IF \A p \in Panels : now[p].at # "visible"
       THEN UNCHANGED <<builds, raced, status>>
       ELSE /\ status' = "loading"
            /\ \E b \in Builds : Begin(b, "refresh", {p \in Panels : now[p].at = "visible"})

DebounceFires ==
  /\ debounce /\ debounce' = FALSE
  /\ RefreshDocument(panels)
  /\ UNCHANGED <<disk, auto, release, cache, wanted, broken, events>>

\* The 'requestRefresh' message of a page.
RequestRefresh(p) ==
  /\ Event
  /\ panels[p].at = "visible" /\ panels[p].shows # 0
  /\ RefreshDocument(panels)
  /\ UNCHANGED <<disk, auto, release, cache, debounce, wanted, broken>>

-----------------------------------------------------------------------------
(***************************************************************************)
(* Panels.                                                                 *)
(***************************************************************************)

\* resolveCustomEditor: the panel is tracked, then its page is built.
Open(p) ==
  /\ Event
  /\ panels[p].at = "closed"
  /\ \A b \in Builds : p \notin builds[b].to  \* a panel that is opened is a new one
  /\ panels' = [panels EXCEPT ![p] = [Closed EXCEPT !.at = "visible"]]
  /\ \E b \in Builds : Begin(b, "open", {p})
  /\ UNCHANGED <<disk, auto, release, cache, debounce, status, wanted, broken>>

Close(p) ==
  /\ Event
  /\ panels[p].at # "closed"
  /\ panels' = [panels EXCEPT ![p] = Closed]
  /\ release' = release \ {p} /\ raced' = raced \ {p}
  /\ UNCHANGED <<disk, auto, cache, debounce, builds, status, wanted, broken>>

Hide(p) ==
  /\ Event
  /\ panels[p].at = "visible"
  /\ panels' = [panels EXCEPT ![p].at = "hidden"]
  /\ release' = release \union {p}
  /\ UNCHANGED <<disk, auto, cache, debounce, builds, status, wanted, raced, broken>>

\* A refresh that was put off is made up for: by a refresh of the file.
Show(p) ==
  /\ panels[p].at = "hidden"
  /\ release' = release \ {p}
  /\ IF panels[p].pending
       THEN RefreshDocument([panels EXCEPT ![p].at = "visible", ![p].pending = FALSE])
       ELSE panels' = [panels EXCEPT ![p].at = "visible"] /\ UNCHANGED <<builds, raced, status>>
  /\ UNCHANGED <<disk, auto, cache, debounce, wanted, broken, events>>

\* A panel was hidden for long.
ReleaseCache(p) ==
  /\ p \in release /\ release' = release \ {p}
  /\ cache' = NoCache
  /\ UNCHANGED <<disk, auto, panels, debounce, builds, status, wanted, raced, broken, events>>

\* 'viewerState', 'selectionChanged' and 'componentSelected' messages of a page.
PageReports(p) ==
  /\ panels[p].at # "closed" /\ panels[p].shows # 0
  /\ status' = "ready"
  /\ UNCHANGED <<disk, auto, panels, release, cache, debounce, builds, wanted, raced, broken,
                 events>>

-----------------------------------------------------------------------------
(***************************************************************************)
(* The file.                                                               *)
(***************************************************************************)

\* Saved in an editor: the cache is dropped and a refresh is due, or due anew.
Save ==
  /\ Event /\ disk < MaxVersion
  /\ disk' = disk + 1
  /\ cache' = NoCache
  /\ debounce' = (debounce \/ auto)
  /\ wanted' = IF auto THEN disk' ELSE wanted
  /\ UNCHANGED <<auto, panels, release, builds, status, raced, broken>>

\* Written by KiCad: no event tells.
WrittenElsewhere ==
  /\ Event /\ disk < MaxVersion
  /\ disk' = disk + 1
  /\ UNCHANGED <<auto, panels, release, cache, debounce, builds, status, wanted, raced, broken>>

BuildStep(b) == Stat(b) \/ Read(b) \/ Store(b) \/ \E p \in Panels : Post(b, p)

ViewerNext ==
  \/ \E b \in Builds : BuildStep(b) \/ BuildFails(b)
  \/ DebounceFires \/ Save \/ WrittenElsewhere
  \/ \E p \in Panels : \/ Open(p) \/ Close(p) \/ Hide(p) \/ Show(p)
                       \/ RequestRefresh(p) \/ ReleaseCache(p) \/ PageReports(p)

\* The file system answers, the webview takes messages, the timer fires.
ViewerFairness ==
  /\ \A b \in Builds : WF_evars(BuildStep(b))
  /\ WF_evars(DebounceFires)

ViewerSpec == ViewerInit /\ [][ViewerNext]_evars /\ ViewerFairness

-----------------------------------------------------------------------------
(***************************************************************************)
(* Properties.                                                             *)
(***************************************************************************)

\* Builds, saves, writes from elsewhere and timers may touch the cache in any
\* order: what is cached under an mtime is never older than what the file was
\* then, so what is cached under its present mtime is its present content.
CacheIsNoOlderThanItsMtime ==
  /\ cache.mtime <= cache.content /\ cache.content <= disk
  /\ cache.mtime = 0 <=> cache.content = 0

\* The same of the payloads on their way to the cache.
BuildsReadAfterTheirMtime ==
  \A b \in Builds :
    /\ builds[b].mtime <= disk /\ builds[b].content <= disk
    /\ builds[b].at # "stat" => builds[b].mtime > 0
    /\ builds[b].at = "store" => builds[b].mtime <= builds[b].content
    /\ builds[b].at = "post" => builds[b].content > 0

ViewerInv == ViewerTypeOK /\ CacheIsNoOlderThanItsMtime /\ BuildsReadAfterTheirMtime

\* A build whose panels are to get the last save, or a newer version.
Fresh(b) == builds[b].at \in {"stat", "read"} \/ builds[b].content >= wanted

\* No save is passed over, whatever builds, closed and hidden panels it meets: a
\* visible panel that is behind it has a build in flight that brings it, or a timer
\* that will begin one, unless a build failed or builds for the panel raced.
PanelsBehindAreServed ==
  \A p \in Panels :
    panels[p].at = "visible" /\ panels[p].shows < wanted =>
      \/ broken \/ p \in raced \/ debounce
      \/ \E b \in Builds : p \in builds[b].to /\ Fresh(b)

ShowsWanted(p) == panels[p].at = "visible" => panels[p].shows >= wanted

\* A panel that is visible comes to show the last save, whether it was visible
\* or hidden at the time: unless a build failed, or two builds for the panel
\* were in flight together and none for it has ended alone since.
VisiblePanelsCatchUp == <>[](broken \/ \A p \in Panels : p \in raced \/ ShowsWanted(p))
=============================================================================
