-------------------------- MODULE ViewerEditorProofs --------------------------
(***************************************************************************)
(* Proofs about ViewerEditor, for any number of panels, writes and builds. *)
(***************************************************************************)
EXTENDS ViewerEditor, TLAPS

PanelType == [at : {"closed", "visible", "hidden"}, shows : 0 .. MaxVersion, pending : BOOLEAN]

BuildType == [kind : {"off", "open", "refresh"}, at : {"stat", "read", "store", "post"},
              mtime : 0 .. MaxVersion, content : 0 .. MaxVersion, to : SUBSET Panels]

CacheType == [mtime : 0 .. MaxVersion, content : 0 .. MaxVersion]

\* What the invariant asks of one payload when the file has version d.
Sound(build, d) ==
  /\ build.mtime <= d /\ build.content <= d
  /\ build.at # "stat" => build.mtime > 0
  /\ build.at = "store" => build.mtime <= build.content
  /\ build.at = "post" => build.content > 0

-----------------------------------------------------------------------------
\* A place that is free, or freed, is a sound payload of the type.
LEMMA NoBuildSound ==
  ASSUME NEW d \in Nat
  PROVE  NoBuild \in BuildType /\ Sound(NoBuild, d)
BY ViewerAssumption DEF NoBuild, BuildType, Sound

\* A new build starts with nothing read, in a place of its own.
LEMMA BegunBuild ==
  ASSUME ViewerInv, NEW b \in Builds, NEW kind \in {"open", "refresh"}, NEW to \in SUBSET Panels,
         Begin(b, kind, to)
  PROVE  /\ builds' \in [Builds -> BuildType]
         /\ \A c \in Builds : Sound(builds'[c], disk)
         /\ raced' \in SUBSET Panels
<1>1. builds \in [Builds -> BuildType] /\ raced \in SUBSET Panels /\ disk \in Nat
  BY ViewerAssumption DEF ViewerInv, ViewerTypeOK, BuildType
<1>2. \A c \in Builds : Sound(builds[c], disk)
  BY DEF ViewerInv, BuildsReadAfterTheirMtime, Sound
<1> DEFINE new == [NoBuild EXCEPT !.kind = kind, !.to = to]
<1>3. new \in BuildType /\ Sound(new, disk)
  <2>1. NoBuild \in BuildType
    BY <1>1, NoBuildSound
  <2>2. new \in BuildType /\ new.at = NoBuild.at
        /\ new.mtime = NoBuild.mtime /\ new.content = NoBuild.content
    BY ONLY <2>1, kind \in {"off", "open", "refresh"}, to \in SUBSET Panels DEF BuildType
  <2> QED
    BY ONLY <2>2, <1>1, disk \in Nat, NoBuildSound DEF Sound
<1>4. builds' = [builds EXCEPT ![b] = new]
  BY DEF Begin
<1> HIDE DEF new
<1>5. builds' \in [Builds -> BuildType]
  BY <1>1, <1>3, <1>4
<1>6. \A c \in Builds : Sound(builds'[c], disk)
  BY <1>1, <1>2, <1>3, <1>4
<1>7. raced' \in SUBSET Panels
  BY <1>1 DEF Begin
<1> QED
  BY <1>5, <1>6, <1>7

\* refreshDocument marks panels and begins at most one build.
LEMMA RefreshSound ==
  ASSUME ViewerInv, NEW now \in [Panels -> PanelType], RefreshDocument(now)
  PROVE  /\ panels' \in [Panels -> PanelType]
         /\ builds' \in [Builds -> BuildType]
         /\ \A c \in Builds : Sound(builds'[c], disk)
         /\ raced' \in SUBSET Panels
         /\ status' \in {"idle", "loading", "ready", "error"}
<1>1. panels' \in [Panels -> PanelType]
  <2>1. \A p \in Panels : [now[p] EXCEPT !.pending = @ \/ now[p].at = "hidden"] \in PanelType
    <3> SUFFICES ASSUME NEW p \in Panels
                 PROVE  [now[p] EXCEPT !.pending = @ \/ now[p].at = "hidden"] \in PanelType
      OBVIOUS
    <3>1. now[p] \in PanelType
      OBVIOUS
    <3>2. (now[p].pending \/ now[p].at = "hidden") \in BOOLEAN
      BY Zenon
    <3> QED
      BY <3>1, <3>2 DEF PanelType
  <2> QED
    BY <2>1 DEF RefreshDocument
<1>2. CASE \A p \in Panels : now[p].at # "visible"
  <2>1. UNCHANGED <<builds, raced, status>>
    BY <1>2 DEF RefreshDocument
  <2> QED
    BY <1>1, <2>1 DEF ViewerInv, ViewerTypeOK, BuildsReadAfterTheirMtime, Sound, BuildType
<1>3. CASE ~ \A p \in Panels : now[p].at # "visible"
  <2> DEFINE to == {p \in Panels : now[p].at = "visible"}
  <2>1. PICK b \in Builds : Begin(b, "refresh", to)
    BY <1>3 DEF RefreshDocument
  <2>2. status' = "loading"
    BY <1>3 DEF RefreshDocument
  <2>3. to \in SUBSET Panels
    OBVIOUS
  <2> HIDE DEF to
  <2> QED
    BY <1>1, <2>1, <2>2, <2>3, BegunBuild
<1> QED
  BY <1>2, <1>3

-----------------------------------------------------------------------------
\* The three parts of the invariant, put together after a step that leaves the
\* file and the cache as they are.
LEMMA SameFile ==
  ASSUME ViewerInv, UNCHANGED <<disk, auto, cache, wanted>>,
         panels' \in [Panels -> PanelType], release' \in SUBSET Panels,
         builds' \in [Builds -> BuildType],
         \A c \in Builds : Sound(builds'[c], disk),
         raced' \in SUBSET Panels,
         status' \in {"idle", "loading", "ready", "error"},
         debounce' \in BOOLEAN, broken' \in BOOLEAN, events' \in 0 .. MaxEvents
  PROVE  ViewerInv'
<1>1. ViewerTypeOK'
  BY DEF ViewerInv, ViewerTypeOK, PanelType, BuildType
<1>2. CacheIsNoOlderThanItsMtime'
  BY DEF ViewerInv, CacheIsNoOlderThanItsMtime
<1>3. BuildsReadAfterTheirMtime'
  BY DEF BuildsReadAfterTheirMtime, Sound
<1> QED
  BY <1>1, <1>2, <1>3 DEF ViewerInv

LEMMA EventCounts ==
  ASSUME ViewerInv, Event
  PROVE  events' \in 0 .. MaxEvents
BY ViewerAssumption DEF ViewerInv, ViewerTypeOK, Event

\* The facts about the present state the steps start from.
LEMMA Unfolded ==
  ASSUME ViewerInv
  PROVE  /\ panels \in [Panels -> PanelType] /\ builds \in [Builds -> BuildType]
         /\ cache \in CacheType /\ disk \in 1 .. MaxVersion /\ disk \in Nat
         /\ release \in SUBSET Panels /\ raced \in SUBSET Panels
         /\ status \in {"idle", "loading", "ready", "error"}
         /\ debounce \in BOOLEAN /\ broken \in BOOLEAN /\ events \in 0 .. MaxEvents
         /\ \A b \in Builds : Sound(builds[b], disk)
         /\ CacheIsNoOlderThanItsMtime
BY ViewerAssumption DEF ViewerInv, ViewerTypeOK, PanelType, BuildType, CacheType,
   BuildsReadAfterTheirMtime, Sound

\* Replacing one payload by a sound one keeps all sound.
LEMMA Replaced ==
  ASSUME NEW d, builds \in [Builds -> BuildType], \A c \in Builds : Sound(builds[c], d),
         NEW b \in Builds, NEW x \in BuildType, Sound(x, d), builds' = [builds EXCEPT ![b] = x]
  PROVE  builds' \in [Builds -> BuildType] /\ \A c \in Builds : Sound(builds'[c], d)
OBVIOUS

-----------------------------------------------------------------------------
\* Building a payload: what is read is no older than the mtime it is stored with.
LEMMA BuildStepInv ==
  ASSUME ViewerInv, NEW b \in Builds, BuildStep(b)
  PROVE  ViewerInv'
<1>0. /\ panels \in [Panels -> PanelType] /\ builds \in [Builds -> BuildType]
      /\ cache \in CacheType /\ disk \in 1 .. MaxVersion /\ disk \in Nat
      /\ release \in SUBSET Panels /\ raced \in SUBSET Panels
      /\ status \in {"idle", "loading", "ready", "error"}
      /\ debounce \in BOOLEAN /\ broken \in BOOLEAN /\ events \in 0 .. MaxEvents
      /\ \A c \in Builds : Sound(builds[c], disk)
      /\ CacheIsNoOlderThanItsMtime
  BY Unfolded
<1>01. builds[b] \in BuildType /\ Sound(builds[b], disk)
  BY <1>0
<1>1. CASE Stat(b)
  <2> DEFINE hit == cache.mtime = disk
             x == [builds[b] EXCEPT !.mtime = disk,
                                    !.at = IF hit THEN "post" ELSE "read",
                                    !.content = IF hit THEN cache.content ELSE 0]
  <2>1. builds' = [builds EXCEPT ![b] = x]
    BY <1>1, <1>0 DEF Stat, BuildType
  <2>2. x \in BuildType
    <3>1. disk \in 0 .. MaxVersion /\ (IF hit THEN cache.content ELSE 0) \in 0 .. MaxVersion
      BY <1>0, ViewerAssumption DEF CacheType
    <3>2. (IF hit THEN "post" ELSE "read") \in {"stat", "read", "store", "post"}
      OBVIOUS
    <3> HIDE DEF hit
    <3> QED
      BY ONLY <1>01, <3>1, <3>2 DEF BuildType
  <2>3. Sound(x, disk)
    BY <1>0, <1>01, ViewerAssumption DEF BuildType, CacheType, Sound, CacheIsNoOlderThanItsMtime
  <2> HIDE DEF x
  <2>4. builds' \in [Builds -> BuildType] /\ \A c \in Builds : Sound(builds'[c], disk)
    BY <1>0, <2>1, <2>2, <2>3, Replaced
  <2> QED
    BY <1>0, <1>1, <2>4, SameFile DEF Stat
<1>2. CASE Read(b)
  <2> DEFINE x == [builds[b] EXCEPT !.content = disk, !.at = "store"]
  <2>1. builds' = [builds EXCEPT ![b] = x]
    BY <1>2, <1>0 DEF Read, BuildType
  <2>2. x \in BuildType
    <3>1. disk \in 0 .. MaxVersion
      BY <1>0, ViewerAssumption
    <3> QED
      BY ONLY <1>01, <3>1 DEF BuildType
  <2>3. Sound(x, disk)
    BY <1>0, <1>01, <1>2, ViewerAssumption DEF BuildType, Sound, Read
  <2> HIDE DEF x
  <2>4. builds' \in [Builds -> BuildType] /\ \A c \in Builds : Sound(builds'[c], disk)
    BY <1>0, <2>1, <2>2, <2>3, Replaced
  <2> QED
    BY <1>0, <1>2, <2>4, SameFile DEF Read
<1>3. CASE Store(b)
  <2> DEFINE x == [builds[b] EXCEPT !.at = "post"]
  <2>1. builds' = [builds EXCEPT ![b] = x]
    BY <1>3, <1>0 DEF Store, BuildType
  <2>2. x \in BuildType
    BY <1>01 DEF BuildType
  <2>3. Sound(x, disk)
    BY <1>01, <1>0, <1>3 DEF BuildType, Sound, Store
  <2> HIDE DEF x
  <2>4. builds' \in [Builds -> BuildType] /\ \A c \in Builds : Sound(builds'[c], disk)
    BY <1>0, <2>1, <2>2, <2>3, Replaced
  <2>5. cache' \in CacheType /\ CacheIsNoOlderThanItsMtime'
    BY <1>01, <1>0, <1>3 DEF BuildType, Sound, Store, CacheType, CacheIsNoOlderThanItsMtime
  <2>6. UNCHANGED <<disk, auto, panels, release, debounce, status, wanted, raced, broken, events>>
    BY <1>3 DEF Store
  <2>7. ViewerTypeOK'
    BY <2>4, <2>5, <2>6 DEF ViewerInv, ViewerTypeOK, BuildType, CacheType
  <2>8. BuildsReadAfterTheirMtime'
    BY <2>4, <2>6 DEF BuildsReadAfterTheirMtime, Sound
  <2> QED
    BY <2>5, <2>7, <2>8 DEF ViewerInv
<1>4. ASSUME NEW p \in Panels, Post(b, p)
      PROVE  ViewerInv'
  <2>1. panels' \in [Panels -> PanelType]
    <3>1. panels[p] \in PanelType /\ builds[b].content \in 0 .. MaxVersion
      BY <1>0, <1>01 DEF BuildType
    <3> DEFINE v == IF builds[b].kind = "open" \/ panels[p].shows # 0
                      THEN builds[b].content ELSE panels[p].shows
    <3>2. v \in 0 .. MaxVersion
      BY <3>1 DEF PanelType
    <3>3. panels' = [panels EXCEPT ![p] = [panels[p] EXCEPT !.shows = v]]
      BY <1>4, <1>0 DEF Post, Delivered, PanelType
    <3> HIDE DEF v
    <3>4. [panels[p] EXCEPT !.shows = v] \in PanelType
      BY <3>1, <3>2 DEF PanelType
    <3> QED
      BY <1>0, <3>3, <3>4
  <2> DEFINE x == IF builds[b].to = {p} THEN NoBuild
                  ELSE [builds[b] EXCEPT !.to = builds[b].to \ {p}]
  <2>2. builds' = [builds EXCEPT ![b] = x]
    BY <1>4, <1>0 DEF Post, Rest
  <2>3. x \in BuildType /\ Sound(x, disk)
    <3>1. CASE builds[b].to = {p}
      BY <3>1, <1>0, NoBuildSound
    <3>2. CASE builds[b].to # {p}
      BY <3>2, <1>01 DEF BuildType, Sound
    <3> QED
      BY <3>1, <3>2
  <2> HIDE DEF x
  <2>4. builds' \in [Builds -> BuildType] /\ \A c \in Builds : Sound(builds'[c], disk)
    BY <1>0, <2>2, <2>3, Replaced
  <2>5. raced' \in SUBSET Panels
    BY <1>0, <1>4 DEF Post
  <2> QED
    BY <1>0, <1>4, <2>1, <2>4, <2>5, SameFile DEF Post
<1> QED
  BY <1>1, <1>2, <1>3, <1>4 DEF BuildStep

\* A build that fails leaves its place free and the cache alone.
LEMMA BuildFailsInv ==
  ASSUME ViewerInv, NEW b \in Builds, BuildFails(b)
  PROVE  ViewerInv'
<1>1. builds \in [Builds -> BuildType] /\ disk \in Nat /\ events \in 0 .. MaxEvents
      /\ panels \in [Panels -> PanelType] /\ release \in SUBSET Panels
      /\ raced \in SUBSET Panels /\ debounce \in BOOLEAN
      /\ \A c \in Builds : Sound(builds[c], disk)
  BY Unfolded
<1>2. builds' \in [Builds -> BuildType] /\ \A c \in Builds : Sound(builds'[c], disk)
  BY <1>1, NoBuildSound, Replaced DEF BuildFails
<1>3. events' \in 0 .. MaxEvents
  BY <1>1, EventCounts DEF BuildFails
<1> QED
  BY <1>1, <1>2, <1>3, SameFile DEF BuildFails

\* What happens to panels: opened, closed, hidden, shown, asking for a refresh.
LEMMA PanelStepInv ==
  ASSUME ViewerInv, NEW p \in Panels,
         Open(p) \/ Close(p) \/ Hide(p) \/ Show(p) \/ RequestRefresh(p) \/ PageReports(p)
  PROVE  ViewerInv'
<1>0. /\ panels \in [Panels -> PanelType] /\ builds \in [Builds -> BuildType]
      /\ release \in SUBSET Panels /\ raced \in SUBSET Panels
      /\ status \in {"idle", "loading", "ready", "error"}
      /\ debounce \in BOOLEAN /\ broken \in BOOLEAN /\ events \in 0 .. MaxEvents
      /\ \A c \in Builds : Sound(builds[c], disk)
  BY Unfolded
<1>01. Closed \in PanelType /\ [Closed EXCEPT !.at = "visible"] \in PanelType
  <2>1. Closed \in PanelType
    BY ViewerAssumption DEF Closed, PanelType
  <2> QED
    BY ONLY <2>1 DEF PanelType
<1>02. panels[p] \in PanelType
  BY <1>0
<1>1. CASE Open(p)
  <2>1. PICK b \in Builds : Begin(b, "open", {p})
    BY <1>1 DEF Open
  <2>2. /\ builds' \in [Builds -> BuildType]
        /\ \A c \in Builds : Sound(builds'[c], disk)
        /\ raced' \in SUBSET Panels
    BY <2>1, BegunBuild
  <2>3. panels' \in [Panels -> PanelType]
    BY <1>0, <1>01, <1>1 DEF Open
  <2>4. events' \in 0 .. MaxEvents
    BY <1>1, EventCounts DEF Open
  <2> QED
    BY <1>0, <1>1, <2>2, <2>3, <2>4, SameFile DEF Open
<1>2. CASE Close(p)
  <2>1. panels' \in [Panels -> PanelType]
    BY <1>0, <1>01, <1>2 DEF Close
  <2>2. events' \in 0 .. MaxEvents
    BY <1>2, EventCounts DEF Close
  <2> QED
    BY <1>0, <1>2, <2>1, <2>2, SameFile DEF Close
<1>3. CASE Hide(p)
  <2>1. [panels[p] EXCEPT !.at = "hidden"] \in PanelType
    BY ONLY <1>02 DEF PanelType
  <2>2. panels' \in [Panels -> PanelType]
    BY <1>0, <1>3, <2>1 DEF Hide
  <2>3. events' \in 0 .. MaxEvents
    BY <1>3, EventCounts DEF Hide
  <2> QED
    BY <1>0, <1>3, <2>2, <2>3, SameFile DEF Hide
<1>4. CASE Show(p)
  <2>1. CASE panels[p].pending
    <3> DEFINE now == [panels EXCEPT ![p].at = "visible", ![p].pending = FALSE]
    <3>1. [[panels[p] EXCEPT !.at = "visible"] EXCEPT !.pending = FALSE] \in PanelType
      BY ONLY <1>02 DEF PanelType
    <3>2. now = [panels EXCEPT ![p] = [[panels[p] EXCEPT !.at = "visible"] EXCEPT !.pending = FALSE]]
      BY <1>0
    <3>3. now \in [Panels -> PanelType]
      BY <1>0, <3>1, <3>2
    <3>4. RefreshDocument(now)
      BY <1>4, <2>1 DEF Show
    <3> HIDE DEF now
    <3>5. /\ panels' \in [Panels -> PanelType] /\ builds' \in [Builds -> BuildType]
          /\ \A c \in Builds : Sound(builds'[c], disk)
          /\ raced' \in SUBSET Panels
          /\ status' \in {"idle", "loading", "ready", "error"}
      BY <3>3, <3>4, RefreshSound
    <3> QED
      BY <1>0, <1>4, <3>5, SameFile DEF Show
  <2>2. CASE ~panels[p].pending
    <3>1. [panels[p] EXCEPT !.at = "visible"] \in PanelType
      BY ONLY <1>02 DEF PanelType
    <3>2. panels' \in [Panels -> PanelType]
      BY <1>0, <1>4, <2>2, <3>1 DEF Show
    <3> QED
      BY <1>0, <1>4, <2>2, <3>2, SameFile DEF Show
  <2> QED
    BY <2>1, <2>2
<1>5. CASE RequestRefresh(p)
  <2>1. /\ panels' \in [Panels -> PanelType] /\ builds' \in [Builds -> BuildType]
        /\ \A c \in Builds : Sound(builds'[c], disk)
        /\ raced' \in SUBSET Panels
        /\ status' \in {"idle", "loading", "ready", "error"}
    BY <1>0, <1>5, RefreshSound DEF RequestRefresh
  <2>2. events' \in 0 .. MaxEvents
    BY <1>5, EventCounts DEF RequestRefresh
  <2> QED
    BY <1>0, <1>5, <2>1, <2>2, SameFile DEF RequestRefresh
<1>6. CASE PageReports(p)
  BY <1>0, <1>6, SameFile DEF PageReports
<1> QED
  BY <1>1, <1>2, <1>3, <1>4, <1>5, <1>6

\* The debounced refresh.
LEMMA DebounceInv ==
  ASSUME ViewerInv, DebounceFires
  PROVE  ViewerInv'
<1>0. /\ panels \in [Panels -> PanelType] /\ release \in SUBSET Panels
      /\ broken \in BOOLEAN /\ events \in 0 .. MaxEvents
  BY Unfolded
<1>1. /\ panels' \in [Panels -> PanelType] /\ builds' \in [Builds -> BuildType]
      /\ \A c \in Builds : Sound(builds'[c], disk)
      /\ raced' \in SUBSET Panels
      /\ status' \in {"idle", "loading", "ready", "error"}
  BY <1>0, RefreshSound DEF DebounceFires
<1> QED
  BY <1>0, <1>1, SameFile DEF DebounceFires

\* The cache is emptied, or the file gets a newer version: what was read before
\* stays older than the file, and no older than the mtime it has.
LEMMA FileStepInv ==
  ASSUME ViewerInv, Save \/ WrittenElsewhere \/ \E p \in Panels : ReleaseCache(p)
  PROVE  ViewerInv'
<1>0. /\ panels \in [Panels -> PanelType] /\ builds \in [Builds -> BuildType]
      /\ cache \in CacheType /\ disk \in 1 .. MaxVersion
      /\ \A c \in Builds : Sound(builds[c], disk)
      /\ CacheIsNoOlderThanItsMtime
  BY Unfolded
<1>1. UNCHANGED <<panels, builds>>
  BY DEF Save, WrittenElsewhere, ReleaseCache
<1>2. disk' \in 1 .. MaxVersion /\ disk <= disk'
  BY <1>0, ViewerAssumption DEF Save, WrittenElsewhere, ReleaseCache
<1>3. cache' = NoCache \/ cache' = cache
  BY DEF Save, WrittenElsewhere, ReleaseCache
<1>4. NoCache \in CacheType /\ NoCache.mtime = 0 /\ NoCache.content = 0
  BY ViewerAssumption DEF NoCache, CacheType
<1>5. cache' \in CacheType
  BY <1>0, <1>3, <1>4
<1>6. CacheIsNoOlderThanItsMtime'
  BY <1>0, <1>2, <1>3, <1>4 DEF CacheIsNoOlderThanItsMtime, CacheType
<1>7. \A c \in Builds : Sound(builds'[c], disk')
  BY <1>0, <1>1, <1>2, ViewerAssumption DEF Sound, BuildType
<1>8. BuildsReadAfterTheirMtime'
  BY <1>7 DEF BuildsReadAfterTheirMtime, Sound
<1>9. events' \in 0 .. MaxEvents
  BY EventCounts DEF Save, WrittenElsewhere, ReleaseCache, ViewerInv, ViewerTypeOK
<1>10. debounce' \in BOOLEAN
  <2>1. debounce \in BOOLEAN /\ auto \in BOOLEAN
    BY DEF ViewerInv, ViewerTypeOK
  <2>2. debounce' = (debounce \/ auto) \/ debounce' = debounce
    BY Zenon DEF Save, WrittenElsewhere, ReleaseCache
  <2> QED
    BY <2>1, <2>2
<1>11. wanted' \in 0 .. MaxVersion
  BY <1>2, ViewerAssumption DEF Save, WrittenElsewhere, ReleaseCache, ViewerInv, ViewerTypeOK
<1>12. release' \in SUBSET Panels
  BY DEF Save, WrittenElsewhere, ReleaseCache, ViewerInv, ViewerTypeOK
<1>13. UNCHANGED <<auto, status, raced, broken>>
  BY DEF Save, WrittenElsewhere, ReleaseCache
<1>14. ViewerTypeOK'
  BY <1>0, <1>1, <1>2, <1>5, <1>9, <1>10, <1>11, <1>12, <1>13
     DEF ViewerInv, ViewerTypeOK, PanelType, BuildType, CacheType
<1> QED
  BY <1>6, <1>8, <1>14 DEF ViewerInv

LEMMA ViewerInvInit == ViewerInit => ViewerInv
<1> SUFFICES ASSUME ViewerInit
             PROVE  ViewerInv
  OBVIOUS
<1>1. NoBuild \in BuildType /\ Sound(NoBuild, 1)
  BY NoBuildSound
<1>2. NoCache \in CacheType /\ NoCache.mtime = 0 /\ NoCache.content = 0
  BY ViewerAssumption DEF NoCache, CacheType
<1>3. Closed \in PanelType
  BY ViewerAssumption DEF Closed, PanelType
<1>4. panels \in [Panels -> PanelType] /\ builds \in [Builds -> BuildType] /\ cache \in CacheType
  BY <1>1, <1>2, <1>3 DEF ViewerInit
<1>5. ViewerTypeOK
  <2>1. disk \in 1 .. MaxVersion /\ wanted \in 0 .. MaxVersion /\ events \in 0 .. MaxEvents
    BY ViewerAssumption DEF ViewerInit
  <2>2. auto \in BOOLEAN /\ debounce \in BOOLEAN /\ broken \in BOOLEAN
    BY Zenon DEF ViewerInit
  <2>3. /\ release \in SUBSET Panels /\ raced \in SUBSET Panels
        /\ status \in {"idle", "loading", "ready", "error"}
    BY DEF ViewerInit
  <2> QED
    BY <1>4, <2>1, <2>2, <2>3 DEF ViewerTypeOK, PanelType, BuildType, CacheType
<1>6. CacheIsNoOlderThanItsMtime
  BY <1>2 DEF ViewerInit, CacheIsNoOlderThanItsMtime
<1>7. BuildsReadAfterTheirMtime
  BY <1>1 DEF ViewerInit, BuildsReadAfterTheirMtime, Sound
<1> QED
  BY <1>5, <1>6, <1>7 DEF ViewerInv

\* Whatever saves, writes, releases and builds overlap, the payload that is
\* cached under an mtime is never older than the file was at that time.
THEOREM ViewerInvariant == ViewerSpec => []ViewerInv
<1>1. ViewerInv /\ [ViewerNext]_evars => ViewerInv'
  <2> SUFFICES ASSUME ViewerInv, [ViewerNext]_evars
               PROVE  ViewerInv'
    OBVIOUS
  <2>1. CASE UNCHANGED evars
    BY <2>1 DEF evars, ViewerInv, ViewerTypeOK, CacheIsNoOlderThanItsMtime,
                BuildsReadAfterTheirMtime
  <2>2. ASSUME NEW b \in Builds, BuildStep(b)
        PROVE  ViewerInv'
    BY <2>2, BuildStepInv
  <2>3. ASSUME NEW b \in Builds, BuildFails(b)
        PROVE  ViewerInv'
    BY <2>3, BuildFailsInv
  <2>4. CASE DebounceFires
    BY <2>4, DebounceInv
  <2>5. CASE Save \/ WrittenElsewhere \/ \E p \in Panels : ReleaseCache(p)
    BY <2>5, FileStepInv
  <2>6. ASSUME NEW p \in Panels,
               Open(p) \/ Close(p) \/ Hide(p) \/ Show(p) \/ RequestRefresh(p) \/ PageReports(p)
        PROVE  ViewerInv'
    BY <2>6, PanelStepInv
  <2> QED
    BY <2>1, <2>2, <2>3, <2>4, <2>5, <2>6 DEF ViewerNext
<1> QED
  BY <1>1, ViewerInvInit, PTL DEF ViewerSpec

\* The cache never serves an old content for the file's present mtime.
THEOREM CacheIsCurrent == ViewerSpec => [](cache.mtime = disk => cache.content = disk)
<1>1. ViewerInv => (cache.mtime = disk => cache.content = disk)
  <2> SUFFICES ASSUME ViewerInv, cache.mtime = disk
               PROVE  cache.content = disk
    OBVIOUS
  <2>1. cache \in CacheType /\ disk \in Nat /\ CacheIsNoOlderThanItsMtime
    BY Unfolded
  <2> QED
    BY <2>1 DEF CacheType, CacheIsNoOlderThanItsMtime
<1> QED
  BY <1>1, ViewerInvariant, PTL
-----------------------------------------------------------------------------
(***************************************************************************)
(* PanelsBehindAreServed.  A hidden panel is remembered by its flag, and a *)
(* panel that two builds are to fill has raced.                            *)
(***************************************************************************)
Served(p)  == \E b \in Builds : p \in builds[b].to /\ Fresh(b)
Opening(p) == \E b \in Builds : builds[b].kind = "open" /\ p \in builds[b].to
Shared(p)  == \E b, c \in Builds : b # c /\ p \in builds[b].to /\ p \in builds[c].to

FreePlacesServeNone == \A b \in Builds : builds[b].kind = "off" => builds[b].to = {}

SharedPanelsRace == \A p \in Panels : panels[p].at # "closed" /\ Shared(p) => p \in raced

BlankPanelsOpen ==
  broken \/ \A p \in Panels : panels[p].at # "closed" /\ panels[p].shows = 0 => Opening(p)

PendingIsHidden == \A p \in Panels : panels[p].pending => panels[p].at = "hidden"

BehindIsServed ==
  \A p \in Panels : panels[p].at # "closed" /\ panels[p].shows < wanted =>
    broken \/ p \in raced \/ debounce \/ panels[p].pending \/ Served(p)

\* A payload from before the last save finds its panels behind that save, too.
StaleIsBehind ==
  \A p \in Panels, b \in Builds :
    panels[p].at # "closed" /\ p \in builds[b].to /\ ~Fresh(b) /\ p \notin raced =>
      panels[p].shows < wanted

NothingIsAhead == wanted <= disk /\ \A p \in Panels : panels[p].shows <= disk

ServedInv ==
  /\ FreePlacesServeNone /\ SharedPanelsRace /\ BlankPanelsOpen /\ PendingIsHidden
  /\ BehindIsServed /\ StaleIsBehind /\ NothingIsAhead

\* A build that begins serves its panels, and takes nothing from the others.
LEMMA BegunServes ==
  ASSUME ViewerInv, FreePlacesServeNone, wanted' = wanted,
         NEW b \in Builds, NEW kind \in {"open", "refresh"}, NEW to \in SUBSET Panels,
         Begin(b, kind, to)
  PROVE  /\ FreePlacesServeNone' /\ raced \subseteq raced'
         /\ \A p \in Panels : Served(p) \/ p \in to => Served(p)'
         /\ \A p \in Panels : Opening(p) \/ (p \in to /\ kind = "open") => Opening(p)'
         /\ \A p \in Panels : Shared(p)' => Shared(p) \/ p \in raced'
         /\ \A p \in Panels : Shared(p)' => \E c \in Builds : p \in builds[c].to
         /\ \A p \in Panels, c \in Builds :
              p \in builds'[c].to /\ ~Fresh(c)' => p \in builds[c].to /\ ~Fresh(c)
<1>1. builds \in [Builds -> BuildType] /\ builds[b].kind = "off" /\ builds[b].to = {}
  BY Unfolded DEF Begin, FreePlacesServeNone
<1>2. builds'[b].kind = kind /\ builds'[b].to = to /\ builds'[b].at = "stat"
  <2>1. builds'[b] = [NoBuild EXCEPT !.kind = kind, !.to = to]
    BY <1>1 DEF Begin
  <2> QED
    BY <2>1 DEF NoBuild
<1>3. \A c \in Builds \ {b} : builds'[c] = builds[c]
  BY <1>1 DEF Begin
<1>4. raced' = raced \union {p \in to : \E c \in Builds : p \in builds[c].to}
  BY DEF Begin
<1>5. FreePlacesServeNone'
  BY <1>2, <1>3 DEF FreePlacesServeNone
<1>6. ASSUME NEW p \in Panels, Served(p) \/ p \in to
      PROVE  Served(p)'
  BY <1>1, <1>2, <1>3, <1>6 DEF Served, Fresh
<1>7. ASSUME NEW p \in Panels, Opening(p) \/ (p \in to /\ kind = "open")
      PROVE  Opening(p)'
  BY <1>1, <1>2, <1>3, <1>7 DEF Opening
<1>8. ASSUME NEW p \in Panels, Shared(p)'
      PROVE  /\ Shared(p) \/ p \in raced'
             /\ \E c \in Builds : p \in builds[c].to
  <2>1. PICK c \in Builds, d \in Builds : c # d /\ p \in builds'[c].to /\ p \in builds'[d].to
    BY <1>8 DEF Shared
  <2>2. CASE c # b /\ d # b
    BY <1>3, <2>1, <2>2 DEF Shared
  <2>3. CASE c = b \/ d = b
    BY <1>2, <1>3, <1>4, <2>1, <2>3
  <2> QED
    BY <2>2, <2>3
<1>9. ASSUME NEW p \in Panels, NEW c \in Builds, p \in builds'[c].to, ~Fresh(c)'
      PROVE  p \in builds[c].to /\ ~Fresh(c)
  <2>1. c # b
    BY <1>2, <1>9 DEF Fresh
  <2> QED
    BY <1>3, <1>9, <2>1 DEF Fresh
<1> QED
  BY <1>4, <1>5, <1>6, <1>7, <1>8, <1>9

\* After refreshDocument every panel is served or remembered.
LEMMA RefreshServes ==
  ASSUME ViewerInv, FreePlacesServeNone, NEW now \in [Panels -> PanelType],
         RefreshDocument(now), UNCHANGED <<disk, wanted, broken>>, NothingIsAhead,
         \A p \in Panels : now[p].shows = panels[p].shows,
         \A p \in Panels, b \in Builds :
           now[p].at # "closed" /\ p \in builds[b].to /\ ~Fresh(b) /\ p \notin raced =>
             now[p].shows < wanted,
         \A p \in Panels : now[p].pending => now[p].at = "hidden",
         \A p \in Panels : now[p].at # "closed" /\ Shared(p) => p \in raced,
         broken \/ \A p \in Panels : now[p].at # "closed" /\ now[p].shows = 0 => Opening(p)
  PROVE  /\ FreePlacesServeNone' /\ SharedPanelsRace' /\ BlankPanelsOpen' /\ PendingIsHidden'
         /\ BehindIsServed' /\ StaleIsBehind' /\ NothingIsAhead'
<1> DEFINE to == {p \in Panels : now[p].at = "visible"}
<1>1. \A p \in Panels : /\ panels'[p].at = now[p].at /\ panels'[p].shows = now[p].shows
                        /\ panels'[p].pending = (now[p].pending \/ now[p].at = "hidden")
  BY DEF RefreshDocument, PanelType
<1>2. PendingIsHidden'
  <2> SUFFICES ASSUME NEW p \in Panels, panels'[p].pending
               PROVE  now[p].at = "hidden"
    BY <1>1 DEF PendingIsHidden
  <2>1. now[p].pending \/ now[p].at = "hidden"
    BY <1>1
  <2> QED
    BY <2>1
<1>3. /\ FreePlacesServeNone' /\ raced \subseteq raced'
      /\ \A p \in Panels : Opening(p) => Opening(p)'
      /\ \A p \in Panels : Shared(p)' => Shared(p) \/ p \in raced'
      /\ \A p \in Panels : p \in to => Served(p)'
      /\ \A p \in Panels, c \in Builds :
           p \in builds'[c].to /\ ~Fresh(c)' => p \in builds[c].to /\ ~Fresh(c)
  <2>1. CASE to = {}
    <3>1. UNCHANGED <<builds, raced>>
      BY <2>1 DEF RefreshDocument
    <3> QED
      BY <2>1, <3>1 DEF FreePlacesServeNone, Opening, Shared, Fresh
  <2>2. CASE to # {}
    <3>1. PICK b \in Builds : Begin(b, "refresh", to)
      BY <2>2 DEF RefreshDocument
    <3>2. to \in SUBSET Panels
      OBVIOUS
    <3> HIDE DEF to
    <3> QED
      BY <3>1, <3>2, BegunServes
  <2> QED
    BY <2>1, <2>2
<1>4. SharedPanelsRace' /\ BlankPanelsOpen'
  BY <1>1, <1>3 DEF SharedPanelsRace, BlankPanelsOpen
<1>5. BehindIsServed'
  <2> SUFFICES ASSUME NEW p \in Panels, panels'[p].at # "closed"
               PROVE  panels'[p].pending \/ Served(p)'
    BY DEF BehindIsServed
  <2>1. CASE now[p].at = "visible"
    BY <1>3, <2>1
  <2>2. CASE now[p].at = "hidden"
    <3>1. now[p].pending \/ now[p].at = "hidden"
      BY <2>2
    <3> QED
      BY <1>1, <3>1
  <2> QED
    BY <1>1, <2>1, <2>2 DEF PanelType
<1>6. StaleIsBehind'
  BY <1>1, <1>3 DEF StaleIsBehind
<1>7. NothingIsAhead'
  BY <1>1 DEF NothingIsAhead
<1> QED
  BY <1>2, <1>3, <1>4, <1>5, <1>6, <1>7

\* A build that reads on serves the panels it did.
LEMMA ReadingServes ==
  ASSUME ServedInv, UNCHANGED <<disk, panels, raced, broken, debounce, wanted>>,
         \A c \in Builds : /\ builds'[c].to = builds[c].to /\ builds'[c].kind = builds[c].kind
                           /\ Fresh(c) => Fresh(c)'
  PROVE  ServedInv'
<1>1. \A p \in Panels : /\ Served(p) => Served(p)'
                        /\ Opening(p)' <=> Opening(p)
                        /\ Shared(p)' <=> Shared(p)
  BY DEF Served, Opening, Shared
<1>2. FreePlacesServeNone' /\ SharedPanelsRace' /\ BlankPanelsOpen' /\ PendingIsHidden'
  BY <1>1 DEF ServedInv, FreePlacesServeNone, SharedPanelsRace, BlankPanelsOpen, PendingIsHidden
<1>3. BehindIsServed'
  BY <1>1 DEF ServedInv, BehindIsServed
<1>4. StaleIsBehind' /\ NothingIsAhead'
  BY DEF ServedInv, StaleIsBehind, NothingIsAhead
<1> QED
  BY <1>2, <1>3, <1>4 DEF ServedInv

\* A payload reaches one of its panels: what was behind and is served by this build
\* is not behind any more, and the other panels do not notice.
LEMMA PostServes ==
  ASSUME ViewerInv, ServedInv, NEW b \in Builds, NEW p \in Panels, Post(b, p)
  PROVE  ServedInv'
<1> DEFINE v == builds[b].content
<1>0. /\ panels \in [Panels -> PanelType] /\ builds \in [Builds -> BuildType]
      /\ disk \in Nat /\ v \in Nat /\ v > 0 /\ wanted \in Nat /\ wanted <= disk
      /\ builds[b].at = "post" /\ p \in builds[b].to /\ panels[p].at # "closed"
  <2>1. builds[b].at = "post" /\ p \in builds[b].to /\ panels[p].at # "closed"
    BY DEF Post
  <2>2. wanted \in Nat /\ wanted <= disk
    BY ViewerAssumption DEF ViewerInv, ViewerTypeOK, ServedInv, NothingIsAhead
  <2>3. panels \in [Panels -> PanelType] /\ builds \in [Builds -> BuildType]
        /\ disk \in Nat /\ Sound(builds[b], disk)
    BY Unfolded
  <2>4. v \in Nat
    BY <2>3, ViewerAssumption DEF BuildType
  <2> QED
    BY <2>1, <2>2, <2>3, <2>4 DEF Sound
<1>1. UNCHANGED <<disk, debounce, wanted, broken>>
  BY DEF Post
<1>2. \A q \in Panels \ {p} : panels'[q] = panels[q]
  BY <1>0 DEF Post, Delivered
<1>3. /\ panels'[p].at = panels[p].at /\ panels'[p].pending = panels[p].pending
      /\ panels'[p].shows = IF builds[b].kind = "open" \/ panels[p].shows # 0
                              THEN v ELSE panels[p].shows
  <2>1. panels' = Delivered(b, p)
    BY DEF Post
  <2> QED
    BY <1>0, <2>1 DEF Delivered, PanelType
<1>4. \A c \in Builds \ {b} : builds'[c] = builds[c]
  BY <1>0 DEF Post
<1>5. /\ builds'[b].to = builds[b].to \ {p}
      /\ builds'[b].to # {} => /\ builds'[b].kind = builds[b].kind /\ builds'[b].at = "post"
                               /\ builds'[b].content = v
  <2>1. builds'[b] = Rest(b, p)
    BY <1>0 DEF Post
  <2>2. CASE builds[b].to = {p}
    BY <2>1, <2>2 DEF Rest, NoBuild
  <2>3. CASE builds[b].to # {p}
    BY <1>0, <2>1, <2>3 DEF Rest, BuildType
  <2> QED
    BY <2>2, <2>3
<1>6. builds'[b].kind = "off" => builds'[b].to = {}
  BY <1>5 DEF ServedInv, FreePlacesServeNone
<1>7. /\ raced' \subseteq raced /\ raced \ {p} \subseteq raced'
      /\ p \in raced /\ p \notin raced' => Sole(b, p) /\ panels'[p].shows = disk
  BY <1>1 DEF Post
<1>8. Sole(b, p) <=> \A c \in Builds \ {b} : p \notin builds[c].to
  BY DEF Sole
<1> HIDE DEF v
<1>9. ASSUME NEW q \in Panels
      PROVE  Shared(q)' => Shared(q) /\ (q = p => ~Sole(b, p))
  BY <1>4, <1>5, <1>8 DEF Shared
<1>10. ASSUME NEW q \in Panels, q # p
       PROVE  /\ Opening(q) => Opening(q)'
              /\ Served(q) => Served(q)'
  <2>1. ASSUME NEW c \in Builds, q \in builds[c].to
        PROVE  /\ q \in builds'[c].to /\ builds'[c].kind = builds[c].kind
               /\ Fresh(c) => Fresh(c)'
    <3>1. CASE c = b
      BY <1>0, <1>1, <1>5, <1>10, <2>1, <3>1 DEF Fresh, v
    <3>2. CASE c # b
      BY <1>1, <1>4, <2>1, <3>2 DEF Fresh
    <3> QED
      BY <3>1, <3>2
  <2> QED
    BY <2>1 DEF Opening, Served
<1>11. FreePlacesServeNone'
  BY <1>4, <1>6 DEF ServedInv, FreePlacesServeNone
<1>12. SharedPanelsRace'
  BY <1>2, <1>3, <1>7, <1>9 DEF ServedInv, SharedPanelsRace
<1>13. PendingIsHidden'
  BY <1>2, <1>3 DEF ServedInv, PendingIsHidden
<1>14. BlankPanelsOpen'
  <2> SUFFICES ASSUME ~broken, NEW q \in Panels, panels'[q].at # "closed", panels'[q].shows = 0
               PROVE  Opening(q)'
    BY <1>1 DEF BlankPanelsOpen
  <2>1. CASE q # p
    BY <1>2, <1>10, <2>1 DEF ServedInv, BlankPanelsOpen
  <2>2. CASE q = p
    <3>1. builds[b].kind # "open" /\ panels[p].shows = 0
      BY <1>0, <1>3, <2>2
    <3>2. PICK c \in Builds : builds[c].kind = "open" /\ p \in builds[c].to
      BY <1>0, <3>1 DEF ServedInv, BlankPanelsOpen, Opening
    <3> QED
      BY <1>4, <2>2, <3>1, <3>2 DEF Opening
  <2> QED
    BY <2>1, <2>2
<1>15. BehindIsServed'
  <2> SUFFICES ASSUME NEW q \in Panels, panels'[q].at # "closed", panels'[q].shows < wanted,
                      ~broken, q \notin raced', ~debounce, ~panels'[q].pending
               PROVE  Served(q)'
    BY <1>1 DEF BehindIsServed
  <2>1. CASE q # p
    BY <1>2, <1>7, <1>10, <2>1 DEF ServedInv, BehindIsServed
  <2>2. CASE q = p
    <3>1. p \notin raced
      BY <1>0, <1>7, <2>2
    <3>2. Sole(b, p)
      BY <1>0, <1>8, <3>1 DEF ServedInv, SharedPanelsRace, Shared
    <3>3. panels'[p].shows = v
      <4>1. panels[p].shows = 0 => builds[b].kind = "open"
        BY <1>0, <1>8, <3>2 DEF ServedInv, BlankPanelsOpen, Opening
      <4> QED
        BY <1>3, <4>1
    <3>4. v < wanted
      BY <2>2, <3>3
    <3>5. CASE panels[p].shows < wanted
      <4>1. Served(p)
        BY <1>0, <1>3, <2>2, <3>1, <3>5 DEF ServedInv, BehindIsServed
      <4> QED
        BY <1>0, <1>8, <3>2, <3>4, <4>1 DEF Served, Fresh, v
    <3>6. CASE ~(panels[p].shows < wanted)
      <4>1. ~Fresh(b)
        BY <1>0, <3>4 DEF Fresh, v
      <4> QED
        BY <1>0, <3>1, <3>6, <4>1 DEF ServedInv, StaleIsBehind
    <3> QED
      BY <3>5, <3>6
  <2> QED
    BY <2>1, <2>2
<1>16. StaleIsBehind'
  <2> SUFFICES ASSUME NEW q \in Panels, NEW c \in Builds, panels'[q].at # "closed",
                      q \in builds'[c].to, ~Fresh(c)', q \notin raced'
               PROVE  panels'[q].shows < wanted
    BY <1>1 DEF StaleIsBehind
  <2>1. CASE q # p
    <3>1. q \in builds[c].to /\ ~Fresh(c)
      <4>1. CASE c = b
        BY <1>0, <1>1, <1>5, <4>1 DEF Fresh, v
      <4>2. CASE c # b
        BY <1>1, <1>4, <4>2 DEF Fresh
      <4> QED
        BY <4>1, <4>2
    <3> QED
      BY <1>2, <1>7, <2>1, <3>1 DEF ServedInv, StaleIsBehind
  <2>2. CASE q = p
    <3>1. c # b /\ p \in builds[c].to
      BY <1>4, <1>5, <2>2
    <3>2. p \in raced /\ ~Sole(b, p)
      BY <1>0, <1>8, <3>1 DEF ServedInv, SharedPanelsRace, Shared
    <3> QED
      BY <1>7, <2>2, <3>2
  <2> QED
    BY <2>1, <2>2
<1>17. NothingIsAhead'
  <2>1. v <= disk
    BY Unfolded DEF Sound, v
  <2> QED
    BY <1>1, <1>2, <1>3, <2>1 DEF ServedInv, NothingIsAhead
<1> QED
  BY <1>11, <1>12, <1>13, <1>14, <1>15, <1>16, <1>17 DEF ServedInv

\* A build that fails excuses what is behind.
LEMMA FailServes ==
  ASSUME ViewerInv, ServedInv, NEW b \in Builds, BuildFails(b)
  PROVE  ServedInv'
<1>1. /\ builds' = [builds EXCEPT ![b] = NoBuild] /\ broken' = TRUE
      /\ UNCHANGED <<disk, panels, debounce, wanted, raced>>
  BY DEF BuildFails
<1>2. builds \in [Builds -> BuildType] /\ NoBuild.to = {} /\ NoBuild.at = "stat"
  BY Unfolded DEF NoBuild
<1>3. \A c \in Builds : builds'[c] = builds[c] \/ builds'[c].to = {}
  BY <1>1, <1>2
<1>4. FreePlacesServeNone' /\ SharedPanelsRace' /\ PendingIsHidden' /\ NothingIsAhead'
  BY <1>1, <1>3 DEF ServedInv, FreePlacesServeNone, SharedPanelsRace, Shared, PendingIsHidden,
                    NothingIsAhead
<1>5. StaleIsBehind'
  BY <1>1, <1>3 DEF ServedInv, StaleIsBehind, Fresh
<1> QED
  BY <1>1, <1>4, <1>5 DEF ServedInv, BlankPanelsOpen, BehindIsServed

\* The steps of a build.
LEMMA BuildStepServes ==
  ASSUME ViewerInv, ServedInv, NEW b \in Builds, BuildStep(b)
  PROVE  ServedInv'
<1>0. /\ builds \in [Builds -> BuildType] /\ disk \in Nat /\ cache \in CacheType
      /\ CacheIsNoOlderThanItsMtime
  BY Unfolded
<1>01. wanted \in Nat /\ wanted <= disk
  BY ViewerAssumption DEF ViewerInv, ViewerTypeOK, ServedInv, NothingIsAhead
<1>1. CASE Stat(b)
  <2>1. /\ \A c \in Builds \ {b} : builds'[c] = builds[c]
        /\ builds'[b].to = builds[b].to /\ builds'[b].kind = builds[b].kind
        /\ builds'[b].at = IF cache.mtime = disk THEN "post" ELSE "read"
        /\ builds'[b].content = IF cache.mtime = disk THEN cache.content ELSE 0
        /\ UNCHANGED <<disk, panels, raced, broken, debounce, wanted>>
    BY <1>0, <1>1 DEF Stat, BuildType
  <2>2. Fresh(b)'
    BY <1>0, <1>01, <2>1, ViewerAssumption DEF Fresh, CacheIsNoOlderThanItsMtime, CacheType
  <2>3. \A c \in Builds \ {b} : Fresh(c)' <=> Fresh(c)
    BY <2>1 DEF Fresh
  <2> QED
    BY <2>1, <2>2, <2>3, ReadingServes
<1>2. CASE Read(b)
  <2>1. /\ \A c \in Builds \ {b} : builds'[c] = builds[c]
        /\ builds'[b].to = builds[b].to /\ builds'[b].kind = builds[b].kind
        /\ builds'[b].content = disk
        /\ UNCHANGED <<disk, panels, raced, broken, debounce, wanted>>
    BY <1>0, <1>2 DEF Read, BuildType
  <2>2. Fresh(b)'
    BY <1>01, <2>1 DEF Fresh
  <2>3. \A c \in Builds \ {b} : Fresh(c)' <=> Fresh(c)
    BY <2>1 DEF Fresh
  <2> QED
    BY <2>1, <2>2, <2>3, ReadingServes
<1>3. CASE Store(b)
  <2>1. /\ \A c \in Builds \ {b} : builds'[c] = builds[c]
        /\ builds'[b].to = builds[b].to /\ builds'[b].kind = builds[b].kind
        /\ builds[b].at = "store" /\ builds'[b].content = builds[b].content
        /\ UNCHANGED <<disk, panels, raced, broken, debounce, wanted>>
    BY <1>0, <1>3 DEF Store, BuildType
  <2>2. \A c \in Builds : Fresh(c) => Fresh(c)'
    BY <2>1 DEF Fresh
  <2> QED
    BY <2>1, <2>2, ReadingServes
<1> QED
  BY <1>1, <1>2, <1>3, PostServes DEF BuildStep

\* The steps that refresh the file.
LEMMA RefreshingServes ==
  ASSUME ViewerInv, ServedInv,
         \/ DebounceFires
         \/ \E p \in Panels : RequestRefresh(p) \/ (Show(p) /\ panels[p].pending)
  PROVE  ServedInv'
<1>0. panels \in [Panels -> PanelType]
  BY Unfolded
<1>1. CASE DebounceFires \/ \E p \in Panels : RequestRefresh(p)
  <2>1. RefreshDocument(panels) /\ UNCHANGED <<disk, wanted, broken>>
    BY <1>1 DEF DebounceFires, RequestRefresh
  <2> QED
    BY <1>0, <2>1, RefreshServes
       DEF ServedInv, PendingIsHidden, SharedPanelsRace, BlankPanelsOpen, StaleIsBehind
<1>2. ASSUME NEW p \in Panels, Show(p), panels[p].pending
      PROVE  ServedInv'
  <2> DEFINE now == [panels EXCEPT ![p].at = "visible", ![p].pending = FALSE]
  <2>1. RefreshDocument(now) /\ UNCHANGED <<disk, wanted, broken>> /\ panels[p].at = "hidden"
    BY <1>2 DEF Show
  <2>2. /\ \A q \in Panels \ {p} : now[q] = panels[q]
        /\ now[p].at = "visible" /\ now[p].pending = FALSE /\ now[p].shows = panels[p].shows
    BY <1>0 DEF PanelType
  <2>3. now \in [Panels -> PanelType]
    <3>1. [[panels[p] EXCEPT !.at = "visible"] EXCEPT !.pending = FALSE] \in PanelType
      <4>1. panels[p] \in PanelType
        BY <1>0
      <4> QED
        BY ONLY <4>1 DEF PanelType
    <3>2. now = [panels EXCEPT ![p] = [[panels[p] EXCEPT !.at = "visible"] EXCEPT !.pending = FALSE]]
      BY <1>0
    <3> QED
      BY <1>0, <3>1, <3>2
  <2> HIDE DEF now
  <2> QED
    BY <2>1, <2>2, <2>3, RefreshServes
       DEF ServedInv, PendingIsHidden, SharedPanelsRace, BlankPanelsOpen, StaleIsBehind
<1> QED
  BY <1>1, <1>2

\* The steps that change one panel and begin no refresh.
LEMMA PanelServes ==
  ASSUME ViewerInv, ServedInv, NEW p \in Panels,
         \/ Open(p) \/ Close(p) \/ Hide(p) \/ (Show(p) /\ ~panels[p].pending) \/ PageReports(p)
         \/ ReleaseCache(p)
  PROVE  ServedInv'
<1>0. panels \in [Panels -> PanelType] /\ builds \in [Builds -> BuildType] /\ disk \in Nat
  BY Unfolded
<1>1. CASE Open(p)
  <2>1. PICK b \in Builds : Begin(b, "open", {p})
    BY <1>1 DEF Open
  <2>2. /\ UNCHANGED <<disk, wanted, broken, debounce>> /\ panels[p].at = "closed"
        /\ \A c \in Builds : p \notin builds[c].to
        /\ panels' = [panels EXCEPT ![p] = [Closed EXCEPT !.at = "visible"]]
    BY <1>1 DEF Open
  <2>3. /\ \A q \in Panels \ {p} : panels'[q] = panels[q]
        /\ panels'[p].at = "visible" /\ panels'[p].shows = 0 /\ panels'[p].pending = FALSE
    BY <1>0, <2>2 DEF Closed
  <2>4. /\ FreePlacesServeNone' /\ raced \subseteq raced'
        /\ \A q \in Panels : Served(q) \/ q = p => Served(q)'
        /\ \A q \in Panels : Opening(q) \/ q = p => Opening(q)'
        /\ \A q \in Panels : Shared(q)' => Shared(q) \/ q \in raced'
        /\ ~Shared(p)'
        /\ \A q \in Panels, c \in Builds :
             q \in builds'[c].to /\ ~Fresh(c)' => q \in builds[c].to /\ ~Fresh(c)
    BY <2>1, <2>2, BegunServes DEF ServedInv
  <2>5. SharedPanelsRace' /\ PendingIsHidden'
    BY <2>2, <2>3, <2>4 DEF ServedInv, SharedPanelsRace, PendingIsHidden
  <2>6. BlankPanelsOpen'
    BY <2>2, <2>3, <2>4 DEF ServedInv, BlankPanelsOpen
  <2>7. BehindIsServed'
    BY <2>2, <2>3, <2>4 DEF ServedInv, BehindIsServed
  <2>8. StaleIsBehind'
    BY <2>2, <2>3, <2>4 DEF ServedInv, StaleIsBehind
  <2>9. NothingIsAhead'
    BY <1>0, <2>2, <2>3 DEF ServedInv, NothingIsAhead
  <2> QED
    BY <2>4, <2>5, <2>6, <2>7, <2>8, <2>9 DEF ServedInv
<1>2. CASE Close(p)
  <2>1. /\ UNCHANGED <<disk, wanted, broken, debounce, builds>> /\ raced' = raced \ {p}
        /\ panels' = [panels EXCEPT ![p] = Closed]
    BY <1>2 DEF Close
  <2>2. /\ \A q \in Panels \ {p} : panels'[q] = panels[q]
        /\ panels'[p].at = "closed" /\ panels'[p].shows = 0 /\ panels'[p].pending = FALSE
    BY <1>0, <2>1 DEF Closed
  <2>3. \A q \in Panels : (Served(q)' <=> Served(q)) /\ (Shared(q)' <=> Shared(q))
                          /\ (Opening(q)' <=> Opening(q))
    BY <2>1 DEF Served, Shared, Opening, Fresh
  <2>4. FreePlacesServeNone' /\ SharedPanelsRace' /\ BlankPanelsOpen' /\ PendingIsHidden'
    BY <2>1, <2>2, <2>3 DEF ServedInv, FreePlacesServeNone, SharedPanelsRace, BlankPanelsOpen,
                            PendingIsHidden
  <2>5. BehindIsServed'
    BY <2>1, <2>2, <2>3 DEF ServedInv, BehindIsServed
  <2>6. StaleIsBehind' /\ NothingIsAhead'
    BY <1>0, <2>1, <2>2 DEF ServedInv, StaleIsBehind, NothingIsAhead, Fresh
  <2> QED
    BY <2>4, <2>5, <2>6 DEF ServedInv
<1>3. CASE Hide(p) \/ (Show(p) /\ ~panels[p].pending)
  <2>1. /\ UNCHANGED <<disk, wanted, broken, debounce, builds, raced>>
        /\ panels[p].at \in {"visible", "hidden"}
        /\ \A q \in Panels : /\ panels'[q].shows = panels[q].shows
                             /\ panels'[q].pending = panels[q].pending
        /\ \A q \in Panels \ {p} : panels'[q].at = panels[q].at
        /\ panels'[p].at = IF panels[p].at = "visible" THEN "hidden" ELSE "visible"
        /\ panels'[p].at = "hidden" \/ ~panels[p].pending
    <3>1. CASE Hide(p)
      BY <1>0, <3>1 DEF Hide, PanelType
    <3>2. CASE Show(p) /\ ~panels[p].pending
      BY <1>0, <3>2 DEF Show, PanelType
    <3> QED
      BY <1>3, <3>1, <3>2
  <2>2. \A q \in Panels : (Served(q)' <=> Served(q)) /\ (Shared(q)' <=> Shared(q))
                          /\ (Opening(q)' <=> Opening(q))
    BY <2>1 DEF Served, Shared, Opening, Fresh
  <2>3. \A q \in Panels : panels'[q].at = "closed" <=> panels[q].at = "closed"
    BY <2>1
  <2>4. FreePlacesServeNone' /\ SharedPanelsRace' /\ BlankPanelsOpen'
    BY <2>1, <2>2, <2>3 DEF ServedInv, FreePlacesServeNone, SharedPanelsRace, BlankPanelsOpen
  <2>5. PendingIsHidden'
    BY <2>1 DEF ServedInv, PendingIsHidden
  <2>6. BehindIsServed'
    BY <2>1, <2>2, <2>3 DEF ServedInv, BehindIsServed
  <2>7. StaleIsBehind' /\ NothingIsAhead'
    BY <2>1, <2>3 DEF ServedInv, StaleIsBehind, NothingIsAhead, Fresh
  <2> QED
    BY <2>4, <2>5, <2>6, <2>7 DEF ServedInv
<1>4. CASE PageReports(p) \/ ReleaseCache(p)
  <2>1. UNCHANGED <<disk, wanted, broken, debounce, builds, raced, panels>>
    BY <1>4 DEF PageReports, ReleaseCache
  <2> QED
    BY <2>1, ReadingServes DEF Fresh
<1> QED
  BY <1>1, <1>2, <1>3, <1>4

\* The file gets a newer version: a save that is to be shown sets the timer.
LEMMA FileServes ==
  ASSUME ViewerInv, ServedInv, Save \/ WrittenElsewhere
  PROVE  ServedInv'
<1>0. /\ panels \in [Panels -> PanelType] /\ builds \in [Builds -> BuildType]
      /\ disk \in Nat /\ wanted \in Nat
      /\ \A p \in Panels : panels[p].shows \in Nat
      /\ \A b \in Builds : builds[b].content \in Nat
  BY Unfolded, ViewerAssumption DEF ViewerInv, ViewerTypeOK, PanelType, BuildType
<1>1. disk' = disk + 1 /\ UNCHANGED <<panels, builds, raced, broken>>
  BY DEF Save, WrittenElsewhere
<1>2. \/ wanted' = disk' /\ debounce'
      \/ wanted' = wanted /\ (debounce => debounce')
  <2>1. CASE Save /\ auto
    <3>1. debounce' = (debounce \/ auto)
      BY <2>1 DEF Save
    <3>2. debounce'
      BY <2>1, <3>1, Zenon
    <3> QED
      BY <2>1, <3>2 DEF Save
  <2>2. CASE Save /\ ~auto
    <3>1. debounce' = (debounce \/ auto)
      BY <2>2 DEF Save
    <3>2. debounce => debounce'
      BY <3>1, Zenon
    <3> QED
      BY <2>2, <3>2 DEF Save
  <2>3. CASE WrittenElsewhere
    BY <2>3 DEF WrittenElsewhere
  <2> QED
    BY <2>1, <2>2, <2>3
<1>3. FreePlacesServeNone' /\ SharedPanelsRace' /\ BlankPanelsOpen' /\ PendingIsHidden'
  BY <1>1 DEF ServedInv, FreePlacesServeNone, SharedPanelsRace, Shared, BlankPanelsOpen, Opening,
              PendingIsHidden
<1>4. NothingIsAhead'
  BY <1>0, <1>1, <1>2 DEF ServedInv, NothingIsAhead
<1>5. CASE wanted' = disk' /\ debounce'
  <2>1. BehindIsServed'
    BY <1>5 DEF BehindIsServed
  <2>2. StaleIsBehind'
    BY <1>0, <1>1, <1>5 DEF ServedInv, StaleIsBehind, NothingIsAhead
  <2> QED
    BY <1>3, <1>4, <2>1, <2>2 DEF ServedInv
<1>6. CASE wanted' = wanted /\ (debounce => debounce')
  <2>1. BehindIsServed'
    BY <1>1, <1>6 DEF ServedInv, BehindIsServed, Served, Fresh
  <2>2. StaleIsBehind'
    BY <1>1, <1>6 DEF ServedInv, StaleIsBehind, Fresh
  <2> QED
    BY <1>3, <1>4, <2>1, <2>2 DEF ServedInv
<1> QED
  BY <1>2, <1>5, <1>6

\* PanelsBehindAreServed, for any number of panels, writes and builds: no save is
\* passed over by a panel that is visible, or was hidden at the time.
THEOREM SavesReachPanels == ViewerSpec => []PanelsBehindAreServed
<1>1. ViewerInit => ServedInv
  <2> SUFFICES ASSUME ViewerInit
               PROVE  ServedInv
    OBVIOUS
  <2>1. /\ \A p \in Panels : panels[p].at = "closed" /\ panels[p].shows = 0 /\ panels[p].pending = FALSE
        /\ \A b \in Builds : builds[b].to = {}
        /\ wanted = 0 /\ disk = 1
    BY DEF ViewerInit, Closed, NoBuild
  <2> QED
    BY <2>1 DEF ServedInv, FreePlacesServeNone, SharedPanelsRace, BlankPanelsOpen, PendingIsHidden,
                BehindIsServed, StaleIsBehind, NothingIsAhead
<1>2. ViewerInv /\ ServedInv /\ [ViewerNext]_evars => ServedInv'
  <2> SUFFICES ASSUME ViewerInv, ServedInv, [ViewerNext]_evars
               PROVE  ServedInv'
    OBVIOUS
  <2>1. CASE UNCHANGED evars
    BY <2>1, ReadingServes DEF evars, Fresh
  <2>2. ASSUME NEW b \in Builds, BuildStep(b) \/ BuildFails(b)
        PROVE  ServedInv'
    BY <2>2, BuildStepServes, FailServes
  <2>3. CASE DebounceFires
    BY <2>3, RefreshingServes
  <2>4. CASE Save \/ WrittenElsewhere
    BY <2>4, FileServes
  <2>5. ASSUME NEW p \in Panels,
               \/ Open(p) \/ Close(p) \/ Hide(p) \/ Show(p) \/ RequestRefresh(p)
               \/ ReleaseCache(p) \/ PageReports(p)
        PROVE  ServedInv'
    BY <2>5, PanelServes, RefreshingServes
  <2> QED
    BY <2>1, <2>2, <2>3, <2>4, <2>5 DEF ViewerNext
<1>3. ServedInv => PanelsBehindAreServed
  <2> SUFFICES ASSUME ServedInv, NEW p \in Panels, panels[p].at = "visible", panels[p].shows < wanted
               PROVE  \/ broken \/ p \in raced \/ debounce
                      \/ \E b \in Builds : p \in builds[b].to /\ Fresh(b)
    BY DEF PanelsBehindAreServed
  <2>1. broken \/ p \in raced \/ debounce \/ panels[p].pending \/ Served(p)
    BY DEF ServedInv, BehindIsServed
  <2> QED
    BY <2>1 DEF ServedInv, PendingIsHidden, Served
<1> QED
  BY <1>1, <1>2, <1>3, ViewerInvariant, PTL DEF ViewerSpec
=============================================================================
