------------------------ MODULE WorkspaceContextProofs ------------------------
(***************************************************************************)
(* Proofs about WorkspaceContext, for any number of folders: its inductive *)
(* invariant, that the user's selection is kept, and that it implements    *)
(* ActiveProject.                                                          *)
(***************************************************************************)
EXTENDS WorkspaceContext, SequenceTheorems, WellFoundedInduction, TLAPS


\* Folders is a sequence of the projects, and has each of them.
LEMMA FoldersAreProjects ==
  /\ Len(Folders) \in Nat
  /\ \A i \in 1 .. Len(Folders) : Folders[i] \in Projects
  /\ \A p \in Projects : \E i \in 1 .. Len(Folders) : p = Folders[i]
BY WorkspaceAssumption, ElementOfSeq DEF Projects

\* A set of projects that is not empty has a first one.
LEMMA FirstExists ==
  ASSUME NEW P \in SUBSET Projects, P # {}
  PROVE  \E p \in P : \A q \in P : Position(p) <= Position(q)
<1>1. \A p \in Projects : Position(p) \in 1 .. Len(Folders) /\ Folders[Position(p)] = p
  BY FoldersAreProjects DEF Position
<1> DEFINE S == {Position(p) : p \in P}
<1>2. S \in SUBSET Nat /\ S # {}
  BY <1>1, FoldersAreProjects
<1> HIDE DEF S
<1> DEFINE Less == {ss \in Nat \X Nat : ss[1] < ss[2]}
<1>3. IsWellFoundedOn(Less, Nat)
  BY NatLessThanWellFounded DEF OpToRel
<1>4. \E n \in S : \A m \in S : <<m, n>> \notin Less
  <2> HIDE DEF Less
  <2> QED
    BY <1>2, <1>3, WFMin
<1>5. PICK n \in S : \A m \in S : <<m, n>> \notin Less
  BY <1>4
<1>6. ASSUME NEW m \in S
      PROVE  n <= m
  <2>1. m \in Nat /\ n \in Nat
    BY <1>2
  <2>2. ~(m < n)
    BY <1>5, <2>1
  <2> QED
    BY <2>1, <2>2
<1> QED
  BY <1>6 DEF S

\* The active project that PickActiveProject chooses for a list.
LEMMA PickIsListed ==
  ASSUME NEW P \in SUBSET Projects, NEW previous, NEW saved, NEW uri
  PROVE  LET a == PickActiveProject(P, previous, saved, uri)
         IN  /\ a \in P \union {None}
             /\ a = None <=> P = {}
             /\ previous \in P => a = previous
             /\ previous \notin P /\ saved \in P => a = saved
<1> DEFINE First == CHOOSE p \in P : \A q \in P : Position(p) <= Position(q)
<1>1. P # {} => First \in P
  BY FirstExists
<1> HIDE DEF First
<1>2. None \notin P
  BY WorkspaceAssumption
<1>3. PickActiveProject(P, previous, saved, uri) =
        IF P = {} THEN None
        ELSE IF previous \in P THEN previous
        ELSE IF saved \in P THEN saved
        ELSE IF uri \in P THEN uri
        ELSE First
  BY DEF PickActiveProject, First
<1> QED
  BY <1>1, <1>2, <1>3

-----------------------------------------------------------------------------
\* The invariant holds at first,
LEMMA WorkspaceInvInit == WorkspaceInit => WorkspaceInv
<1> SUFFICES ASSUME WorkspaceInit
             PROVE  WorkspaceInv
  OBVIOUS
<1>1. NewRun(focus) \in [uri : Maybe(Projects), next : 1 .. Len(Folders) + 1,
              found : SUBSET Projects, trusted : BOOLEAN, cli : Maybe(Clis),
              allegro : Maybe(Clis), name : Maybe(Projects)]
  BY FoldersAreProjects DEF WorkspaceInit, NewRun, Maybe
<1>2. << >> \in Seq(Projects)
  BY EmptySeq
<1>3. /\ EmptyStore \in [projects : SUBSET Projects, active : Maybe(Projects), trusted : BOOLEAN]
      /\ EmptyKeys \in [focus : Maybe(Projects), cli : Maybe(Clis), allegro : Maybe(Clis),
                        trusted : BOOLEAN]
  BY DEF EmptyStore, EmptyKeys, Maybe
<1>4. watched \in BOOLEAN /\ queued \in BOOLEAN /\ failed \in BOOLEAN /\ trusted \in BOOLEAN
  BY Zenon DEF WorkspaceInit
<1>5. WorkspaceTypeOK
  BY <1>1, <1>2, <1>3, <1>4, WorkspaceAssumption
     DEF WorkspaceInit, WorkspaceTypeOK, Maybe, Stages
<1>6. ScanMissesOnlyGone
  BY FoldersAreProjects DEF WorkspaceInit, ScanMissesOnlyGone, NewRun
<1> QED
  BY <1>5, <1>6 DEF WorkspaceInv

RunType == [uri : Maybe(Projects), next : 1 .. Len(Folders) + 1, found : SUBSET Projects,
            trusted : BOOLEAN, cli : Maybe(Clis), allegro : Maybe(Clis), name : Maybe(Projects)]
StoreType == [projects : SUBSET Projects, active : Maybe(Projects), trusted : BOOLEAN]
KeysType == [focus : Maybe(Projects), cli : Maybe(Clis), allegro : Maybe(Clis),
             trusted : BOOLEAN]

\* A refresh that begins has scanned nothing yet.
LEMMA BeginRunInv ==
  ASSUME disk' \in SUBSET Projects, focus \in Maybe(Projects), disk' = disk, BeginRun
  PROVE  /\ run' \in RunType /\ stage' \in Stages /\ gone' \in SUBSET Projects
         /\ ScanMissesOnlyGone'
<1>1. run' \in RunType
  BY FoldersAreProjects DEF BeginRun, NewRun, Maybe, RunType
<1>2. stage' = "scanning" /\ gone' = Projects \ disk' /\ run'.next = 1
  BY DEF BeginRun, NewRun
<1> QED
  BY <1>1, <1>2 DEF Stages, ScanMissesOnlyGone

\* A request for a refresh begins one or is queued.
LEMMA RefreshInv ==
  ASSUME WorkspaceInv, disk' = disk, Refresh
  PROVE  /\ run' \in RunType /\ stage' \in Stages /\ gone' \in SUBSET Projects
         /\ queued' \in BOOLEAN /\ ScanMissesOnlyGone'
<1>1. disk' \in SUBSET Projects /\ focus \in Maybe(Projects) /\ queued \in BOOLEAN
      /\ run \in RunType /\ stage \in Stages /\ gone \in SUBSET Projects
  BY Zenon DEF WorkspaceInv, WorkspaceTypeOK, RunType
<1>2. queued' \in BOOLEAN
  BY <1>1, Zenon DEF Refresh
<1>3. CASE stage = "idle"
  BY <1>1, <1>2, <1>3, BeginRunInv DEF Refresh
<1>4. CASE stage # "idle"
  BY <1>1, <1>2, <1>4 DEF Refresh, WorkspaceInv, ScanMissesOnlyGone
<1> QED
  BY <1>3, <1>4

\* The end of a refresh: the one that was queued begins.
LEMMA EndRunInv ==
  ASSUME WorkspaceInv, disk' = disk, EndRun
  PROVE  /\ run' \in RunType /\ stage' \in Stages /\ gone' \in SUBSET Projects
         /\ queued' \in BOOLEAN /\ ScanMissesOnlyGone'
<1>1. disk' \in SUBSET Projects /\ focus \in Maybe(Projects) /\ queued \in BOOLEAN
      /\ run \in RunType /\ stage \in Stages /\ gone \in SUBSET Projects
  BY Zenon DEF WorkspaceInv, WorkspaceTypeOK, RunType
<1>2. queued' \in BOOLEAN
  BY Zenon DEF EndRun
<1>3. CASE queued
  BY <1>1, <1>2, <1>3, BeginRunInv DEF EndRun
<1>4. CASE ~queued
  BY <1>1, <1>2, <1>4 DEF EndRun, ScanMissesOnlyGone, Stages
<1> QED
  BY <1>3, <1>4

\* The steps of a refresh keep the invariant.
LEMMA RefreshStepInv ==
  ASSUME WorkspaceInv, RefreshStep
  PROVE  WorkspaceInv'
<1> USE FoldersAreProjects DEF WorkspaceInv, WorkspaceTypeOK, world, flags, caches
<1>1. CASE ScanFolder
  <2>1. Folders[run.next] \in Projects
    BY <1>1 DEF ScanFolder
  <2>2. run' \in RunType
    <3>1. run \in RunType /\ run.next + 1 \in 1 .. Len(Folders) + 1
          /\ run.found \union ({Folders[run.next]} \intersect disk) \in SUBSET Projects
      BY <1>1 DEF ScanFolder, RunType
    <3>2. run' = [run EXCEPT !.next = run.next + 1,
                             !.found = run.found \union ({Folders[run.next]} \intersect disk)]
      BY <1>1 DEF ScanFolder
    <3> QED
      BY ONLY <3>1, <3>2 DEF RunType
  <2>3. ScanMissesOnlyGone'
    <3> SUFFICES ASSUME NEW i \in 1 .. run'.next - 1
                 PROVE  Folders[i] \in run'.found \union gone
      BY <1>1 DEF ScanFolder, ScanMissesOnlyGone
    <3>1. CASE i < run.next
      BY <1>1, <3>1 DEF ScanFolder, ScanMissesOnlyGone
    <3>2. CASE i = run.next
      BY <1>1, <2>1, <3>2 DEF ScanFolder, ScanMissesOnlyGone
    <3> QED
      BY <1>1, <3>1, <3>2 DEF ScanFolder
  <2> QED
    BY <1>1, <2>2, <2>3 DEF ScanFolder, RunType
<1>2. CASE ReadTrust
  <2>1. run' \in RunType /\ stage' \in Stages
    BY <1>2 DEF ReadTrust, RunType, Stages
  <2>2. ScanMissesOnlyGone'
    BY <1>2 DEF ReadTrust, ScanMissesOnlyGone
  <2> QED
    BY <1>2, <2>1, <2>2 DEF ReadTrust, RunType
<1>3. CASE ProbeCli
  <2>1. Detect \in Maybe(Clis)
    BY DEF Detect
  <2>2. detected' \in Maybe(Clis) /\ allegro' \in Maybe(Clis)
    BY <1>3, <2>1 DEF ProbeCli
  <2>3. run' \in RunType /\ stage' \in Stages
    BY <1>3, <2>1, <2>2 DEF ProbeCli, RunType, Stages
  <2>4. ScanMissesOnlyGone'
    BY <1>3 DEF ProbeCli, ScanMissesOnlyGone
  <2> QED
    BY <1>3, <2>2, <2>3, <2>4 DEF ProbeCli, RunType
<1>4. CASE Publish
  <2> DEFINE a == PickActiveProject(run.found, store.active, persisted, run.uri)
  <2>1. run.found \in SUBSET Projects
    OBVIOUS
  <2>2. a \in Maybe(Projects)
    BY <2>1, PickIsListed DEF Maybe
  <2> HIDE DEF a
  <2>3. /\ store' = [projects |-> run.found, active |-> a, trusted |-> run.trusted]
        /\ run' = [run EXCEPT !.name = a]
    BY <1>4 DEF Publish, a
  <2>4. run' \in RunType /\ store' \in StoreType /\ stage' \in Stages
    <3>1. run \in RunType /\ run.trusted \in BOOLEAN
      BY Zenon DEF RunType
    <3>2. run' \in RunType
      BY ONLY <2>2, <2>3, <3>1 DEF RunType
    <3>3. store' \in StoreType
      BY ONLY <2>1, <2>2, <2>3, <3>1 DEF StoreType
    <3> QED
      BY <1>4, <3>2, <3>3 DEF Publish, Stages
  <2>5. ScanMissesOnlyGone'
    BY <1>4, <2>3 DEF Publish, ScanMissesOnlyGone
  <2> QED
    BY <1>4, <2>4, <2>5 DEF Publish, RunType, StoreType
<1>5. CASE SetKeys
  <2>1. failed' \in BOOLEAN
    BY <1>5, Zenon DEF SetKeys
  <2>2. keys' \in KeysType /\ barName' \in Maybe(Projects) /\ disk' = disk /\ EndRun
    BY <1>5 DEF SetKeys, KeysType
  <2>3. /\ run' \in RunType /\ stage' \in Stages /\ gone' \in SUBSET Projects
        /\ queued' \in BOOLEAN /\ ScanMissesOnlyGone'
    BY <2>2, EndRunInv
  <2> QED
    BY <1>5, <2>1, <2>2, <2>3 DEF SetKeys, RunType, KeysType
<1> QED
  BY <1>1, <1>2, <1>3, <1>4, <1>5 DEF RefreshStep

\* Steps that ask for a refresh, or end one, keep the invariant.
LEMMA CoalescingInv ==
  ASSUME WorkspaceInv,
         ContextTimer \/ ProjectTimer \/ RefreshFails \/ TrustGranted \/ CommandRefreshes
  PROVE  WorkspaceInv'
<1> USE DEF WorkspaceInv, WorkspaceTypeOK, world, caches
<1>1. CASE ContextTimer \/ ProjectTimer \/ CommandRefreshes
  <2>1. disk' = disk /\ Refresh
    BY <1>1 DEF ContextTimer, ProjectTimer, CommandRefreshes
  <2>2. /\ run' \in RunType /\ stage' \in Stages /\ gone' \in SUBSET Projects
        /\ queued' \in BOOLEAN /\ ScanMissesOnlyGone'
    BY <2>1, RefreshInv
  <2>3. events' \in 0 .. MaxEvents /\ timers' \in SUBSET {"context", "projects"}
    <3>1. events' = events \/ (events < MaxEvents /\ events' = events + 1)
      BY <1>1 DEF ContextTimer, ProjectTimer, CommandRefreshes, Event
    <3>2. timers' \in SUBSET {"context", "projects"}
      BY <1>1 DEF ContextTimer, ProjectTimer, CommandRefreshes
    <3> QED
      BY <3>1, <3>2, WorkspaceAssumption
  <2> QED
    BY <1>1, <2>2, <2>3 DEF ContextTimer, ProjectTimer, CommandRefreshes, RunType
<1>2. CASE RefreshFails
  <2>1. failed' \in BOOLEAN
    BY <1>2, Zenon DEF RefreshFails
  <2>2. disk' = disk /\ EndRun
    BY <1>2 DEF RefreshFails
  <2>3. /\ run' \in RunType /\ stage' \in Stages /\ gone' \in SUBSET Projects
        /\ queued' \in BOOLEAN /\ ScanMissesOnlyGone'
    BY <2>2, EndRunInv
  <2>4. events' \in 0 .. MaxEvents
    BY <1>2, WorkspaceAssumption DEF RefreshFails
  <2> QED
    BY <1>2, <2>1, <2>3, <2>4 DEF RefreshFails, RunType
<1>3. CASE TrustGranted
  <2>1. trusted' \in BOOLEAN
    BY <1>3, Zenon DEF TrustGranted
  <2>2. disk' = disk /\ Refresh
    BY <1>3 DEF TrustGranted
  <2>3. /\ run' \in RunType /\ stage' \in Stages /\ gone' \in SUBSET Projects
        /\ queued' \in BOOLEAN /\ ScanMissesOnlyGone'
    BY <2>2, RefreshInv
  <2>4. events' \in 0 .. MaxEvents /\ detected' \in Maybe(Clis)
    BY <1>3, WorkspaceAssumption DEF TrustGranted, Event, Detect
  <2> QED
    BY <1>3, <2>1, <2>3, <2>4 DEF TrustGranted, RunType
<1> QED
  BY <1>1, <1>2, <1>3

\* And so do the others.
LEMMA SurroundingsInv ==
  ASSUME WorkspaceInv,
         \/ WatcherTells \/ SelectResumes \/ \E p \in Projects : Select(p)
         \/ \E D \in SUBSET Projects : DiskChanges(D)
         \/ \E f \in Maybe(Projects) : FocusChanges(f)
         \/ \E c \in Maybe(Clis) : ConfigurationChanges(c)
         \/ Reload
  PROVE  WorkspaceInv'
<1> USE WorkspaceAssumption DEF WorkspaceInv, WorkspaceTypeOK, world, flags, caches
<1>1. CASE WatcherTells
  <2>1. watched' \in BOOLEAN
    BY <1>1, Zenon DEF WatcherTells
  <2> QED
    BY <1>1, <2>1 DEF WatcherTells, ScanMissesOnlyGone
<1>2. CASE SelectResumes
  <2>1. Head(selecting) \in Projects /\ Tail(selecting) \in Seq(Projects)
    BY <1>2, HeadTailProperties DEF SelectResumes
  <2>2. store' \in StoreType /\ barName' \in Maybe(Projects)
    BY <1>2, <2>1 DEF SelectResumes, StoreType, Maybe
  <2> QED
    BY <1>2, <2>1, <2>2 DEF SelectResumes, StoreType, ScanMissesOnlyGone
<1>3. ASSUME NEW p \in Projects, Select(p)
      PROVE  WorkspaceInv'
  <2>1. selecting' \in Seq(Projects)
    BY <1>3, AppendProperties DEF Select
  <2>2. events' \in 0 .. MaxEvents /\ persisted' \in Maybe(Projects)
    BY <1>3 DEF Select, Maybe
  <2> QED
    BY <1>3, <2>1, <2>2 DEF Select, ScanMissesOnlyGone
<1>4. ASSUME NEW D \in SUBSET Projects, DiskChanges(D)
      PROVE  WorkspaceInv'
  <2>1. watched' \in BOOLEAN
    BY <1>4, Zenon DEF DiskChanges
  <2>2. events' \in 0 .. MaxEvents /\ disk' = D /\ gone' = gone \union (Projects \ D)
    BY <1>4 DEF DiskChanges, Event
  <2>3. ScanMissesOnlyGone'
    BY <1>4, <2>2 DEF DiskChanges, ScanMissesOnlyGone
  <2> QED
    BY <1>4, <2>1, <2>2, <2>3 DEF DiskChanges
<1>5. ASSUME NEW f \in Maybe(Projects), FocusChanges(f)
      PROVE  WorkspaceInv'
  <2>1. events' \in 0 .. MaxEvents /\ timers' \in SUBSET {"context", "projects"}
    BY <1>5 DEF FocusChanges, Event
  <2> QED
    BY <1>5, <2>1 DEF FocusChanges, ScanMissesOnlyGone
<1>6. ASSUME NEW c \in Maybe(Clis), ConfigurationChanges(c)
      PROVE  WorkspaceInv'
  <2>1. events' \in 0 .. MaxEvents /\ timers' \in SUBSET {"context", "projects"}
        /\ detected' \in Maybe(Clis) /\ allegro' \in Maybe(Clis)
    BY <1>6 DEF ConfigurationChanges, Event, Maybe
  <2> QED
    BY <1>6, <2>1 DEF ConfigurationChanges, ScanMissesOnlyGone
<1>7. CASE Reload
  <2>1. watched' \in BOOLEAN /\ queued' \in BOOLEAN /\ failed' \in BOOLEAN
    BY <1>7, Zenon DEF Reload
  <2>2. disk' = disk /\ BeginRun
    BY <1>7 DEF Reload
  <2>3. /\ run' \in RunType /\ stage' \in Stages /\ gone' \in SUBSET Projects
        /\ ScanMissesOnlyGone'
    BY <2>2, BeginRunInv
  <2>4. store' \in StoreType /\ keys' \in KeysType /\ selecting' \in Seq(Projects)
    BY <1>7, EmptySeq DEF Reload, EmptyStore, EmptyKeys, StoreType, KeysType, Maybe
  <2>5. events' \in 0 .. MaxEvents /\ barName' \in Maybe(Projects) /\ timers' = {}
        /\ detected' \in Maybe(Clis) /\ allegro' \in Maybe(Clis)
    BY <1>7 DEF Reload, Event, Maybe
  <2> QED
    BY <1>7, <2>1, <2>3, <2>4, <2>5 DEF Reload, RunType, StoreType, KeysType
<1> QED
  BY <1>1, <1>2, <1>3, <1>4, <1>5, <1>6, <1>7

\* The invariant of the controller: types, and that a refresh misses only what
\* was off the disk.
THEOREM WorkspaceInvariant == WorkspaceSpec => []WorkspaceInv
<1>1. WorkspaceInv /\ [WorkspaceNext]_wvars => WorkspaceInv'
  <2> SUFFICES ASSUME WorkspaceInv, [WorkspaceNext]_wvars
               PROVE  WorkspaceInv'
    OBVIOUS
  <2>1. CASE UNCHANGED wvars
    BY <2>1 DEF wvars, world, flags, caches, WorkspaceInv, WorkspaceTypeOK, ScanMissesOnlyGone
  <2> QED
    BY <2>1, RefreshStepInv, CoalescingInv, SurroundingsInv DEF WorkspaceNext
<1> QED
  BY <1>1, WorkspaceInvInit, PTL DEF WorkspaceSpec

-----------------------------------------------------------------------------
\* The active project stays what the user chose: SelectionIsKept.
THEOREM SelectionKept == WorkspaceSpec => SelectionIsKept
<1> DEFINE Kept == store'.active # store.active /\ store' # EmptyStore =>
       \/ selecting # << >> /\ store'.active = Head(selecting)
       \/ store.active # None /\ store.active \in gone
       \/ store.active = None /\ store'.active = persisted
       \/ store.active = None /\ persisted \in Maybe(gone)
<1>1. WorkspaceInv /\ [WorkspaceNext]_wvars => [Kept]_wvars
  <2> SUFFICES ASSUME WorkspaceInv, [WorkspaceNext]_wvars,
                      store'.active # store.active, store' # EmptyStore
               PROVE  \/ selecting # << >> /\ store'.active = Head(selecting)
                      \/ store.active # None /\ store.active \in gone
                      \/ store.active = None /\ store'.active = persisted
                      \/ store.active = None /\ persisted \in Maybe(gone)
    OBVIOUS
  <2>1. CASE SelectResumes
    <3>1. store' = [store EXCEPT !.active = Head(selecting)] /\ selecting # << >>
      BY <2>1 DEF SelectResumes
    <3>2. store \in StoreType
      BY DEF WorkspaceInv, WorkspaceTypeOK, StoreType
    <3> QED
      BY <3>1, <3>2 DEF StoreType
  <2>2. CASE Publish
    <3> DEFINE a == PickActiveProject(run.found, store.active, persisted, run.uri)
    <3>1. store' = [projects |-> run.found, active |-> a, trusted |-> run.trusted]
          /\ stage = "asking-variants"
      BY <2>2 DEF Publish
    <3>2. /\ run.found \in SUBSET Projects
          /\ store.active \in Maybe(Projects) /\ persisted \in Maybe(Projects)
      BY DEF WorkspaceInv, WorkspaceTypeOK
    <3>3. /\ store.active \in run.found => a = store.active
          /\ store.active \notin run.found /\ persisted \in run.found => a = persisted
      BY <3>2, PickIsListed
    <3>4. Projects \subseteq run.found \union gone
      BY <3>1, FoldersAreProjects DEF WorkspaceInv, ScanMissesOnlyGone
    <3> HIDE DEF a
    <3>5. store'.active = a
      BY <3>1
    <3>6. store.active \notin run.found
      BY <3>3, <3>5
    <3> QED
      BY <3>2, <3>3, <3>4, <3>5, <3>6 DEF Maybe
  <2>3. CASE UNCHANGED store
    BY <2>3
  <2>4. CASE Reload
    BY <2>4 DEF Reload
  <2> QED
    BY <2>1, <2>2, <2>3, <2>4
       DEF WorkspaceNext, RefreshStep, wvars, ContextTimer, ProjectTimer, WatcherTells,
           ScanFolder, ReadTrust, ProbeCli, SetKeys, RefreshFails, Select, DiskChanges,
           FocusChanges, ConfigurationChanges, TrustGranted, CommandRefreshes
<1> QED
  BY <1>1, WorkspaceInvariant, PTL DEF WorkspaceSpec, SelectionIsKept

-----------------------------------------------------------------------------
\* The store implements ActiveProject: at first,
LEMMA ViewInit == WorkspaceInit => View!ActiveInit
BY DEF WorkspaceInit, View!ActiveInit, EmptyStore

\* with a list that a refresh publishes,
LEMMA PublishAnnounces == WorkspaceInv /\ Publish => View!Announce
<1> SUFFICES ASSUME WorkspaceInv, Publish
             PROVE  View!Announce
  OBVIOUS
<1> DEFINE P == run.found
           a == PickActiveProject(P, store.active, persisted, run.uri)
<1>1. P \in SUBSET Projects
  BY DEF WorkspaceInv, WorkspaceTypeOK
<1>2. store'.projects = P /\ store'.active = a /\ UNCHANGED <<persisted, selecting>>
  BY DEF Publish
<1>3. /\ a \in P \union {None}
      /\ a = None <=> P = {}
      /\ store.active \in P => a = store.active
      /\ store.active \notin P /\ persisted \in P => a = persisted
  BY <1>1, PickIsListed
<1> HIDE DEF P, a
<1> QED
  BY <1>1, <1>2, <1>3 DEF View!Announce

\* and in every step of the controller and of what is around it.
LEMMA ViewStep == WorkspaceInv /\ [WorkspaceNext]_wvars => [View!ActiveNext]_(View!avars)
<1> SUFFICES ASSUME WorkspaceInv, [WorkspaceNext]_wvars
             PROVE  [View!ActiveNext]_(View!avars)
  OBVIOUS
<1>1. CASE Publish
  BY <1>1, PublishAnnounces DEF View!ActiveNext
<1>2. ASSUME NEW p \in Projects, Select(p)
      PROVE  View!ActiveNext
  BY <1>2 DEF Select, View!ActiveNext, View!Choose
<1>3. CASE SelectResumes
  <2>1. store'.projects = store.projects /\ store'.active = Head(selecting)
    BY <1>3 DEF SelectResumes, WorkspaceInv, WorkspaceTypeOK
  <2> QED
    BY <1>3, <2>1 DEF SelectResumes, View!ActiveNext, View!Apply
<1>4. CASE Reload
  BY <1>4 DEF Reload, EmptyStore, View!ActiveNext, View!Restart
<1>5. CASE UNCHANGED <<store, persisted, selecting>>
  BY <1>5 DEF View!avars
<1> QED
  BY <1>1, <1>2, <1>3, <1>4, <1>5
     DEF WorkspaceNext, RefreshStep, wvars, ContextTimer, ProjectTimer, WatcherTells,
         ScanFolder, ReadTrust, ProbeCli, SetKeys, RefreshFails, DiskChanges,
         FocusChanges, ConfigurationChanges, TrustGranted, CommandRefreshes

\* The safety part of ImplementsActiveProject: whatever is awaited, queued or
\* debounced, a reader of the store sees only what ActiveProject allows.
THEOREM StoreImplementsActiveProject == WorkspaceSpec => View!ActiveSafeSpec
BY ViewInit, ViewStep, WorkspaceInvariant, PTL DEF WorkspaceSpec, View!ActiveSafeSpec
-----------------------------------------------------------------------------
(***************************************************************************)
(* QuietIsCurrent.  A refresh in flight has read only what is current, or  *)
(* another is asked for: by the flag, or by a timer that is set.           *)
(***************************************************************************)
Asked == queued \/ timers # {}

Shown == IF trusted THEN setting ELSE None

CachesAreOfSetting == detected \in {None, setting} /\ allegro \in {None, setting}

RunIsFresh ==
  stage # "idle" =>
    /\ Asked \/ run.uri = focus
    /\ Asked \/ watched \/ run.found = disk \intersect {Folders[i] : i \in 1 .. run.next - 1}
    /\ stage # "scanning" => Asked \/ run.trusted = trusted
    /\ stage \in {"scanning", "asking-provider"} => run.cli = None /\ run.allegro = None
    /\ stage \in {"asking-variants", "publishing"} =>
         Asked \/ (run.cli = Shown /\ run.allegro = Shown)
    /\ stage = "publishing" => store.projects = run.found /\ store.trusted = run.trusted

IdleIsCurrent ==
  stage = "idle" =>
    /\ ~queued
    /\ \/ Asked \/ failed
       \/ /\ watched \/ store.projects = disk
          /\ store.trusted = trusted
          /\ keys = [focus |-> focus, trusted |-> trusted, cli |-> Shown, allegro |-> Shown]

QuietInv == CachesAreOfSetting /\ RunIsFresh /\ IdleIsCurrent

\* A refresh that begins has read nothing that could be stale.
LEMMA BegunIsFresh ==
  ASSUME BeginRun, focus' = focus
  PROVE  RunIsFresh' /\ IdleIsCurrent'
<1>1. /\ stage' = "scanning" /\ run'.uri = focus /\ run'.next = 1 /\ run'.found = {}
      /\ run'.cli = None /\ run'.allegro = None
  BY DEF BeginRun, NewRun
<1>2. {Folders'[i] : i \in 1 .. run'.next - 1} = {}
  BY <1>1
<1> QED
  BY <1>1, <1>2 DEF RunIsFresh, IdleIsCurrent

\* A request begins a refresh, or leaves the flag behind.
LEMMA RequestedIsFresh ==
  ASSUME QuietInv, Refresh, UNCHANGED <<focus, store>>
  PROVE  RunIsFresh' /\ IdleIsCurrent'
<1>1. CASE stage = "idle"
  BY <1>1, BegunIsFresh DEF Refresh
<1>2. CASE stage # "idle"
  <2>1. queued' = TRUE /\ UNCHANGED <<stage, run, store>>
    BY <1>2 DEF Refresh
  <2>2. Asked'
    BY <2>1, Zenon DEF Asked
  <2> QED
    BY <1>2, <2>1, <2>2 DEF QuietInv, RunIsFresh, IdleIsCurrent
<1> QED
  BY <1>1, <1>2

\* The steps of a refresh: each reads what is current when it reads it.
LEMMA RefreshStepQuiet ==
  ASSUME WorkspaceInv, QuietInv, RefreshStep
  PROVE  QuietInv'
<1> USE DEF world, flags, caches
<1>0. run \in RunType /\ Len(Folders) \in Nat
  BY FoldersAreProjects DEF WorkspaceInv, WorkspaceTypeOK, RunType
<1>1. CASE ScanFolder
  <2>1. /\ stage = "scanning" /\ stage' = "scanning"
        /\ run'.uri = run.uri /\ run'.cli = run.cli /\ run'.allegro = run.allegro
        /\ run'.next = run.next + 1
        /\ run'.found = run.found \union ({Folders[run.next]} \intersect disk)
        /\ UNCHANGED <<disk, focus, setting, trusted, watched, timers, queued, store, caches,
                       keys, failed>>
    BY <1>0, <1>1 DEF ScanFolder, RunType
  <2>2. {Folders[i] : i \in 1 .. run'.next - 1}
          = {Folders[i] : i \in 1 .. run.next - 1} \union {Folders[run.next]}
    <3>1. run.next \in Nat \ {0}
      BY <1>0 DEF RunType
    <3>2. 1 .. run'.next - 1 = (1 .. run.next - 1) \union {run.next}
      BY <2>1, <3>1
    <3> QED
      BY <3>2
  <2>3. CachesAreOfSetting' /\ IdleIsCurrent'
    BY <2>1 DEF QuietInv, CachesAreOfSetting, IdleIsCurrent
  <2>4. Asked' = Asked
    BY <2>1 DEF Asked
  <2>5. Asked \/ watched \/ run'.found = disk \intersect {Folders[i] : i \in 1 .. run'.next - 1}
    <3>1. Asked \/ watched \/ run.found = disk \intersect {Folders[i] : i \in 1 .. run.next - 1}
      BY <2>1 DEF QuietInv, RunIsFresh
    <3> QED
      BY <3>1, <2>1, <2>2
  <2>6. RunIsFresh'
    BY <2>1, <2>4, <2>5 DEF QuietInv, RunIsFresh
  <2> QED
    BY <2>3, <2>6 DEF QuietInv
<1>2. CASE ReadTrust
  <2>1. /\ stage = "scanning" /\ stage' = "asking-provider"
        /\ run'.trusted = trusted
        /\ run'.uri = run.uri /\ run'.cli = run.cli /\ run'.allegro = run.allegro
        /\ run'.next = run.next /\ run'.found = run.found
        /\ UNCHANGED <<disk, focus, setting, trusted, watched, timers, queued, store, caches,
                       keys, failed>>
    BY <1>0, <1>2 DEF ReadTrust, RunType
  <2>2. Asked' = Asked
    BY <2>1 DEF Asked
  <2> QED
    BY <2>1, <2>2 DEF QuietInv, CachesAreOfSetting, RunIsFresh, IdleIsCurrent
<1>3. CASE ProbeCli
  <2>1. /\ stage = "asking-provider" /\ stage' = "asking-variants"
        /\ UNCHANGED <<disk, focus, setting, trusted, watched, timers, queued, store, keys,
                       failed>>
    BY <1>3 DEF ProbeCli
  <2>2. Asked' = Asked /\ Shown' = Shown
    BY <2>1 DEF Asked, Shown
  <2>3. Detect = setting /\ run.cli = None /\ run.allegro = None
    BY <2>1 DEF QuietInv, CachesAreOfSetting, RunIsFresh, Detect
  <2>4. CASE run.trusted /\ setting # None
    <3>1. /\ detected' = setting /\ allegro' = setting
          /\ run' = [run EXCEPT !.cli = setting, !.allegro = setting]
      BY <1>3, <2>3, <2>4 DEF ProbeCli, QuietInv, CachesAreOfSetting
    <3>2. /\ run'.cli = setting /\ run'.allegro = setting /\ run'.trusted = run.trusted
          /\ run'.uri = run.uri /\ run'.next = run.next /\ run'.found = run.found
      BY <1>0, <3>1 DEF RunType
    <3> QED
      BY <2>1, <2>2, <2>4, <3>1, <3>2
         DEF QuietInv, CachesAreOfSetting, RunIsFresh, IdleIsCurrent, Shown
  <2>5. CASE ~(run.trusted /\ setting # None)
    <3>1. UNCHANGED <<run, detected, allegro>>
      BY <1>3, <2>3, <2>5 DEF ProbeCli
    <3> QED
      BY <2>1, <2>2, <2>3, <2>5, <3>1
         DEF QuietInv, CachesAreOfSetting, RunIsFresh, IdleIsCurrent, Shown
  <2> QED
    BY <2>4, <2>5
<1>4. CASE Publish
  <2>1. /\ stage = "asking-variants" /\ stage' = "publishing"
        /\ store'.projects = run.found /\ store'.trusted = run.trusted
        /\ UNCHANGED <<disk, focus, setting, trusted, watched, timers, queued, caches, keys,
                       failed>>
    BY <1>4 DEF Publish
  <2>2. /\ run'.trusted = run.trusted
        /\ run'.uri = run.uri /\ run'.cli = run.cli /\ run'.allegro = run.allegro
        /\ run'.next = run.next /\ run'.found = run.found
    BY <1>0, <1>4 DEF Publish, RunType
  <2>3. Asked' = Asked /\ Shown' = Shown
    BY <2>1 DEF Asked, Shown
  <2> QED
    BY <2>1, <2>2, <2>3 DEF QuietInv, CachesAreOfSetting, RunIsFresh, IdleIsCurrent
<1>5. CASE SetKeys
  <2>1. /\ stage = "publishing" /\ EndRun /\ queued' = FALSE
        /\ keys' = [focus |-> run.uri, cli |-> run.cli, allegro |-> run.allegro,
                    trusted |-> trusted]
        /\ UNCHANGED <<disk, focus, setting, trusted, watched, timers, store, caches>>
    BY <1>5 DEF SetKeys, EndRun
  <2>2. CachesAreOfSetting'
    BY <2>1 DEF QuietInv, CachesAreOfSetting
  <2>3. CASE queued
    BY <2>1, <2>2, <2>3, BegunIsFresh DEF EndRun, QuietInv
  <2>4. CASE ~queued
    <3>1. stage' = "idle"
      BY <2>1, <2>4 DEF EndRun
    <3>2. Asked' = Asked /\ Shown' = Shown
      BY <2>1, <2>4 DEF Asked, Shown
    <3>3. run.next = Len(Folders) + 1
      BY <2>1 DEF WorkspaceInv, ScanMissesOnlyGone
    <3>4. disk \intersect {Folders[i] : i \in 1 .. run.next - 1} = disk
      <4>1. disk \subseteq Projects
        BY DEF WorkspaceInv, WorkspaceTypeOK
      <4>2. {Folders[i] : i \in 1 .. run.next - 1} = Projects
        BY <3>3, <1>0 DEF Projects
      <4> QED
        BY <4>1, <4>2
    <3>5. \/ Asked
          \/ /\ watched \/ store.projects = disk
             /\ store.trusted = trusted
             /\ run.uri = focus /\ run.cli = Shown /\ run.allegro = Shown
      BY <2>1, <3>4 DEF QuietInv, RunIsFresh
    <3>6. IdleIsCurrent'
      <4>1. CASE Asked
        BY <4>1, <2>1, <3>1, <3>2 DEF IdleIsCurrent
      <4>2. CASE ~Asked
        BY <4>2, <2>1, <3>1, <3>2, <3>5 DEF IdleIsCurrent
      <4> QED
        BY <4>1, <4>2
    <3> QED
      BY <2>2, <3>1, <3>6 DEF QuietInv, RunIsFresh
  <2> QED
    BY <2>3, <2>4
<1> QED
  BY <1>1, <1>2, <1>3, <1>4, <1>5 DEF RefreshStep

\* Requests, and a refresh that throws.
LEMMA CoalescingQuiet ==
  ASSUME QuietInv,
         ContextTimer \/ ProjectTimer \/ RefreshFails \/ TrustGranted \/ CommandRefreshes
  PROVE  QuietInv'
<1> USE DEF world, caches
<1>1. CASE ContextTimer \/ ProjectTimer \/ CommandRefreshes
  <2>1. Refresh /\ UNCHANGED <<focus, store, setting, detected, allegro>>
    BY <1>1 DEF ContextTimer, ProjectTimer, CommandRefreshes
  <2> QED
    BY <2>1, RequestedIsFresh DEF QuietInv, CachesAreOfSetting
<1>2. CASE TrustGranted
  <2>1. Refresh /\ UNCHANGED <<focus, store, setting, allegro>> /\ detected' = Detect
    BY <1>2 DEF TrustGranted
  <2> QED
    BY <2>1, RequestedIsFresh DEF QuietInv, CachesAreOfSetting, Detect
<1>3. CASE RefreshFails
  <2>1. /\ stage # "idle" /\ EndRun /\ failed' = TRUE /\ queued' = FALSE
        /\ UNCHANGED <<focus, setting, detected, allegro>>
    BY <1>3 DEF RefreshFails, EndRun
  <2>2. CachesAreOfSetting'
    BY <2>1 DEF QuietInv, CachesAreOfSetting
  <2>3. CASE queued
    BY <2>1, <2>2, <2>3, BegunIsFresh DEF EndRun, QuietInv
  <2>4. CASE ~queued
    BY <2>1, <2>2, <2>4 DEF EndRun, QuietInv, RunIsFresh, IdleIsCurrent
  <2> QED
    BY <2>3, <2>4
<1> QED
  BY <1>1, <1>2, <1>3

\* What happens around the controller sets a timer, or is not shown.
LEMMA SurroundingsQuiet ==
  ASSUME WorkspaceInv, QuietInv,
         \/ WatcherTells \/ SelectResumes \/ \E p \in Projects : Select(p)
         \/ \E D \in SUBSET Projects : DiskChanges(D)
         \/ \E f \in Maybe(Projects) : FocusChanges(f)
         \/ \E c \in Maybe(Clis) : ConfigurationChanges(c)
         \/ Reload
  PROVE  QuietInv'
<1> USE DEF world, flags, caches
<1>1. CASE WatcherTells \/ (\E f \in Maybe(Projects) : FocusChanges(f))
           \/ (\E c \in Maybe(Clis) : ConfigurationChanges(c))
  <2>1. timers' # {} /\ UNCHANGED <<stage, queued, run, store>>
    BY <1>1 DEF WatcherTells, FocusChanges, ConfigurationChanges
  <2>2. CachesAreOfSetting'
    BY <1>1 DEF WatcherTells, FocusChanges, ConfigurationChanges, QuietInv, CachesAreOfSetting
  <2>3. Asked'
    BY <2>1, Zenon DEF Asked
  <2> QED
    BY <2>1, <2>2, <2>3 DEF QuietInv, RunIsFresh, IdleIsCurrent
<1>2. CASE SelectResumes
  <2>1. store'.projects = store.projects /\ store'.trusted = store.trusted
    BY <1>2 DEF SelectResumes, WorkspaceInv, WorkspaceTypeOK
  <2>2. /\ UNCHANGED <<stage, queued, run, timers, disk, focus, setting, trusted, watched, keys,
                       failed, detected, allegro>>
    BY <1>2 DEF SelectResumes
  <2>3. Asked' = Asked /\ Shown' = Shown
    BY <2>2 DEF Asked, Shown
  <2> QED
    BY <2>1, <2>2, <2>3 DEF QuietInv, CachesAreOfSetting, RunIsFresh, IdleIsCurrent
<1>3. ASSUME NEW p \in Projects, Select(p)
      PROVE  QuietInv'
  <2>1. /\ UNCHANGED <<stage, queued, run, timers, disk, focus, setting, trusted, watched, keys,
                       failed, detected, allegro, store>>
    BY <1>3 DEF Select
  <2>2. Asked' = Asked /\ Shown' = Shown
    BY <2>1 DEF Asked, Shown
  <2> QED
    BY <2>1, <2>2 DEF QuietInv, CachesAreOfSetting, RunIsFresh, IdleIsCurrent
<1>4. ASSUME NEW D \in SUBSET Projects, DiskChanges(D)
      PROVE  QuietInv'
  <2>1. /\ watched'
        /\ UNCHANGED <<stage, queued, run, timers, focus, setting, trusted, keys,
                       failed, detected, allegro, store>>
    BY <1>4 DEF DiskChanges
  <2>2. Asked' = Asked /\ Shown' = Shown
    BY <2>1 DEF Asked, Shown
  <2> QED
    BY <2>1, <2>2 DEF QuietInv, CachesAreOfSetting, RunIsFresh, IdleIsCurrent
<1>5. CASE Reload
  <2>1. BeginRun /\ focus' = focus /\ detected' = None /\ allegro' = None
    BY <1>5 DEF Reload
  <2> QED
    BY <2>1, BegunIsFresh DEF QuietInv, CachesAreOfSetting
<1> QED
  BY <1>1, <1>2, <1>3, <1>4, <1>5

\* QuietIsCurrent, for any folders: when no refresh is in flight, asked for or to
\* be asked for by the watcher, the list, the trust and the context keys agree with
\* the disk, the focus and the configuration, unless the last refresh threw.
THEOREM QuietStateIsCurrent == WorkspaceSpec => []QuietIsCurrent
<1>1. WorkspaceInit => QuietInv
  <2> SUFFICES ASSUME WorkspaceInit
               PROVE  QuietInv
    OBVIOUS
  <2>1. {Folders[i] : i \in 1 .. run.next - 1} = {}
    BY DEF WorkspaceInit, NewRun
  <2> QED
    BY <2>1 DEF WorkspaceInit, NewRun, QuietInv, CachesAreOfSetting, RunIsFresh, IdleIsCurrent
<1>2. WorkspaceInv /\ QuietInv /\ [WorkspaceNext]_wvars => QuietInv'
  <2> SUFFICES ASSUME WorkspaceInv, QuietInv, [WorkspaceNext]_wvars
               PROVE  QuietInv'
    OBVIOUS
  <2>1. CASE UNCHANGED wvars
    <3>1. /\ UNCHANGED <<stage, queued, run, timers, disk, focus, setting, trusted, watched, keys,
                         failed, detected, allegro, store>>
      BY <2>1 DEF wvars, world, flags, caches
    <3>2. Asked' = Asked /\ Shown' = Shown
      BY <3>1 DEF Asked, Shown
    <3> QED
      BY <3>1, <3>2 DEF QuietInv, CachesAreOfSetting, RunIsFresh, IdleIsCurrent
  <2> QED
    BY <2>1, RefreshStepQuiet, CoalescingQuiet, SurroundingsQuiet DEF WorkspaceNext
<1>3. QuietInv => QuietIsCurrent
  BY DEF QuietInv, IdleIsCurrent, QuietIsCurrent, Current, Asked, Shown
<1> QED
  BY <1>1, <1>2, <1>3, WorkspaceInvariant, PTL DEF WorkspaceSpec
=============================================================================
