------------------------- MODULE StudioContextProofs -------------------------
(***************************************************************************)
(* Proofs about ContextBridge, pushed to at any time with any context, and *)
(* about StudioContext, which drives it.                                   *)
(***************************************************************************)
EXTENDS StudioContext, SequenceTheorems, TLAPS

\* The bridge is well typed at first,
LEMMA BridgeTypeInit == BridgeInit => BridgeTypeOK
<1> SUFFICES ASSUME BridgeInit
             PROVE  BridgeTypeOK
  OBVIOUS
<1>1. flushTimer \in BOOLEAN
  BY Zenon DEF BridgeInit
<1>2. sent \in Seq(Contexts)
  BY EmptySeq DEF BridgeInit
<1> QED
  BY <1>1, <1>2 DEF BridgeInit, BridgeTypeOK

\* and stays well typed.
LEMMA BridgeTypeStep == BridgeTypeOK /\ [BridgeNext]_bridgeVars => BridgeTypeOK'
<1> SUFFICES ASSUME BridgeTypeOK, [BridgeNext]_bridgeVars
             PROVE  BridgeTypeOK'
  OBVIOUS
<1> USE DEF BridgeTypeOK
<1>1. CASE UNCHANGED bridgeVars
  BY <1>1 DEF bridgeVars
<1>2. ASSUME NEW x \in Contexts \union {None}, Flush(x)
      PROVE  BridgeTypeOK'
  <2>1. flushTimer' \in BOOLEAN
    BY <1>2, Zenon DEF Flush
  <2>2. CASE x \in {None, last}
    BY <1>2, <2>1, <2>2 DEF Flush
  <2>3. CASE x \notin {None, last}
    <3>1. x \in Contexts /\ sent' = Append(sent, x) /\ last' = x
      BY <1>2, <2>3 DEF Flush
    <3>2. sent' \in Seq(Contexts)
      BY <3>1, AppendProperties
    <3> QED
      BY <1>2, <2>1, <3>1, <3>2 DEF Flush
  <2> QED
    BY <2>2, <2>3
<1>3. ASSUME NEW x \in Contexts, NEW reason \in Reasons, PushContext(x, reason)
      PROVE  BridgeTypeOK'
  BY <1>2, <1>3 DEF PushContext, bridgeVars
<1> QED
  BY <1>1, <1>2, <1>3 DEF BridgeNext, FlushTimerFires, DisposeBridge

\* BridgeTypeOK holds of the bridge, whatever is pushed.
THEOREM BridgeTypeCorrect == BridgeSpec => []BridgeTypeOK
BY BridgeTypeInit, BridgeTypeStep, PTL DEF BridgeSpec

\* Something is pending exactly while the timer is armed.
THEOREM PendingTimed == BridgeSpec => []PendingIsTimed
<1>1. BridgeInit => PendingIsTimed
  BY DEF BridgeInit, PendingIsTimed
<1>2. PendingIsTimed /\ [BridgeNext]_bridgeVars => PendingIsTimed'
  BY BridgeAssumption
     DEF PendingIsTimed, BridgeNext, PushContext, FlushTimerFires, DisposeBridge,
         Flush, bridgeVars
<1> QED
  BY <1>1, <1>2, PTL DEF BridgeSpec

\* The hash that is compared with is that of the last context sent.
THEOREM LastSent == BridgeSpec => []LastIsSent
<1>1. BridgeInit => LastIsSent
  BY DEF BridgeInit, LastIsSent
<1>2. BridgeTypeOK /\ LastIsSent /\ [BridgeNext]_bridgeVars => LastIsSent'
  <2> SUFFICES ASSUME BridgeTypeOK, LastIsSent, [BridgeNext]_bridgeVars
               PROVE  LastIsSent'
    OBVIOUS
  <2>1. CASE UNCHANGED <<last, sent>>
    BY <2>1 DEF LastIsSent
  <2>2. ASSUME NEW x \in Contexts, last' = x, sent' = Append(sent, x)
        PROVE  LastIsSent'
    BY <2>2 DEF LastIsSent, BridgeTypeOK
  <2> QED
    BY <2>1, <2>2 DEF BridgeNext, PushContext, FlushTimerFires, DisposeBridge,
                      Flush, bridgeVars, BridgeTypeOK
<1> QED
  BY <1>1, <1>2, BridgeTypeCorrect, PTL DEF BridgeSpec

\* No context is sent twice in a row: what is appended differs from the last
\* context sent, which LastIsSent says is the one it was compared with.
THEOREM NoRepeat == BridgeSpec => []NoRepeatedSend
<1>1. BridgeInit => NoRepeatedSend
  BY DEF BridgeInit, NoRepeatedSend
<1>2. BridgeTypeOK /\ LastIsSent /\ NoRepeatedSend /\ [BridgeNext]_bridgeVars
        => NoRepeatedSend'
  <2> SUFFICES ASSUME BridgeTypeOK, LastIsSent, NoRepeatedSend,
                      [BridgeNext]_bridgeVars
               PROVE  NoRepeatedSend'
    OBVIOUS
  <2>1. CASE UNCHANGED sent
    BY <2>1 DEF NoRepeatedSend
  <2>2. ASSUME NEW x \in Contexts, x # last, sent' = Append(sent, x)
        PROVE  NoRepeatedSend'
    <3> SUFFICES ASSUME NEW i \in 1 .. Len(sent') - 1
                 PROVE  sent'[i] # sent'[i + 1]
      BY DEF NoRepeatedSend
    <3>1. /\ sent \in Seq(Contexts) /\ Len(sent) \in Nat
          /\ Len(sent') = Len(sent) + 1
          /\ \A j \in 1 .. Len(sent) : sent'[j] = sent[j]
          /\ sent'[Len(sent) + 1] = x
      BY <2>2 DEF BridgeTypeOK
    <3>2. CASE i < Len(sent)
      <4>1. sent[i] # sent[i + 1]
        BY <3>1, <3>2 DEF NoRepeatedSend
      <4> QED
        BY <3>1, <3>2, <4>1
    <3>3. CASE i = Len(sent)
      <4>1. sent # <<>>
        BY <3>1, <3>3
      <4> QED
        BY <2>2, <3>1, <3>3, <4>1 DEF LastIsSent
    <3> QED
      BY <3>1, <3>2, <3>3
  <2> QED
    BY <2>1, <2>2 DEF BridgeNext, PushContext, FlushTimerFires, DisposeBridge,
                      Flush, bridgeVars, BridgeTypeOK
<1> QED
  BY <1>1, <1>2, BridgeTypeCorrect, LastSent, PTL DEF BridgeSpec

-----------------------------------------------------------------------------
(***************************************************************************)
(* The controller.                                                         *)
(***************************************************************************)

\* pushStudioContext appends a build and changes no other.
LEMMA BegunBuild ==
  ASSUME StudioTypeOK, NEW reason \in Reasons, NEW v \in Views,
         BeginBuild(reason, v)
  PROVE  /\ builds' \in Seq(Builds)
         /\ Len(builds') = Len(builds) + 1
         /\ \A b \in 1 .. Len(builds) : builds'[b] = builds[b]
         /\ builds'[Len(builds) + 1].view = v
         /\ builds'[Len(builds) + 1].stage = "detecting"
<1>1. [stage |-> "detecting", reason |-> reason, view |-> v, drc |-> 0] \in Builds
  BY StudioAssumption DEF Builds
<1>2. builds \in Seq(Builds)
  BY DEF StudioTypeOK
<1> QED
  BY <1>1, <1>2, AppendProperties DEF BeginBuild

\* A step of a build changes that build alone.
LEMMA SteppedBuild ==
  ASSUME StudioTypeOK, NEW b \in 1 .. Len(builds),
         Detected(b) \/ PushBuilt(b)
  PROVE  /\ builds' \in Seq(Builds)
         /\ Len(builds') = Len(builds)
         /\ \A d \in 1 .. Len(builds) : d # b => builds'[d] = builds[d]
         /\ Detected(b) => builds'[b] = [builds[b] EXCEPT !.stage = "naming", !.drc = drc]
         /\ PushBuilt(b) => builds'[b] = [builds[b] EXCEPT !.stage = "done"]
<1>1. builds \in Seq(Builds) /\ builds[b] \in Builds
  BY DEF StudioTypeOK
<1>2. [builds[b] EXCEPT !.stage = "naming", !.drc = drc] \in Builds
  BY <1>1 DEF Builds, StudioTypeOK
<1>3. [builds[b] EXCEPT !.stage = "done"] \in Builds
  BY <1>1 DEF Builds
<1>4. Detected(b) =>
        builds' = [builds EXCEPT ![b] = [builds[b] EXCEPT !.stage = "naming", !.drc = drc]]
  BY <1>1 DEF Detected
<1>5. PushBuilt(b) => builds' = [builds EXCEPT ![b] = [builds[b] EXCEPT !.stage = "done"]]
  BY <1>1 DEF PushBuilt
<1>6. Detected(b) => ~PushBuilt(b)
  BY DEF Detected, PushBuilt
<1>7. CASE Detected(b)
  BY <1>1, <1>2, <1>4, <1>6, <1>7, ExceptSeq
<1>8. CASE PushBuilt(b)
  BY <1>1, <1>3, <1>5, <1>6, <1>8, ExceptSeq
<1> QED
  BY <1>7, <1>8

\* Every step of the controller is a step of the bridge, or does not touch it:
\* what a build pushes is a context.
LEMMA StudioStepIsBridgeStep ==
  StudioTypeOK /\ [StudioNext]_allVars => [BridgeNext]_bridgeVars
<1> SUFFICES ASSUME StudioTypeOK, [StudioNext]_allVars
             PROVE  [BridgeNext]_bridgeVars
  OBVIOUS
<1>1. ASSUME NEW b \in 1 .. Len(builds), PushBuilt(b)
      PROVE  BridgeNext
  <2>1. builds[b] \in Builds
    BY DEF StudioTypeOK
  <2>2. BuiltContext(b) \in Contexts /\ builds[b].reason \in Reasons
    BY <2>1, StudioAssumption DEF BuiltContext, Builds
  <2> QED
    BY <1>1, <2>2 DEF PushBuilt, BridgeNext
<1>2. CASE FlushFires \/ Dispose
  BY <1>2 DEF FlushFires, Dispose, BridgeNext
<1> QED
  BY <1>1, <1>2 DEF StudioNext, Focus, ChangeUnpushed, Save, DrcEnds, DrcPushes,
                    DrcIsNotPushed, MoveCursor, CursorTimerFires, Detected,
                    allVars, bridgeVars

\* What is stored in a build is of its type, and what it pushes is a context.
THEOREM StudioTypeCorrect == StudioSpec => []StudioTypeOK
<1>1. StudioInit => StudioTypeOK
  <2> SUFFICES ASSUME StudioInit
               PROVE  StudioTypeOK
    OBVIOUS
  <2>1. BridgeTypeOK
    BY BridgeTypeInit DEF StudioInit
  <2>2. cursorTimer \in BOOLEAN /\ disposed \in BOOLEAN
    BY Zenon DEF StudioInit
  <2>3. builds \in Seq(Builds) /\ Len(builds) = 0
    BY EmptySeq DEF StudioInit
  <2>4. ~cursorTimer
    BY Zenon DEF StudioInit
  <2>5. BuildsBegun <= MaxBuilds
    BY <2>3, <2>4, StudioAssumption DEF BuildsBegun
  <2> QED
    BY <2>1, <2>2, <2>3, <2>5, StudioAssumption DEF StudioInit, StudioTypeOK
<1>2. StudioTypeOK /\ [StudioNext]_allVars => StudioTypeOK'
  <2> SUFFICES ASSUME StudioTypeOK, [StudioNext]_allVars
               PROVE  StudioTypeOK'
    OBVIOUS
  <2>1. BridgeTypeOK'
    BY StudioStepIsBridgeStep, BridgeTypeStep DEF StudioTypeOK
  <2>2. view' \in Views
    BY DEF StudioTypeOK, StudioNext, Focus, ChangeUnpushed, Save, DrcEnds, DrcPushes,
           DrcIsNotPushed, MoveCursor, Detected, CursorTimerFires, PushBuilt,
           FlushFires, Dispose, allVars, studioVars
  <2>6. drc' \in 0 .. MaxRuns /\ owed' \in 0 .. drc'
    <3>1. CASE DrcEnds
      BY <3>1, StudioAssumption DEF StudioTypeOK, DrcEnds
    <3>2. ASSUME owed > 0, owed' = owed - 1, UNCHANGED drc
          PROVE  drc' \in 0 .. MaxRuns /\ owed' \in 0 .. drc'
      BY <3>2, StudioAssumption DEF StudioTypeOK
    <3>3. CASE UNCHANGED <<drc, owed>>
      BY <3>3 DEF StudioTypeOK
    <3> QED
      BY <3>1, <3>2, <3>3
         DEF StudioNext, Focus, ChangeUnpushed, Save, DrcPushes, DrcIsNotPushed, MoveCursor,
             Detected, CursorTimerFires, PushBuilt, FlushFires, Dispose, allVars,
             studioVars
  <2>3. cursorTimer' \in BOOLEAN /\ disposed' \in BOOLEAN
    BY Zenon
       DEF StudioTypeOK, StudioNext, Focus, ChangeUnpushed, Save, DrcEnds, DrcPushes,
           DrcIsNotPushed, MoveCursor, Detected, CursorTimerFires, PushBuilt,
           FlushFires, Dispose, allVars, studioVars
  <2>4. unseen' \subseteq {"view", "drc"} /\ slips' \subseteq {"reordered", "returned"}
    BY DEF StudioTypeOK, StudioNext, Focus, ChangeUnpushed, Save, DrcEnds, DrcPushes,
           DrcIsNotPushed, MoveCursor, Detected, CursorTimerFires, PushBuilt,
           BeginBuild, Slips, FlushFires, Dispose, allVars, studioVars
  <2>5. builds' \in Seq(Builds) /\ BuildsBegun' <= MaxBuilds
    <3>1. /\ builds \in Seq(Builds) /\ Len(builds) \in Nat /\ BuildsBegun <= MaxBuilds
          /\ cursorTimer => BuildsBegun = Len(builds) + 1
          /\ ~cursorTimer => BuildsBegun = Len(builds)
          /\ cursorTimer' => BuildsBegun' = Len(builds') + 1
          /\ ~cursorTimer' => BuildsBegun' = Len(builds')
      BY DEF StudioTypeOK, BuildsBegun
    <3>2. CASE UNCHANGED <<builds, cursorTimer>>
      BY <3>1, <3>2 DEF BuildsBegun
    <3>3. ASSUME NEW reason \in Reasons, NEW v \in Views, BeginBuild(reason, v),
                 \/ Room /\ UNCHANGED cursorTimer
                 \/ cursorTimer /\ ~cursorTimer'
          PROVE  builds' \in Seq(Builds) /\ BuildsBegun' <= MaxBuilds
      <4>1. builds' \in Seq(Builds) /\ Len(builds') = Len(builds) + 1
        BY <3>3, BegunBuild
      <4>2. CASE cursorTimer /\ ~cursorTimer'
        BY <3>1, <4>1, <4>2
      <4>3. CASE Room /\ UNCHANGED cursorTimer
        <5>1. BuildsBegun < MaxBuilds
          BY <4>3 DEF Room
        <5>2. BuildsBegun' = BuildsBegun + 1
          <6>1. CASE cursorTimer
            <7>1. cursorTimer'
              BY <4>3, <6>1, Zenon
            <7> QED
              BY <3>1, <4>1, <6>1, <7>1
          <6>2. CASE ~cursorTimer
            <7>1. ~cursorTimer'
              BY <4>3, <6>2, Zenon
            <7> QED
              BY <3>1, <4>1, <6>2, <7>1
          <6> QED
            BY <6>1, <6>2
        <5>3. BuildsBegun \in Nat
          BY <3>1
        <5> QED
          BY <4>1, <5>1, <5>2, <5>3, StudioAssumption
      <4> QED
        BY <3>3, <4>2, <4>3
    <3>4. ASSUME NEW v \in Views, MoveCursor(v)
          PROVE  builds' \in Seq(Builds) /\ BuildsBegun' <= MaxBuilds
      BY <3>1, <3>4, StudioAssumption DEF MoveCursor, Room, BuildsBegun
    <3>5. ASSUME NEW b \in 1 .. Len(builds), Detected(b) \/ PushBuilt(b)
          PROVE  builds' \in Seq(Builds) /\ BuildsBegun' <= MaxBuilds
      <4>1. builds' \in Seq(Builds) /\ Len(builds') = Len(builds)
        BY <3>5, SteppedBuild
      <4>2. UNCHANGED cursorTimer
        BY <3>5 DEF Detected, PushBuilt
      <4> QED
        BY <3>1, <4>1, <4>2 DEF BuildsBegun
    <3>6. CASE Dispose
      <4>1. UNCHANGED builds /\ ~cursorTimer'
        BY <3>6, Zenon DEF Dispose
      <4> QED
        BY <3>1, <4>1, StudioAssumption
    <3>7. {"focus", "save", "drc", "default", "cursor"} \subseteq Reasons /\ view \in Views
      BY DEF Reasons, Immediate, StudioTypeOK
    <3>8. ASSUME NEW v \in Views, Focus(v)
          PROVE  builds' \in Seq(Builds) /\ BuildsBegun' <= MaxBuilds
      BY <3>3, <3>7, <3>8 DEF Focus
    <3>9. ASSUME NEW reason \in {"save", "default"}, Save(reason)
          PROVE  builds' \in Seq(Builds) /\ BuildsBegun' <= MaxBuilds
      BY <3>3, <3>7, <3>9 DEF Save
    <3>10. ASSUME NEW reason \in {"drc", "default"}, DrcPushes(reason)
           PROVE  builds' \in Seq(Builds) /\ BuildsBegun' <= MaxBuilds
      BY <3>3, <3>7, <3>10 DEF DrcPushes
    <3>11. CASE CursorTimerFires
      BY <3>3, <3>7, <3>11 DEF CursorTimerFires
    <3> QED
      BY <3>2, <3>4, <3>5, <3>6, <3>8, <3>9, <3>10, <3>11
         DEF StudioNext, ChangeUnpushed, DrcEnds, DrcIsNotPushed, FlushFires,
             allVars, studioVars
  <2> QED
    BY <2>1, <2>2, <2>3, <2>4, <2>5, <2>6 DEF StudioTypeOK
<1> QED
  BY <1>1, <1>2, PTL DEF StudioSpec

\* The controller is one of the environments the bridge is specified for, so what
\* is proved of BridgeSpec holds of the bridge that the controller drives.
LEMMA StudioImplementsBridge == StudioSpec => BridgeSpec
<1>1. StudioInit => BridgeInit
  BY DEF StudioInit
<1> QED
  BY <1>1, StudioStepIsBridgeStep, StudioTypeCorrect, PTL DEF StudioSpec, BridgeSpec

\* With the controller too, nothing waits without a timer.
COROLLARY StudioPendingTimed == StudioSpec => []PendingIsTimed
BY StudioImplementsBridge, PendingTimed, PTL

\* With the controller too, the adapter never gets a context twice in a row.
COROLLARY StudioNoRepeat == StudioSpec => []NoRepeatedSend
BY StudioImplementsBridge, NoRepeat, PTL

\* The latest build is current: an event that changes what builds read begins a
\* build with the new view and an unread DRC run, arms the cursor timer, or is
\* one of those that push nothing.
THEOREM LatestCurrent == StudioSpec => []LatestBuildIsCurrent
<1>1. StudioInit => LatestBuildIsCurrent
  BY DEF StudioInit, LatestBuildIsCurrent
<1>2. StudioTypeOK /\ LatestBuildIsCurrent /\ [StudioNext]_allVars
        => LatestBuildIsCurrent'
  <2> SUFFICES ASSUME StudioTypeOK, LatestBuildIsCurrent, [StudioNext]_allVars,
                      builds' # <<>>, ~disposed'
               PROVE  LatestBuildIsCurrent'
    BY DEF LatestBuildIsCurrent
  <2>1. builds \in Seq(Builds) /\ Len(builds) \in Nat /\ view \in Views
    BY DEF StudioTypeOK
  <2>2. ASSUME NEW reason \in Reasons, NEW v \in Views, BeginBuild(reason, v),
               view' = v
        PROVE  LatestBuildIsCurrent'
    <3>1. /\ Len(builds') = Len(builds) + 1
          /\ builds'[Len(builds) + 1].view = v
          /\ builds'[Len(builds) + 1].stage = "detecting"
      BY <2>2, BegunBuild
    <3> QED
      BY <2>2, <3>1 DEF LatestBuildIsCurrent
  <2>3. {"focus", "save", "drc", "default", "cursor"} \subseteq Reasons
    BY DEF Reasons, Immediate
  <2>4. ASSUME NEW v \in Views, Focus(v)
        PROVE  LatestBuildIsCurrent'
    BY <2>2, <2>3, <2>4 DEF Focus
  <2>5. ASSUME \/ \E reason \in {"save", "default"} : Save(reason)
               \/ \E reason \in {"drc", "default"} : DrcPushes(reason)
               \/ CursorTimerFires
        PROVE  LatestBuildIsCurrent'
    BY <2>1, <2>2, <2>3, <2>5 DEF Save, DrcPushes, CursorTimerFires
  <2>6. ASSUME NEW v \in Views, MoveCursor(v)
        PROVE  LatestBuildIsCurrent'
    <3>1. cursorTimer' /\ UNCHANGED <<builds, drc, owed, unseen>> /\ ~disposed
      BY <2>6, Zenon DEF MoveCursor
    <3> QED
      BY <3>1 DEF LatestBuildIsCurrent
  <2>7. ASSUME NEW b \in 1 .. Len(builds), Detected(b) \/ PushBuilt(b)
        PROVE  LatestBuildIsCurrent'
    <3> DEFINE n == Len(builds)
    <3>1. /\ UNCHANGED <<view, drc, owed, unseen>>
          /\ ~disposed
          /\ ~cursorTimer' => ~cursorTimer
      <4>1. UNCHANGED <<view, drc, owed, unseen>>
        BY <2>7 DEF Detected, PushBuilt
      <4>2. disposed' = disposed /\ cursorTimer' = cursorTimer
        BY <2>7 DEF Detected, PushBuilt
      <4>3. ~disposed /\ (~cursorTimer' => ~cursorTimer)
        BY <4>2, Zenon
      <4> QED
        BY <4>1, <4>3
    <3>2. n \in 1 .. Len(builds) /\ Len(builds') = n /\ builds[n] \in Builds
      <4>1. Len(builds') = n
        BY <2>7, SteppedBuild
      <4> QED
        BY <2>1, <2>7, <4>1
    <3>3. /\ ~cursorTimer /\ "view" \notin unseen => builds[n].view = view
          /\ builds[n].stage # "detecting" /\ owed = 0 /\ "drc" \notin unseen
               => builds[n].drc = drc
      BY <3>1, <3>2 DEF LatestBuildIsCurrent
    <3>4. CASE b = n /\ Detected(b)
      <4>1. builds'[n] = [builds[n] EXCEPT !.stage = "naming", !.drc = drc]
        BY <3>4, SteppedBuild
      <4> QED
        BY <3>1, <3>2, <3>3, <4>1 DEF LatestBuildIsCurrent, Builds
    <3>5. CASE b = n /\ PushBuilt(b)
      <4>1. builds'[n] = [builds[n] EXCEPT !.stage = "done"]
        BY <3>5, SteppedBuild
      <4>2. builds[n].stage = "naming"
        BY <3>5 DEF PushBuilt
      <4> QED
        BY <3>1, <3>2, <3>3, <4>1, <4>2 DEF LatestBuildIsCurrent, Builds
    <3>6. CASE b # n
      <4>1. builds'[n] = builds[n]
        BY <2>7, <3>2, <3>6, SteppedBuild
      <4> QED
        BY <3>1, <3>2, <3>3, <4>1 DEF LatestBuildIsCurrent
    <3> QED
      BY <2>7, <3>4, <3>5, <3>6
  <2>8. CASE FlushFires \/ UNCHANGED allVars
    <3>1. UNCHANGED <<view, drc, owed, builds, cursorTimer, disposed, unseen>>
      BY <2>8 DEF FlushFires, allVars, studioVars
    <3> QED
      BY <3>1 DEF LatestBuildIsCurrent
  <2>9. ~Dispose
    BY Zenon DEF Dispose
  <2>10. CASE DrcEnds
    <3>1. owed' # 0
      BY <2>10 DEF DrcEnds, StudioTypeOK
    <3>2. UNCHANGED <<view, builds, cursorTimer, disposed, unseen>>
      BY <2>10 DEF DrcEnds
    <3> QED
      BY <3>1, <3>2 DEF LatestBuildIsCurrent
  <2>11. CASE DrcIsNotPushed
    <3>1. "drc" \in unseen' /\ ("view" \notin unseen' => "view" \notin unseen)
      BY <2>11 DEF DrcIsNotPushed
    <3>2. UNCHANGED <<view, builds, cursorTimer, disposed>>
      BY <2>11 DEF DrcIsNotPushed
    <3> QED
      BY <3>1, <3>2 DEF LatestBuildIsCurrent
  <2>12. ASSUME NEW v \in Views, ChangeUnpushed(v)
         PROVE  LatestBuildIsCurrent'
    <3>1. "view" \in unseen' /\ ("drc" \notin unseen' => "drc" \notin unseen)
      BY <2>12 DEF ChangeUnpushed
    <3>2. UNCHANGED <<drc, owed, builds, cursorTimer, disposed>>
      BY <2>12 DEF ChangeUnpushed
    <3> QED
      BY <3>1, <3>2 DEF LatestBuildIsCurrent
  <2> QED
    BY <2>4, <2>5, <2>6, <2>7, <2>8, <2>9, <2>10, <2>11, <2>12 DEF StudioNext
<1> QED
  BY <1>1, <1>2, StudioTypeCorrect, PTL DEF StudioSpec

\* Sending what is pending does not change what is effective.
LEMMA FlushKeepsEffective ==
  ASSUME Flush(pending)
  PROVE  Effective' = Effective
BY DEF Flush, Effective

\* Pushing a context makes it effective, unless it was sent last and another
\* one is pending.
LEMMA PushMakesEffective ==
  ASSUME NEW x \in Contexts, NEW reason, PushContext(x, reason),
         x = last => pending = None
  PROVE  Effective' = x
BY BridgeAssumption DEF PushContext, Flush, Effective, bridgeVars

\* Unless the push made last left an older context behind it, the latest build
\* handed over is the effective one: a push that did not slip restores that by
\* itself, and no flush, timer or deactivation drops a context.
THEOREM LatestEffective == StudioSpec => []LatestBuildIsEffective
<1>1. StudioInit => LatestBuildIsEffective
  BY DEF StudioInit, BridgeInit, LatestBuildIsEffective, Effective
<1>2. StudioTypeOK /\ LatestBuildIsEffective /\ [StudioNext]_allVars
        => LatestBuildIsEffective'
  <2> SUFFICES ASSUME StudioTypeOK, LatestBuildIsEffective, [StudioNext]_allVars,
                      slips' = {}
               PROVE  LatestBuildIsEffective'
    BY DEF LatestBuildIsEffective
  <2>1. builds \in Seq(Builds) /\ Len(builds) \in Nat /\ view \in Views
    BY DEF StudioTypeOK
  <2>2. ASSUME UNCHANGED slips
        PROVE  slips = {}
    BY <2>2
  <2>3. CASE UNCHANGED <<builds, slips>> /\ Effective' = Effective
    BY <2>2, <2>3 DEF LatestBuildIsEffective, Done, BuiltContext
  <2>4. ASSUME NEW reason \in Reasons, NEW v \in Views, BeginBuild(reason, v),
               UNCHANGED <<bridgeVars, slips>>
        PROVE  LatestBuildIsEffective'
    <3>1. Effective' = Effective
      BY <2>4 DEF bridgeVars, Effective
    <3>2. /\ Len(builds') = Len(builds) + 1
          /\ \A b \in 1 .. Len(builds) : builds'[b] = builds[b]
          /\ builds'[Len(builds) + 1].stage = "detecting"
      BY <2>4, BegunBuild
    <3>3. slips = {}
      BY <2>2, <2>4
    <3> QED
      BY <2>1, <3>1, <3>2, <3>3 DEF LatestBuildIsEffective, Done, BuiltContext
  <2>5. {"focus", "save", "drc", "default", "cursor"} \subseteq Reasons
    BY DEF Reasons, Immediate
  <2>6. ASSUME NEW v \in Views, Focus(v)
        PROVE  LatestBuildIsEffective'
    BY <2>4, <2>5, <2>6 DEF Focus
  <2>7. ASSUME \/ \E reason \in {"save", "default"} : Save(reason)
               \/ \E reason \in {"drc", "default"} : DrcPushes(reason)
               \/ CursorTimerFires
        PROVE  LatestBuildIsEffective'
    BY <2>1, <2>4, <2>5, <2>7 DEF Save, DrcPushes, CursorTimerFires
  <2>8. ASSUME NEW b \in 1 .. Len(builds), Detected(b)
        PROVE  LatestBuildIsEffective'
    <3>1. Effective' = Effective
      BY <2>8 DEF Detected, bridgeVars, Effective
    <3>2. /\ Len(builds') = Len(builds)
          /\ \A d \in 1 .. Len(builds) : d # b => builds'[d] = builds[d]
          /\ builds'[b] = [builds[b] EXCEPT !.stage = "naming", !.drc = drc]
      BY <2>8, SteppedBuild
    <3>3. builds[b] \in Builds /\ ~Done(b)
      BY <2>1, <2>8 DEF Detected, Done
    <3>4. ~Done(b)'
      BY <3>2, <3>3 DEF Done, Builds
    <3>5. \A d \in 1 .. Len(builds) :
            /\ Done(d)' <=> Done(d)
            /\ Done(d) => BuiltContext(d)' = BuiltContext(d)
      BY <3>2, <3>3, <3>4 DEF Done, BuiltContext
    <3>6. UNCHANGED slips
      BY <2>8 DEF Detected
    <3> QED
      BY <2>1, <2>2, <3>1, <3>2, <3>5, <3>6 DEF LatestBuildIsEffective
  <2>9. ASSUME NEW b \in 1 .. Len(builds), PushBuilt(b)
        PROVE  LatestBuildIsEffective'
    <3>1. builds[b] \in Builds
      BY <2>1
    <3>2. BuiltContext(b) \in Contexts
      BY <3>1, StudioAssumption DEF BuiltContext, Builds
    <3>3. Slips(b) = {}
      BY <2>9 DEF PushBuilt
    <3>4. BuiltContext(b) = last => pending = None
      BY <3>3 DEF Slips
    <3>5. \A d \in b + 1 .. Len(builds) : ~Done(d)
      BY <3>3 DEF Slips, Done
    <3>6. Effective' = BuiltContext(b)
      BY <2>9, <3>2, <3>4, PushMakesEffective DEF PushBuilt
    <3>7. /\ Len(builds') = Len(builds)
          /\ \A d \in 1 .. Len(builds) : d # b => builds'[d] = builds[d]
          /\ builds'[b] = [builds[b] EXCEPT !.stage = "done"]
      BY <2>9, SteppedBuild
    <3>8. Done(b)' /\ BuiltContext(b)' = BuiltContext(b)
      BY <3>1, <3>7 DEF Done, BuiltContext, Builds
    <3>9. \A d \in b + 1 .. Len(builds) : ~Done(d)'
      BY <2>1, <3>5, <3>7 DEF Done
    <3> QED
      BY <2>1, <3>6, <3>7, <3>8, <3>9 DEF LatestBuildIsEffective
  <2>10. CASE FlushFires \/ Dispose
    BY <2>3, <2>10, FlushKeepsEffective
       DEF FlushFires, FlushTimerFires, Dispose, DisposeBridge, studioVars
  <2>11. ASSUME NEW v \in Views, MoveCursor(v)
         PROVE  LatestBuildIsEffective'
    BY <2>3, <2>11 DEF MoveCursor, bridgeVars, Effective
  <2>12. CASE UNCHANGED allVars
    BY <2>3, <2>12 DEF allVars, bridgeVars, studioVars, Effective
  <2>13. CASE DrcEnds \/ DrcIsNotPushed \/ \E v \in Views : ChangeUnpushed(v)
    BY <2>3, <2>13
       DEF DrcEnds, DrcIsNotPushed, ChangeUnpushed, bridgeVars, Effective
  <2> QED
    BY <2>6, <2>7, <2>8, <2>9, <2>10, <2>11, <2>12, <2>13 DEF StudioNext
<1> QED
  BY <1>1, <1>2, StudioTypeCorrect, PTL DEF StudioSpec

\* When everything has run its course the adapter was last given the live
\* context: the latest build is done, so it is both effective and current, and
\* nothing is pending that is not timed.
THEOREM CurrentWhenIdle == StudioSpec => []IdleIsCurrent
<1>1. StudioTypeOK /\ PendingIsTimed /\ LatestBuildIsCurrent
        /\ LatestBuildIsEffective => IdleIsCurrent
  <2> SUFFICES ASSUME StudioTypeOK, PendingIsTimed, LatestBuildIsCurrent,
                      LatestBuildIsEffective, Idle, owed = 0, ~disposed,
                      unseen = {}, slips = {}, builds # <<>>
               PROVE  last = Current
    BY DEF IdleIsCurrent
  <2> DEFINE b == Len(builds)
  <2>1. b \in 1 .. Len(builds)
    BY DEF StudioTypeOK
  <2>2. Done(b) /\ ~cursorTimer /\ ~flushTimer
    BY <2>1 DEF Idle, Done
  <2>3. BuiltContext(b) = Current
    BY <2>2 DEF LatestBuildIsCurrent, Done, BuiltContext, Current
  <2>4. Effective = BuiltContext(b)
    BY <2>1, <2>2 DEF LatestBuildIsEffective
  <2>5. pending = None
    BY <2>2 DEF PendingIsTimed
  <2> QED
    BY <2>3, <2>4, <2>5 DEF Effective
<1> QED
  BY <1>1, StudioTypeCorrect, StudioPendingTimed, LatestCurrent, LatestEffective, PTL

\* With the controller, the hash kept is that of the context sent last.
THEOREM StudioLastSent == StudioSpec => []LastIsSent
BY StudioImplementsBridge, LastSent, PTL

\* What the runs check at once of controller and bridge, for any contexts and
\* any number of overlapping builds.
THEOREM StudioInvariant == StudioSpec => []StudioInv
BY StudioTypeCorrect, StudioPendingTimed, StudioLastSent, StudioNoRepeat, LatestCurrent,
   LatestEffective, PTL
   DEF StudioInv
=============================================================================
