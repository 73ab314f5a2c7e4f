---------------------------- MODULE ChatPanelProofs ----------------------------
(***************************************************************************)
(* Proofs about ChatPanel, for any number of prompts, panels and events    *)
(* and any length of the history: the controller that Cancel, a new prompt *)
(* and closing the panel go through, and what histories and the workspace  *)
(* state hold.                                                             *)
(***************************************************************************)
EXTENDS ChatPanel, SequenceTheorems, TLAPS

RunType == [panel : 0 .. MaxPanels, at : RunStages, signal : 0 .. MaxRuns,
            alone : BOOLEAN, mute : BOOLEAN]

Late == {"busy", "requesting", "receiving", "stopping", "ending"}

\* What LoneRunIsHeld says of one prompt.
Held(r) ==
  runs[r].alone /\ runs[r].at \in Late
    => /\ controller[runs[r].panel] = r /\ busy[runs[r].panel]
       /\ runs[r].at # "busy" => runs[r].signal = r

\* A prompt that is alone has its panel to itself: that is what makes its
\* controller its own.
PromptsInv ==
  /\ open \in 0 .. MaxPanels /\ made \in 0 .. MaxPanels
  /\ runs \in [Runs -> RunType]
  /\ busy \in [Panels -> BOOLEAN] /\ controller \in [Panels -> 0 .. MaxRuns]
  /\ \A r \in Runs : runs[r].at # "none" => runs[r].panel \in Panels
  /\ \A r, q \in Runs : r # q /\ Active(r) /\ Active(q) /\ runs[r].panel = runs[q].panel
                          => ~runs[r].alone
  /\ \A r \in Runs : Held(r)

-----------------------------------------------------------------------------
\* A step of prompt r touches only its own panel's controller: a prompt of that
\* panel that is alone can only be r itself.
LEMMA RunMoves ==
  ASSUME PromptsInv, NEW r \in Runs, Active(r),
         runs' \in [Runs -> RunType], \A q \in Runs \ {r} : runs'[q] = runs[q],
         runs'[r].panel = runs[r].panel, runs'[r].alone = runs[r].alone,
         busy' \in [Panels -> BOOLEAN], controller' \in [Panels -> 0 .. MaxRuns],
         \A p \in Panels \ {runs[r].panel} : controller'[p] = controller[p] /\ busy'[p] = busy[p],
         UNCHANGED <<open, made>>, Held(r)'
  PROVE  PromptsInv'
<1>1. runs[r].panel \in Panels
  BY DEF PromptsInv, Active, Finished
<1>2. \A q \in Runs : runs'[q].at # "none" => runs'[q].panel \in Panels
  BY <1>1 DEF PromptsInv
<1>3. \A s, q \in Runs : s # q /\ Active(s)' /\ Active(q)' /\ runs'[s].panel = runs'[q].panel
                          => ~runs'[s].alone
  <2> SUFFICES ASSUME NEW s \in Runs, NEW q \in Runs, s # q, Active(s)', Active(q)',
                      runs'[s].panel = runs'[q].panel
               PROVE  ~runs'[s].alone
    OBVIOUS
  <2>1. Active(s) /\ Active(q) /\ runs[s].panel = runs[q].panel
    BY DEF Active
  <2>2. ~runs[s].alone
    BY <2>1 DEF PromptsInv
  <2>3. runs'[s].alone = runs[s].alone
    OBVIOUS
  <2> QED
    BY <2>2, <2>3
<1>4. ASSUME NEW q \in Runs
      PROVE  Held(q)'
  <2>1. CASE q = r
    BY <2>1
  <2>2. CASE q # r
    <3> SUFFICES ASSUME runs[q].alone, runs[q].at \in Late
                 PROVE  /\ controller'[runs[q].panel] = q /\ busy'[runs[q].panel]
                        /\ runs[q].at # "busy" => runs[q].signal = q
      BY <2>2 DEF Held
    <3>1. Active(q) /\ runs[q].panel \in Panels
      BY DEF PromptsInv, Active, Finished, Late
    <3>2. runs[q].panel # runs[r].panel
      BY <2>2, <3>1 DEF PromptsInv
    <3>3. Held(q)
      BY DEF PromptsInv
    <3> QED
      BY <3>1, <3>2, <3>3 DEF Held
  <2> QED
    BY <2>1, <2>2
<1> QED
  BY <1>2, <1>3, <1>4 DEF PromptsInv

\* The common case: the prompt goes from one stage to another and nothing else
\* that matters changes.
LEMMA StageMoves ==
  ASSUME PromptsInv, NEW r \in Runs, Active(r), NEW s \in RunStages, At(r, s),
         UNCHANGED <<open, made, busy, controller>>,
         s \in Late => runs[r].at \in Late \ {"busy"}, s # "busy"
  PROVE  PromptsInv'
<1>1. runs' = [runs EXCEPT ![r] = [runs[r] EXCEPT !.at = s]]
  BY DEF At
<1>2. /\ runs' \in [Runs -> RunType] /\ \A q \in Runs \ {r} : runs'[q] = runs[q]
      /\ runs'[r].panel = runs[r].panel /\ runs'[r].alone = runs[r].alone
      /\ runs'[r].signal = runs[r].signal /\ runs'[r].at = s
  BY <1>1 DEF PromptsInv, RunType
<1>3. Held(r)'
  BY <1>2 DEF PromptsInv, Held
<1> QED
  BY <1>2, <1>3, RunMoves DEF PromptsInv

LEMMA FinallyInv ==
  ASSUME PromptsInv, NEW r \in Runs, Active(r), NEW h, Finally(r, h)
  PROVE  PromptsInv'
<1>1. /\ runs' = [runs EXCEPT ![r] = [runs[r] EXCEPT !.at = "off"]]
      /\ busy' = [busy EXCEPT ![runs[r].panel] = FALSE]
      /\ controller' = [controller EXCEPT ![runs[r].panel] = 0]
      /\ UNCHANGED <<open, made>>
  BY DEF Finally, At
<1>2. /\ runs' \in [Runs -> RunType] /\ \A q \in Runs \ {r} : runs'[q] = runs[q]
      /\ runs'[r].panel = runs[r].panel /\ runs'[r].alone = runs[r].alone
      /\ runs'[r].at = "off"
  BY <1>1 DEF PromptsInv, RunType, RunStages
<1>3. busy' \in [Panels -> BOOLEAN]
  BY <1>1, Zenon DEF PromptsInv
<1>4. controller' \in [Panels -> 0 .. MaxRuns]
  <2>1. controller \in [Panels -> 0 .. MaxRuns] /\ 0 \in 0 .. MaxRuns
    BY ChatAssumption DEF PromptsInv
  <2> QED
    BY <1>1, <2>1, Zenon
<1>5. \A p \in Panels \ {runs[r].panel} : controller'[p] = controller[p] /\ busy'[p] = busy[p]
  BY <1>1 DEF PromptsInv
<1>6. Held(r)'
  BY <1>2 DEF Held, Late
<1> QED
  BY <1>1, <1>2, <1>3, <1>4, <1>5, <1>6, RunMoves

LEMMA BecomeBusyInv ==
  ASSUME PromptsInv, NEW r \in Runs, BecomeBusy(r)
  PROVE  PromptsInv'
<1>1. /\ runs[r].at = "hello"
      /\ runs' = [runs EXCEPT ![r] = [runs[r] EXCEPT !.at = "busy"]]
      /\ busy' = [busy EXCEPT ![runs[r].panel] = TRUE]
      /\ controller' = [controller EXCEPT ![runs[r].panel] = r]
      /\ UNCHANGED <<open, made>>
  BY DEF BecomeBusy, At
<1>2. Active(r) /\ runs[r].panel \in Panels
  BY <1>1 DEF Active, Finished, PromptsInv
<1>3. /\ runs' \in [Runs -> RunType] /\ \A q \in Runs \ {r} : runs'[q] = runs[q]
      /\ runs'[r].panel = runs[r].panel /\ runs'[r].alone = runs[r].alone
      /\ runs'[r].at = "busy"
  BY <1>1 DEF PromptsInv, RunType, RunStages
<1>4. busy' \in [Panels -> BOOLEAN]
  BY <1>1, Zenon DEF PromptsInv
<1>5. controller' \in [Panels -> 0 .. MaxRuns]
  BY <1>1, ChatAssumption DEF PromptsInv, Runs
<1>6. \A p \in Panels \ {runs[r].panel} : controller'[p] = controller[p] /\ busy'[p] = busy[p]
  BY <1>1 DEF PromptsInv
<1>7. Held(r)'
  BY <1>1, <1>2, <1>3 DEF Held, Late, PromptsInv
<1> QED
  BY <1>1, <1>2, <1>3, <1>4, <1>5, <1>6, <1>7, RunMoves

\* A prompt that is alone reads back the controller it made.
LEMMA RequestInv ==
  ASSUME PromptsInv, NEW r \in Runs, Request(r)
  PROVE  PromptsInv'
<1>1. runs[r].at = "busy" /\ Active(r) /\ runs[r].panel \in Panels
  BY DEF Request, Active, Finished, PromptsInv
<1>2. CASE controller[runs[r].panel] = 0
  BY <1>1, <1>2, FinallyInv DEF Request
<1>3. CASE controller[runs[r].panel] # 0
  <2>1. /\ runs' = [runs EXCEPT ![r] = [runs[r] EXCEPT !.at = "requesting",
                                                      !.signal = controller[runs[r].panel]]]
        /\ UNCHANGED <<open, made, busy, controller>>
    BY <1>3 DEF Request
  <2>2. controller[runs[r].panel] \in 0 .. MaxRuns
    BY <1>1 DEF PromptsInv
  <2>3. /\ runs' \in [Runs -> RunType] /\ \A q \in Runs \ {r} : runs'[q] = runs[q]
        /\ runs'[r].panel = runs[r].panel /\ runs'[r].alone = runs[r].alone
        /\ runs'[r].signal = controller[runs[r].panel]
    BY <2>1, <2>2 DEF PromptsInv, RunType, RunStages
  <2>4. Held(r)'
    BY <1>1, <2>1, <2>3 DEF Held, Late, PromptsInv
  <2> QED
    BY <1>1, <2>1, <2>3, <2>4, RunMoves DEF PromptsInv
<1> QED
  BY <1>2, <1>3

\* A new prompt is alone if its panel answers no other, and the others are not.
LEMMA SendInv ==
  ASSUME PromptsInv, NEW r \in Runs, Send(r)
  PROVE  PromptsInv'
<1> DEFINE others == {q \in Runs : Active(q) /\ runs[q].panel = open}
<1>1. /\ open # 0 /\ runs[r] = NoRun
      /\ runs' = [q \in Runs |->
           IF q = r THEN [NoRun EXCEPT !.panel = open, !.at = "provider", !.alone = others = {}]
           ELSE IF q \in others THEN [runs[q] EXCEPT !.alone = FALSE] ELSE runs[q]]
      /\ UNCHANGED <<open, made, busy, controller>>
  BY DEF Send
<1> HIDE DEF others
<1>2. open \in Panels
  <2>1. open \in 0 .. MaxPanels /\ open # 0 /\ MaxPanels \in Nat
    BY <1>1, ChatAssumption DEF PromptsInv
  <2> QED
    BY ONLY <2>1 DEF Panels
<1>3. /\ runs'[r].panel = open /\ runs'[r].at = "provider" /\ (runs'[r].alone <=> others = {})
      /\ runs'[r] \in RunType
  <2>1. runs'[r] = [NoRun EXCEPT !.panel = open, !.at = "provider", !.alone = others = {}]
    BY <1>1, Zenon
  <2> DEFINE single == others = {}
  <2>2. single \in BOOLEAN
    OBVIOUS
  <2> HIDE DEF single
  <2>3. runs'[r] = [panel |-> open, at |-> "provider", signal |-> 0, alone |-> single,
                    mute |-> FALSE]
    BY <2>1 DEF NoRun, single
  <2>4. open \in 0 .. MaxPanels /\ 0 \in 0 .. MaxRuns /\ "provider" \in RunStages
    BY ChatAssumption DEF PromptsInv, RunStages
  <2>5. runs'[r] \in RunType
    BY <2>2, <2>3, <2>4 DEF RunType
  <2>6. runs'[r].panel = open /\ runs'[r].at = "provider" /\ runs'[r].alone = single
    BY <2>3
  <2>7. runs'[r].alone <=> others = {}
    BY <2>6, Zenon DEF single
  <2> QED
    BY <2>5, <2>6, <2>7
<1>4. ASSUME NEW q \in Runs, q # r
      PROVE  /\ runs'[q].panel = runs[q].panel /\ runs'[q].at = runs[q].at
             /\ runs'[q].signal = runs[q].signal
             /\ runs'[q] \in RunType
             /\ runs'[q].alone => runs[q].alone
             /\ q \in others => ~runs'[q].alone
  BY <1>1, <1>4 DEF PromptsInv, RunType
<1>5. r \notin others
  <2> USE DEF others
  <2>1. runs[r].at = "none"
    <3>1. runs[r] = NoRun
      BY <1>1, Zenon
    <3>2. NoRun.at = "none"
      BY DEF NoRun
    <3> QED
      BY ONLY <3>1, <3>2
  <2>2. ~Active(r)
    BY <2>1 DEF Active, Finished
  <2> QED
    BY <2>2
<1>6. runs' \in [Runs -> RunType]
  <2>1. \A q \in Runs : runs'[q] \in RunType
    BY <1>3, <1>4
  <2>2. runs' = [q \in Runs |-> runs'[q]]
    BY <1>1
  <2> QED
    BY <2>1, <2>2
<1>7. \A q \in Runs : runs'[q].at # "none" => runs'[q].panel \in Panels
  BY <1>2, <1>3, <1>4 DEF PromptsInv
<1>8. ASSUME NEW s \in Runs, NEW q \in Runs, s # q, Active(s)', Active(q)',
             runs'[s].panel = runs'[q].panel
      PROVE  ~runs'[s].alone
  <2>1. CASE s = r
    <3>1. q \in others
      BY <1>3, <1>4, <1>8, <2>1 DEF others, Active
    <3> QED
      BY <1>3, <2>1, <3>1
  <2>2. CASE q = r
    <3>1. s \in others
      BY <1>3, <1>4, <1>8, <2>2 DEF others, Active
    <3> QED
      BY <1>4, <1>8, <2>2, <3>1
  <2>3. CASE s # r /\ q # r
    <3>1. Active(s) /\ Active(q) /\ runs[s].panel = runs[q].panel
      BY <1>4, <1>8, <2>3 DEF Active
    <3> QED
      BY <1>4, <1>8, <2>3, <3>1 DEF PromptsInv
  <2> QED
    BY <2>1, <2>2, <2>3
<1>9. ASSUME NEW q \in Runs
      PROVE  Held(q)'
  <2>1. CASE q = r
    BY <1>3, <2>1 DEF Held, Late
  <2>2. CASE q # r
    <3>1. Held(q)
      BY DEF PromptsInv
    <3> QED
      BY <1>1, <1>4, <2>2, <3>1 DEF Held
  <2> QED
    BY <2>1, <2>2
<1> QED
  BY <1>1, <1>6, <1>7, <1>8, <1>9 DEF PromptsInv

\* What leaves the prompts, the controllers and who is busy alone.
LEMMA AsideInv ==
  ASSUME PromptsInv, UNCHANGED <<runs, busy, controller>>,
         open' \in 0 .. MaxPanels, made' \in 0 .. MaxPanels
  PROVE  PromptsInv'
BY DEF PromptsInv, Active, Held

LEMMA ReloadWindowInv ==
  ASSUME PromptsInv, ReloadWindow
  PROVE  PromptsInv'
<1>1. /\ open' = 0 /\ UNCHANGED <<made, busy, controller>>
      /\ runs' = [r \in Runs |-> IF Active(r) THEN [runs[r] EXCEPT !.at = "off"] ELSE runs[r]]
  BY DEF ReloadWindow
<1>2. ASSUME NEW r \in Runs
      PROVE  /\ runs'[r] \in RunType /\ runs'[r].at \in Finished
             /\ runs'[r].at # "none" => runs'[r].panel \in Panels
  <2>1. CASE Active(r)
    BY <1>1, <2>1 DEF PromptsInv, RunType, RunStages, Active, Finished
  <2>2. CASE ~Active(r)
    BY <1>1, <2>2 DEF PromptsInv, Active
  <2> QED
    BY <2>1, <2>2
<1>3. runs' \in [Runs -> RunType]
  BY <1>1, <1>2
<1>4. \A r \in Runs : ~Active(r)' /\ Held(r)'
  BY <1>2 DEF Active, Finished, Held, Late
<1>5. open' \in 0 .. MaxPanels
  BY <1>1, ChatAssumption
<1> QED
  BY <1>1, <1>2, <1>3, <1>4, <1>5 DEF PromptsInv

\* An error that is no abort, and what the catch block makes of it.
LEMMA CaughtInv ==
  ASSUME PromptsInv, NEW r \in Runs, runs[r].at \in Late \ {"busy"}, Caught(r)
  PROVE  PromptsInv'
<1>1. Active(r)
  BY DEF Active, Finished, Late
<1>2. CASE controller[runs[r].panel] = 0 /\ Finally(r, history[runs[r].panel])
  BY <1>1, <1>2, FinallyInv
<1>3. CASE At(r, "stopping") /\ UNCHANGED <<open, made, busy, controller>>
  BY <1>1, <1>3, StageMoves DEF RunStages
<1>4. CASE At(r, "ending") /\ UNCHANGED <<open, made, busy, controller>>
  BY <1>1, <1>4, StageMoves DEF RunStages
<1> QED
  BY <1>2, <1>3, <1>4 DEF Caught

-----------------------------------------------------------------------------
LEMMA PromptsInit ==
  ASSUME ChatInit
  PROVE  PromptsInv
<1>1. open = 0 /\ made = 0 /\ runs = [r \in Runs |-> NoRun]
  BY DEF ChatInit
<1>2. busy \in [Panels -> BOOLEAN]
  BY Zenon DEF ChatInit
<1>3. controller \in [Panels -> 0 .. MaxRuns]
  BY ChatAssumption DEF ChatInit
<1>4. NoRun \in RunType /\ NoRun.at = "none"
  BY ChatAssumption DEF NoRun, RunType, RunStages
<1> QED
  BY <1>1, <1>2, <1>3, <1>4, ChatAssumption DEF PromptsInv, Active, Finished, Held, Late

LEMMA PromptsNext ==
  ASSUME PromptsInv, [ChatNext]_cvars
  PROVE  PromptsInv'
<1>1. open \in 0 .. MaxPanels /\ made \in 0 .. MaxPanels
  BY DEF PromptsInv
<1>2. CASE UNCHANGED cvars
  BY <1>1, <1>2, AsideInv DEF cvars
<1>3. CASE Cancel \/ Clear
  BY <1>1, <1>3, AsideInv DEF Cancel, Clear
<1>4. CASE ClosePanel
  BY <1>1, <1>4, AsideInv, ChatAssumption DEF ClosePanel
<1>5. CASE OpenPanel
  BY <1>1, <1>5, AsideInv, ChatAssumption DEF OpenPanel
<1>6. CASE ReloadWindow
  BY <1>6, ReloadWindowInv
<1>7. ASSUME NEW r \in Runs, Send(r)
      PROVE  PromptsInv'
  BY <1>7, SendInv
<1>8. ASSUME NEW r \in Runs, NotConfigured(r) \/ PostThrows(r)
      PROVE  PromptsInv'
  <2>1. Active(r) /\ At(r, "off") /\ UNCHANGED <<open, made, busy, controller>>
    BY <1>8 DEF NotConfigured, PostThrows, Active, Finished
  <2> QED
    BY <2>1, StageMoves DEF RunStages, Late
<1>9. ASSUME NEW r \in Runs, Ask(r)
      PROVE  PromptsInv'
  <2>1. Active(r) /\ At(r, "asked") /\ UNCHANGED <<open, made, busy, controller>>
    BY <1>9 DEF Ask, Active, Finished
  <2> QED
    BY <2>1, StageMoves DEF RunStages, Late
<1>10. ASSUME NEW r \in Runs, Answer(r)
       PROVE  PromptsInv'
  <2>1. Active(r) /\ At(r, "hello") /\ UNCHANGED <<open, made, busy, controller>>
    BY <1>10 DEF Answer, Active, Finished
  <2> QED
    BY <2>1, StageMoves DEF RunStages, Late
<1>11. ASSUME NEW r \in Runs, BecomeBusy(r)
       PROVE  PromptsInv'
  BY <1>11, BecomeBusyInv
<1>12. ASSUME NEW r \in Runs, Request(r)
       PROVE  PromptsInv'
  BY <1>12, RequestInv
<1>13. ASSUME NEW r \in Runs, Aborts(r)
       PROVE  PromptsInv'
  <2>1. /\ runs[r].at = "requesting" /\ Active(r) /\ At(r, "stopping")
        /\ UNCHANGED <<open, made, busy, controller>>
    BY <1>13 DEF Aborts, Active, Finished
  <2> QED
    BY <2>1, StageMoves DEF RunStages, Late
<1>14. ASSUME NEW r \in Runs, HeadersCome(r)
       PROVE  PromptsInv'
  <2>1. /\ runs[r].at = "requesting" /\ Active(r) /\ At(r, "receiving")
        /\ UNCHANGED <<open, made, busy, controller>>
    BY <1>14 DEF HeadersCome, Active, Finished
  <2> QED
    BY <2>1, StageMoves DEF RunStages, Late
<1>15. ASSUME NEW r \in Runs, StreamEnds(r)
       PROVE  PromptsInv'
  <2>1. /\ runs[r].at = "receiving" /\ Active(r) /\ At(r, "ending")
        /\ UNCHANGED <<open, made, busy, controller>>
    BY <1>15 DEF StreamEnds, Active, Finished
  <2> QED
    BY <2>1, StageMoves DEF RunStages, Late
<1>19. ASSUME NEW r \in Runs, StreamEndsMute(r)
       PROVE  PromptsInv'
  <2>1. /\ runs[r].at = "receiving" /\ Active(r) /\ UNCHANGED <<open, made, busy, controller>>
        /\ runs' = [runs EXCEPT ![r] = [runs[r] EXCEPT !.at = "ending", !.mute = TRUE]]
    BY <1>19 DEF StreamEndsMute, Active, Finished
  <2>2. /\ runs' \in [Runs -> RunType] /\ \A q \in Runs \ {r} : runs'[q] = runs[q]
        /\ runs'[r].panel = runs[r].panel /\ runs'[r].alone = runs[r].alone
        /\ runs'[r].signal = runs[r].signal /\ runs'[r].at = "ending"
    BY <2>1 DEF PromptsInv, RunType, RunStages
  <2>3. Held(r)'
    BY <2>1, <2>2 DEF PromptsInv, Held, Late
  <2> QED
    BY <2>1, <2>2, <2>3, RunMoves DEF PromptsInv
<1>16. ASSUME NEW r \in Runs, RequestFails(r) \/ StreamBreaks(r)
       PROVE  PromptsInv'
  BY <1>16, CaughtInv DEF RequestFails, StreamBreaks, Late
<1>17. ASSUME NEW r \in Runs, Chunk(r)
       PROVE  PromptsInv'
  BY <1>1, <1>17, AsideInv DEF Chunk
<1>18. ASSUME NEW r \in Runs, End(r) \/ Stop(r)
       PROVE  PromptsInv'
  BY <1>18, FinallyInv DEF End, Stop, Active, Finished
<1> QED
  BY <1>2, <1>3, <1>4, <1>5, <1>6, <1>7, <1>8, <1>9, <1>10, <1>11, <1>12, <1>13, <1>14,
     <1>15, <1>16, <1>17, <1>18, <1>19 DEF ChatNext, RunStep, Streaming

\* Cancel, a new prompt and closing the panel reach the prompt they are meant
\* for, whatever is sent, cleared, closed or reloaded, as long as prompts do not
\* overlap.
THEOREM ChatLoneRunIsHeld == ChatSpec => []LoneRunIsHeld
<1>1. ChatInit => PromptsInv
  BY PromptsInit
<1>2. PromptsInv /\ [ChatNext]_cvars => PromptsInv'
  BY PromptsNext
<1>3. PromptsInv => LoneRunIsHeld
  BY DEF PromptsInv, Held, Late, LoneRunIsHeld
<1> QED
  BY <1>1, <1>2, <1>3, PTL DEF ChatSpec

-----------------------------------------------------------------------------
(***************************************************************************)
(* What is done to a history.                                              *)
(***************************************************************************)

\* trimHistory drops the oldest messages.
LEMMA TrimmedDrops ==
  ASSUME NEW h \in Seq(Messages)
  PROVE  /\ Trimmed(h) \in Seq(Messages) /\ Len(Trimmed(h)) <= MaxHistory
         /\ Len(h) <= MaxHistory => Trimmed(h) = h
         /\ \E k \in Nat : /\ Len(Trimmed(h)) + k = Len(h)
                           /\ \A i \in 1 .. Len(Trimmed(h)) : Trimmed(h)[i] = h[i + k]
<1>1. Len(h) \in Nat /\ MaxHistory \in Nat
  BY LenProperties, ChatAssumption
<1>2. CASE Len(h) <= MaxHistory
  BY <1>1, <1>2 DEF Trimmed
<1>3. CASE Len(h) > MaxHistory
  <2> DEFINE k == Len(h) - MaxHistory
  <2>1. k \in Nat /\ k + 1 \in Int /\ Len(h) \in Int /\ k + 1 <= Len(h) + 1
    BY <1>1, <1>3
  <2>2. Trimmed(h) = SubSeq(h, k + 1, Len(h))
    BY <1>3 DEF Trimmed
  <2>3. \A i \in k + 1 .. Len(h) : h[i] \in Messages
    BY <2>1, ElementOfSeq
  <2>4. /\ Trimmed(h) \in Seq(Messages)
        /\ Len(Trimmed(h)) = IF k + 1 <= Len(h) THEN Len(h) - (k + 1) + 1 ELSE 0
        /\ \A i \in 1 .. Len(h) - (k + 1) + 1 : Trimmed(h)[i] = h[(k + 1) + i - 1]
    BY <2>1, <2>2, <2>3, SubSeqProperties
  <2>5. Len(Trimmed(h)) = MaxHistory
    BY <1>1, <1>3, <2>1, <2>4
  <2>6. \A i \in 1 .. Len(Trimmed(h)) : Trimmed(h)[i] = h[i + k]
    BY <1>1, <1>3, <2>1, <2>4, <2>5
  <2>7. Len(Trimmed(h)) + k = Len(h)
    BY <1>1, <2>5
  <2> HIDE DEF k
  <2>8. QED  BY <1>1, <1>3, <2>1, <2>4, <2>5, <2>6, <2>7
<1>4. QED  BY <1>1, <1>2, <1>3

\* Taking a message out leaves the others, in their order.
LEMMA RemovedIsGone ==
  ASSUME NEW h \in Seq(Messages), NEW i \in 1 .. Len(h)
  PROVE  /\ RemoveAt(h, i) \in Seq(Messages) /\ Len(RemoveAt(h, i)) = Len(h) - 1
         /\ \A j \in 1 .. Len(h) - 1 : RemoveAt(h, i)[j] = h[IF j < i THEN j ELSE j + 1]
<1>1. Len(h) \in Nat /\ i \in Int /\ \A j \in 1 .. Len(h) : h[j] \in Messages
  BY LenProperties, ElementOfSeq
<1> DEFINE front == SubSeq(h, 1, i - 1)
           back  == SubSeq(h, i + 1, Len(h))
<1>2. /\ front \in Seq(Messages) /\ Len(front) = i - 1
      /\ \A j \in 1 .. i - 1 : front[j] = h[j]
  <2>1. 1 \in Int /\ i - 1 \in Int /\ \A j \in 1 .. i - 1 : h[j] \in Messages
    BY <1>1
  <2>2. /\ front \in Seq(Messages)
        /\ Len(front) = IF 1 <= i - 1 THEN (i - 1) - 1 + 1 ELSE 0
        /\ \A j \in 1 .. (i - 1) - 1 + 1 : front[j] = h[1 + j - 1]
    BY <2>1, SubSeqProperties
  <2>3. QED  BY <1>1, <2>2
<1>3. /\ back \in Seq(Messages) /\ Len(back) = Len(h) - i
      /\ \A j \in 1 .. Len(h) - i : back[j] = h[i + j]
  <2>1. i + 1 \in Int /\ Len(h) \in Int /\ \A j \in i + 1 .. Len(h) : h[j] \in Messages
    BY <1>1
  <2>2. /\ back \in Seq(Messages)
        /\ Len(back) = IF i + 1 <= Len(h) THEN Len(h) - (i + 1) + 1 ELSE 0
        /\ \A j \in 1 .. Len(h) - (i + 1) + 1 : back[j] = h[(i + 1) + j - 1]
    BY <2>1, SubSeqProperties
  <2>3. QED  BY <1>1, <2>2
<1>4. RemoveAt(h, i) = front \o back
  BY DEF RemoveAt
<1> HIDE DEF front, back
<1>5. /\ front \o back \in Seq(Messages)
      /\ Len(front \o back) = Len(front) + Len(back)
      /\ \A j \in 1 .. Len(front) + Len(back) : (front \o back)[j] =
           IF j <= Len(front) THEN front[j] ELSE back[j - Len(front)]
  BY <1>2, <1>3, ConcatProperties
<1>6. ASSUME NEW j \in 1 .. Len(h) - 1
      PROVE  (front \o back)[j] = h[IF j < i THEN j ELSE j + 1]
  <2>1. CASE j < i
    BY <1>1, <1>2, <1>3, <1>5, <2>1
  <2>2. CASE ~(j < i)
    <3>1. (front \o back)[j] = back[j - (i - 1)] /\ j - (i - 1) \in 1 .. Len(h) - i
      BY <1>1, <1>2, <1>3, <1>5, <2>2
    <3>2. back[j - (i - 1)] = h[i + (j - (i - 1))]
      BY <1>3, <3>1
    <3>3. i + (j - (i - 1)) = j + 1
      BY <1>1
    <3>4. QED  BY <2>2, <3>1, <3>2, <3>3
  <2>3. QED  BY <2>1, <2>2
<1>7. QED  BY <1>1, <1>2, <1>3, <1>4, <1>5, <1>6

\* A run's answer in h has the text, and nothing else in h is changed.
Written(h, r, text) ==
  [i \in DOMAIN h |-> IF IsAnswer(h[i], r) THEN [h[i] EXCEPT !.text = text] ELSE h[i]]

ReplyTexts == {"part", "whole", "error"}

LEMMA WrittenKeepsTheRest ==
  ASSUME NEW h \in Seq(Messages), NEW r \in Runs, NEW text \in ReplyTexts,
         NEW w, w = Written(h, r, text)
  PROVE  /\ w \in Seq(Messages) /\ Len(w) = Len(h)
         /\ \A i \in 1 .. Len(h) :
              \/ w[i] = h[i] /\ ~IsAnswer(h[i], r)
              \/ IsAnswer(h[i], r) /\ IsAnswer(w[i], r) /\ w[i].text = text
<1>1. Len(h) \in Nat /\ DOMAIN h = 1 .. Len(h) /\ \A i \in 1 .. Len(h) : h[i] \in Messages
  BY LenProperties, ElementOfSeq
<1>2. w = [i \in 1 .. Len(h) |->
             IF IsAnswer(h[i], r) THEN [h[i] EXCEPT !.text = text] ELSE h[i]]
  BY <1>1 DEF Written
<1>3. ASSUME NEW i \in 1 .. Len(h)
      PROVE  /\ w[i] \in Messages
             /\ \/ w[i] = h[i] /\ ~IsAnswer(h[i], r)
                \/ IsAnswer(h[i], r) /\ IsAnswer(w[i], r) /\ w[i].text = text
  <2>1. CASE ~IsAnswer(h[i], r)
    BY <1>1, <1>2, <2>1
  <2>2. CASE IsAnswer(h[i], r)
    <3>1. w[i] = [h[i] EXCEPT !.text = text] /\ h[i] \in Messages
      BY <1>1, <1>2, <2>2
    <3>2. w[i] \in Messages /\ w[i].run = h[i].run /\ w[i].role = h[i].role /\ w[i].text = text
      BY <3>1 DEF Messages, ReplyTexts
    <3>3. QED  BY <2>2, <3>2 DEF IsAnswer
  <2>3. QED  BY <2>1, <2>2
<1>4. w = [i \in 1 .. Len(h) |-> w[i]]
  BY <1>2
<1>5. w \in [1 .. Len(h) -> Messages]
  BY <1>3, <1>4
<1>6. w \in Seq(Messages) /\ Len(w) = Len(h)
  BY <1>1, <1>5, SeqDef, LenProperties
<1>7. QED  BY <1>3, <1>6

-----------------------------------------------------------------------------
(***************************************************************************)
(* What the histories hold.                                                *)
(***************************************************************************)

\* A message m of panel p, where run is its run and the panel shown is open: only
\* a prompt that has asked has an answer in its own panel, and one that is empty
\* will not stay so, but for a stream that ended without its text.
Fits(m, p, run, shown) ==
  /\ run.at # "none"
  /\ m.text = "empty" => m.role = "assistant"
  /\ m.role = "assistant" /\ run.panel = p =>
       /\ run.at \notin {"provider", "asked"}
       /\ m.text = "empty" => /\ run.at = "ending" => run.mute
                              /\ p = shown /\ run.alone => run.at \notin Finished \/ run.mute

\* A prompt has at most one answer in its panel's history.
OneAnswer(p, h) ==
  \A r \in Runs : runs[r].panel = p =>
    \A i, j \in 1 .. Len(h) : IsAnswer(h[i], r) /\ IsAnswer(h[j], r) => i = j

HistoriesFit ==
  /\ history \in [Panels -> Seq(Messages)]
  /\ \A p \in Panels :
       /\ Len(history[p]) <= MaxHistory
       /\ \A i \in 1 .. Len(history[p]) :
            Fits(history[p][i], p, runs[history[p][i].run], open)
       /\ OneAnswer(p, history[p])

StoredFits ==
  /\ stored \in Seq(Messages) /\ Len(stored) <= MaxHistory
  /\ \A i \in 1 .. Len(stored) : /\ runs[stored[i].run].at # "none"
                                 /\ stored[i].text = "empty" => stored[i].role = "assistant"

\* What is stored differs from the open panel's history only in answers of its
\* own prompts that are in progress.
StoredIsShown ==
  open # 0 /\ ~foreign =>
    /\ Len(stored) = Len(history[open])
    /\ \A i \in 1 .. Len(stored) :
         \/ stored[i] = history[open][i]
         \/ /\ IsAnswer(history[open][i], stored[i].run)
            /\ stored[i].role = "assistant"
            /\ Active(stored[i].run) /\ runs[stored[i].run].panel = open

\* The panels of the prompts have been made; and the other variables' types.
OthersFit ==
  /\ \A r \in Runs : runs[r].panel <= made
  /\ open <= made /\ aborted \subseteq Runs /\ foreign \in BOOLEAN /\ events \in 0 .. MaxEvents

ChatIInv == PromptsInv /\ OthersFit /\ HistoriesFit /\ StoredFits /\ StoredIsShown

-----------------------------------------------------------------------------
\* The messages' types, as the steps below need them.
LEMMA MessagesAreTyped ==
  ASSUME NEW h \in Seq(Messages)
  PROVE  /\ Len(h) \in Nat
         /\ \A i \in 1 .. Len(h) : h[i] \in Messages /\ h[i].run \in Runs
<1>1. Len(h) \in Nat /\ \A i \in 1 .. Len(h) : h[i] \in Messages
  BY LenProperties, ElementOfSeq
<1>2. \A m \in Messages : m.run \in Runs
  BY DEF Messages
<1>3. QED  BY <1>1, <1>2

\* Prompt r goes on and its panel's history becomes h.  The messages of others are
\* old ones, so only r's have to fit again.
LEMMA HistoriesStillFit ==
  ASSUME PromptsInv, HistoriesFit, NEW r \in Runs, NEW p \in Panels, p = runs[r].panel,
         \A q \in Runs \ {r} : runs'[q] = runs[q],
         runs'[r].panel = runs[r].panel, runs'[r].at # "none", open' = open,
         NEW h \in Seq(Messages), Len(h) <= MaxHistory,
         history' = [history EXCEPT ![p] = h],
         \A i \in 1 .. Len(h) :
           \/ h[i].run # r /\ \E j \in 1 .. Len(history[p]) : h[i] = history[p][j]
           \/ h[i].run = r /\ Fits(h[i], p, runs'[r], open),
         OneAnswer(p, h)
  PROVE  HistoriesFit'
<1>1. /\ history \in [Panels -> Seq(Messages)]
      /\ history' \in [Panels -> Seq(Messages)]
      /\ history'[p] = h /\ \A k \in Panels \ {p} : history'[k] = history[k]
  BY DEF HistoriesFit
<1>2. \A q \in Runs : runs'[q].panel = runs[q].panel
  OBVIOUS
<1>3. ASSUME NEW k \in Panels
      PROVE  /\ Len(history'[k]) <= MaxHistory /\ OneAnswer(k, history[k])'
             /\ \A i \in 1 .. Len(history'[k]) :
                  Fits(history'[k][i], k, runs'[history'[k][i].run], open')
  <2>1. CASE k = p
    <3>1. OneAnswer(k, history[k])'
      BY <1>1, <1>2, <2>1 DEF OneAnswer
    <3>2. ASSUME NEW i \in 1 .. Len(h)
          PROVE  Fits(h[i], p, runs'[h[i].run], open')
      <4>1. CASE h[i].run = r
        BY <3>2, <4>1
      <4>2. CASE h[i].run # r
        <5>1. PICK j \in 1 .. Len(history[p]) : h[i] = history[p][j]
          BY <3>2, <4>2
        <5>2. runs'[h[i].run] = runs[h[i].run]
          BY <3>2, <4>2, MessagesAreTyped
        <5>3. QED  BY <5>1, <5>2 DEF HistoriesFit
      <4>3. QED  BY <4>1, <4>2
    <3>3. QED  BY <1>1, <2>1, <3>1, <3>2
  <2>2. CASE k # p
    <3>1. history'[k] = history[k] /\ history[k] \in Seq(Messages)
      BY <1>1, <2>2
    <3>2. OneAnswer(k, history[k])'
      <4>1. OneAnswer(k, history[k])  BY DEF HistoriesFit
      <4>2. QED  BY <1>2, <3>1, <4>1 DEF OneAnswer
    <3>3. ASSUME NEW i \in 1 .. Len(history[k])
          PROVE  Fits(history[k][i], k, runs'[history[k][i].run], open')
      <4>1. history[k][i].run \in Runs
        BY <3>1, MessagesAreTyped
      <4>2. Fits(history[k][i], k, runs[history[k][i].run], open)
        BY DEF HistoriesFit
      <4>3. CASE history[k][i].run = r
        BY <2>2, <4>2, <4>3 DEF Fits
      <4>4. CASE history[k][i].run # r
        BY <4>1, <4>2, <4>4
      <4>5. QED  BY <4>3, <4>4
    <3>4. QED  BY <3>1, <3>2, <3>3 DEF HistoriesFit
  <2>3. QED  BY <2>1, <2>2
<1>4. QED  BY <1>1, <1>3 DEF HistoriesFit

\* The histories keep, and so must what is known of r's answers.
LEMMA HistoriesKeep ==
  ASSUME PromptsInv, HistoriesFit, NEW r \in Runs, NEW p \in Panels, p = runs[r].panel,
         \A q \in Runs \ {r} : runs'[q] = runs[q],
         runs'[r].panel = runs[r].panel, runs'[r].at # "none",
         UNCHANGED <<open, history>>,
         \A i \in 1 .. Len(history[p]) :
           history[p][i].run = r => Fits(history[p][i], p, runs'[r], open)
  PROVE  HistoriesFit'
<1>1. PICK h : h = history[p]
  OBVIOUS
<1>2. /\ h \in Seq(Messages) /\ Len(h) <= MaxHistory /\ OneAnswer(p, h)
      /\ history' = [history EXCEPT ![p] = h]
  BY <1>1 DEF HistoriesFit
<1>3. \A i \in 1 .. Len(h) :
        \/ h[i].run # r /\ \E j \in 1 .. Len(history[p]) : h[i] = history[p][j]
        \/ h[i].run = r /\ Fits(h[i], p, runs'[r], open)
  BY <1>1
<1>4. QED  BY <1>2, <1>3, HistoriesStillFit

\* A history that is stored is what is shown, or that of a closed panel.
LEMMA StoredIsHistory ==
  ASSUME NEW p \in Panels, NEW h, history \in [Panels -> Seq(Messages)],
         Persist(p, h), open' = open, HistoriesFit'
  PROVE  StoredFits' /\ StoredIsShown'
<1>1. /\ stored' = h /\ history'[p] = h /\ (foreign' <=> p # open)
  BY DEF Persist
<1>2. StoredFits'
  BY <1>1 DEF HistoriesFit, StoredFits, Fits
<1>3. StoredIsShown'
  BY <1>1 DEF StoredIsShown
<1>4. QED  BY <1>2, <1>3

\* Nothing is stored: r's answer may be rewritten while r goes on.
LEMMA StoredKeeps ==
  ASSUME PromptsInv, HistoriesFit, StoredFits, StoredIsShown,
         NEW r \in Runs, NEW p \in Panels, p = runs[r].panel,
         \A q \in Runs \ {r} : runs'[q] = runs[q],
         runs'[r].panel = runs[r].panel, runs'[r].at # "none",
         UNCHANGED <<open, stored, foreign>>,
         NEW h, history' = [history EXCEPT ![p] = h], Len(h) = Len(history[p]),
         \A i \in 1 .. Len(h) : \/ h[i] = history[p][i]
                                \/ IsAnswer(h[i], r) /\ IsAnswer(history[p][i], r),
         \/ Active(r)'
         \/ p # open
         \/ \A i \in 1 .. Len(history[p]) : ~IsAnswer(history[p][i], r)
  PROVE  StoredFits' /\ StoredIsShown'
<1>1. StoredFits'
  BY MessagesAreTyped DEF StoredFits
<1>2. StoredIsShown'
  <2> SUFFICES ASSUME open # 0, ~foreign
               PROVE  /\ Len(stored) = Len(history'[open])
                      /\ \A i \in 1 .. Len(stored) :
                           \/ stored[i] = history'[open][i]
                           \/ /\ IsAnswer(history'[open][i], stored[i].run)
                              /\ stored[i].role = "assistant"
                              /\ Active(stored[i].run)' /\ runs'[stored[i].run].panel = open
    BY DEF StoredIsShown
  <2>1. open \in Panels
    BY ChatAssumption DEF PromptsInv, Panels
  <2>2. /\ history'[p] = h /\ \A k \in Panels \ {p} : history'[k] = history[k]
        /\ Len(history'[open]) = Len(history[open])
    BY <2>1 DEF HistoriesFit
  <2>3. ASSUME NEW i \in 1 .. Len(stored)
        PROVE  \/ stored[i] = history'[open][i]
               \/ /\ IsAnswer(history'[open][i], stored[i].run)
                  /\ stored[i].role = "assistant"
                  /\ Active(stored[i].run)' /\ runs'[stored[i].run].panel = open
    <3>1. stored[i].run \in Runs /\ i \in 1 .. Len(history[open])
      BY MessagesAreTyped DEF StoredFits, StoredIsShown
    <3>2. \/ stored[i] = history[open][i]
          \/ /\ IsAnswer(history[open][i], stored[i].run) /\ stored[i].role = "assistant"
             /\ Active(stored[i].run) /\ runs[stored[i].run].panel = open
      BY DEF StoredIsShown
    <3>3. CASE p # open
      BY <2>1, <2>2, <3>1, <3>2, <3>3 DEF Active
    <3>4. CASE p = open
      BY <2>1, <2>2, <3>1, <3>2, <3>4 DEF Active, IsAnswer
    <3>5. QED  BY <3>3, <3>4
  <2>4. QED  BY <2>2, <2>3 DEF StoredIsShown
<1>3. QED  BY <1>1, <1>2

-----------------------------------------------------------------------------
\* Histories and the workspace state fit together.
Kept == HistoriesFit /\ StoredFits /\ StoredIsShown

\* A prompt that is answered has a panel.
LEMMA PanelOfRun ==
  ASSUME PromptsInv, NEW r \in Runs, Active(r)
  PROVE  runs[r].panel \in Panels
BY DEF PromptsInv, Active, Finished

\* A prompt's record when it goes to stage s.
LEMMA StageOfRun ==
  ASSUME PromptsInv, NEW r \in Runs, NEW s, At(r, s)
  PROVE  /\ \A q \in Runs \ {r} : runs'[q] = runs[q]
         /\ runs'[r].panel = runs[r].panel /\ runs'[r].alone = runs[r].alone
         /\ runs'[r].mute = runs[r].mute
         /\ runs'[r].at = s
BY DEF PromptsInv, At, RunType

\* A prompt goes on, or ends without an answer to leave behind; no history changes.
LEMMA StageKeeps ==
  ASSUME PromptsInv, Kept, NEW r \in Runs, Active(r),
         \A q \in Runs \ {r} : runs'[q] = runs[q], runs'[r].panel = runs[r].panel,
         runs'[r].at \notin {"none", "provider", "asked", "ending"},
         UNCHANGED <<open, history, stored, foreign>>,
         \/ runs'[r].at # "off"
         \/ runs[r].panel # open
         \/ \A i \in 1 .. Len(history[runs[r].panel]) :
              ~IsAnswer(history[runs[r].panel][i], r)
  PROVE  Kept'
<1>1. PICK p \in Panels : p = runs[r].panel
  BY PanelOfRun
<1>2. HistoriesFit /\ StoredFits /\ StoredIsShown  BY DEF Kept
<1>3. ASSUME NEW i \in 1 .. Len(history[p]), history[p][i].run = r
      PROVE  Fits(history[p][i], p, runs'[r], open)
  <2>1. Fits(history[p][i], p, runs[r], open)
    BY <1>2, <1>3 DEF HistoriesFit
  <2>2. QED  BY <1>1, <1>3, <2>1 DEF Fits, Finished, IsAnswer
<1>4. HistoriesFit'
  BY <1>1, <1>2, <1>3, HistoriesKeep
<1>5. PICK h : h = history[p]
  OBVIOUS
<1>6. /\ history' = [history EXCEPT ![p] = h] /\ Len(h) = Len(history[p])
      /\ \A i \in 1 .. Len(h) : h[i] = history[p][i]
  BY <1>2, <1>5 DEF HistoriesFit
<1>7. \/ Active(r)' \/ p # open \/ \A i \in 1 .. Len(history[p]) : ~IsAnswer(history[p][i], r)
  BY <1>1 DEF Active, Finished
<1>8. StoredFits' /\ StoredIsShown'
  BY <1>1, <1>2, <1>6, <1>7, StoredKeeps
<1>9. QED  BY <1>4, <1>8 DEF Kept

\* Before it has asked, a prompt has no answer in its panel's history.
LEMMA NoAnswerYet ==
  ASSUME HistoriesFit, NEW r \in Runs, NEW p \in Panels, p = runs[r].panel,
         runs[r].at \in {"provider", "asked"}
  PROVE  \A i \in 1 .. Len(history[p]) : ~IsAnswer(history[p][i], r)
<1> SUFFICES ASSUME NEW i \in 1 .. Len(history[p]), IsAnswer(history[p][i], r)
             PROVE  FALSE
  OBVIOUS
<1>1. Fits(history[p][i], p, runs[r], open)
  BY DEF HistoriesFit, IsAnswer
<1>2. QED  BY <1>1 DEF Fits, IsAnswer

\* A question or an answer that has not begun is put at the end.
LEMMA PushKeeps ==
  ASSUME PromptsInv, Kept, NEW r \in Runs, runs[r].at \in {"provider", "asked"},
         NEW role, NEW text, NEW s, Push(r, role, text), At(r, s), open' = open,
         \/ role = "user" /\ text = "prompt" /\ s = "asked"
         \/ role = "assistant" /\ text = "empty" /\ s = "hello"
  PROVE  Kept'
<1>1. Active(r)  BY DEF Active, Finished
<1>2. PICK p \in Panels : p = runs[r].panel
  BY <1>1, PanelOfRun
<1>3. /\ HistoriesFit /\ history \in [Panels -> Seq(Messages)] /\ history[p] \in Seq(Messages)
  BY DEF Kept, HistoriesFit
<1>4. PICK m : m = [run |-> r, role |-> role, text |-> text]
  OBVIOUS
<1>5. m \in Messages /\ m.run = r /\ m.role = role /\ m.text = text
  BY <1>4 DEF Messages
<1>6. PICK a : a = Append(history[p], m)
  OBVIOUS
<1>7. /\ a \in Seq(Messages) /\ Len(a) = Len(history[p]) + 1 /\ Len(history[p]) \in Nat
      /\ \A i \in 1 .. Len(history[p]) : a[i] = history[p][i]
      /\ a[Len(history[p]) + 1] = m
  BY <1>3, <1>5, <1>6, AppendProperties, LenProperties
<1>8. PICK h : h = Trimmed(a)
  OBVIOUS
<1>9. Persist(p, h)
  BY <1>2, <1>4, <1>6, <1>8 DEF Push
<1>10. h \in Seq(Messages) /\ Len(h) <= MaxHistory
  BY <1>7, <1>8, TrimmedDrops
<1>11. PICK k \in Nat : Len(h) + k = Len(a) /\ \A i \in 1 .. Len(h) : h[i] = a[i + k]
  <2>1. \E k \in Nat : /\ Len(Trimmed(a)) + k = Len(a)
                      /\ \A i \in 1 .. Len(Trimmed(a)) : Trimmed(a)[i] = a[i + k]
    BY <1>7, TrimmedDrops
  <2>2. QED  BY <1>8, <2>1
<1>12. Len(h) \in Nat
  BY <1>10, LenProperties
<1>13. /\ \A q \in Runs \ {r} : runs'[q] = runs[q]
       /\ runs'[r].panel = runs[r].panel /\ runs'[r].at = s
  BY StageOfRun
<1>14. \A i \in 1 .. Len(history[p]) : ~IsAnswer(history[p][i], r)
  BY <1>2, <1>3, NoAnswerYet
<1>15. ASSUME NEW i \in 1 .. Len(h)
       PROVE  \/ h[i] = m /\ i + k = Len(history[p]) + 1
              \/ h[i] = history[p][i + k] /\ i + k \in 1 .. Len(history[p])
  <2>1. i + k \in 1 .. Len(history[p]) + 1 /\ h[i] = a[i + k]
    BY <1>7, <1>11, <1>12
  <2>2. i + k = Len(history[p]) + 1 \/ i + k \in 1 .. Len(history[p])
    BY <1>7, <2>1
  <2>3. QED  BY <1>7, <2>1, <2>2
<1>16. ASSUME NEW i \in 1 .. Len(h)
       PROVE  \/ h[i].run # r /\ \E j \in 1 .. Len(history[p]) : h[i] = history[p][j]
              \/ h[i].run = r /\ Fits(h[i], p, runs'[r], open)
  <2>1. CASE h[i] = m
    BY <1>5, <1>13, <2>1 DEF Fits, Finished
  <2>2. CASE h[i] = history[p][i + k] /\ i + k \in 1 .. Len(history[p]) /\ h[i].run = r
    <3>1. Fits(h[i], p, runs[r], open) /\ ~IsAnswer(h[i], r)
      BY <1>3, <1>14, <2>2 DEF HistoriesFit
    <3>2. QED  BY <1>13, <2>2, <3>1 DEF Fits, IsAnswer
  <2>3. CASE h[i] = history[p][i + k] /\ i + k \in 1 .. Len(history[p]) /\ h[i].run # r
    BY <2>3
  <2>4. QED  BY <1>15, <2>1, <2>2, <2>3
<1>17. OneAnswer(p, h)
  <2> SUFFICES ASSUME NEW q \in Runs, runs[q].panel = p, NEW i \in 1 .. Len(h),
                      NEW j \in 1 .. Len(h), IsAnswer(h[i], q), IsAnswer(h[j], q)
               PROVE  i = j
    BY DEF OneAnswer
  <2>1. CASE q = r
    <3>1. i + k = Len(history[p]) + 1 /\ j + k = Len(history[p]) + 1
      BY <1>14, <1>15, <2>1
    <3>2. QED  BY <1>7, <1>11, <3>1
  <2>2. CASE q # r
    <3>1. /\ h[i] = history[p][i + k] /\ i + k \in 1 .. Len(history[p])
          /\ h[j] = history[p][j + k] /\ j + k \in 1 .. Len(history[p])
      BY <1>5, <1>15, <2>2 DEF IsAnswer
    <3>2. i + k = j + k
      BY <1>3, <3>1 DEF HistoriesFit, OneAnswer
    <3>3. QED  BY <1>11, <3>2
  <2>3. QED  BY <2>1, <2>2
<1>18. history' = [history EXCEPT ![p] = h]
  BY <1>9 DEF Persist
<1>19. runs'[r].at # "none"
  BY <1>13
<1>20. HistoriesFit'
  BY <1>2, <1>3, <1>10, <1>13, <1>16, <1>17, <1>18, <1>19, HistoriesStillFit
<1>21. StoredFits' /\ StoredIsShown'
  BY <1>3, <1>9, <1>20, StoredIsHistory
<1>22. QED  BY <1>20, <1>21 DEF Kept

\* The prompt's answer, if it is still there, is written to.
LEMMA WriteKeeps ==
  ASSUME PromptsInv, Kept, NEW r \in Runs, Active(r),
         NEW text \in ReplyTexts, Write(r, text),
         runs[r].at \notin {"provider", "asked"},
         \A q \in Runs \ {r} : runs'[q] = runs[q], runs'[r].panel = runs[r].panel,
         runs'[r].at \in {"receiving", "ending"},
         UNCHANGED <<open, stored, foreign>>
  PROVE  Kept'
<1>1. PICK p \in Panels : p = runs[r].panel
  BY PanelOfRun
<1>2. /\ HistoriesFit /\ history \in [Panels -> Seq(Messages)] /\ history[p] \in Seq(Messages)
      /\ StoredFits /\ StoredIsShown /\ Len(history[p]) <= MaxHistory
  BY DEF Kept, HistoriesFit
<1>3. PICK h : h = Written(history[p], r, text)
  OBVIOUS
<1>4. history' = [history EXCEPT ![p] = h]
  BY <1>1, <1>3 DEF Write, Written
<1>5. /\ h \in Seq(Messages) /\ Len(h) = Len(history[p])
      /\ \A i \in 1 .. Len(h) :
           \/ h[i] = history[p][i] /\ ~IsAnswer(history[p][i], r)
           \/ IsAnswer(history[p][i], r) /\ IsAnswer(h[i], r) /\ h[i].text = text
  <2>1. PICK g \in Seq(Messages) : g = history[p]
    BY <1>2
  <2>2. h = Written(g, r, text)
    BY <1>3, <2>1
  <2>3. /\ h \in Seq(Messages) /\ Len(h) = Len(g)
        /\ \A i \in 1 .. Len(g) :
             \/ h[i] = g[i] /\ ~IsAnswer(g[i], r)
             \/ IsAnswer(g[i], r) /\ IsAnswer(h[i], r) /\ h[i].text = text
    BY <2>2, WrittenKeepsTheRest
  <2>4. QED  BY <2>1, <2>3
<1>6. ASSUME NEW i \in 1 .. Len(h)
      PROVE  \/ h[i].run # r /\ \E j \in 1 .. Len(history[p]) : h[i] = history[p][j]
             \/ h[i].run = r /\ Fits(h[i], p, runs'[r], open)
  <2>1. CASE IsAnswer(h[i], r) /\ h[i].text = text
    BY <2>1 DEF Fits, IsAnswer, ReplyTexts
  <2>2. CASE h[i] = history[p][i] /\ ~IsAnswer(history[p][i], r) /\ h[i].run = r
    <3>1. Fits(h[i], p, runs[r], open)
      BY <1>2, <1>5, <2>2 DEF HistoriesFit
    <3>2. QED  BY <2>2, <3>1 DEF Fits, IsAnswer
  <2>3. CASE h[i] = history[p][i] /\ h[i].run # r
    BY <1>5, <2>3
  <2>4. QED  BY <1>5, <2>1, <2>2, <2>3
<1>7. OneAnswer(p, h)
  <2>1. \A q \in Runs, i \in 1 .. Len(h) : IsAnswer(h[i], q) => IsAnswer(history[p][i], q)
    BY <1>5 DEF IsAnswer
  <2>2. OneAnswer(p, history[p])  BY <1>2 DEF HistoriesFit
  <2>3. QED  BY <1>5, <2>1, <2>2 DEF OneAnswer
<1>8. runs'[r].at # "none" /\ Len(h) <= MaxHistory
  BY <1>2, <1>5
<1>9. HistoriesFit'
  BY <1>1, <1>2, <1>4, <1>5, <1>6, <1>7, <1>8, HistoriesStillFit
<1>10. Active(r)' /\ \A i \in 1 .. Len(h) : \/ h[i] = history[p][i]
                                            \/ IsAnswer(h[i], r) /\ IsAnswer(history[p][i], r)
  BY <1>5 DEF Active, Finished
<1>11. StoredFits' /\ StoredIsShown'
  BY <1>1, <1>2, <1>4, <1>5, <1>8, <1>10, StoredKeeps
<1>12. QED  BY <1>9, <1>11 DEF Kept

\* A prompt ends and stores its panel's history, which holds old messages only and
\* no empty answer of a prompt that was alone in the open panel and has its text.
LEMMA FinallyKeeps ==
  ASSUME PromptsInv, Kept, NEW r \in Runs, Active(r), NEW p \in Panels, p = runs[r].panel,
         NEW h \in Seq(Messages), Len(h) <= MaxHistory, Finally(r, h),
         \A i \in 1 .. Len(h) : \E j \in 1 .. Len(history[p]) : h[i] = history[p][j],
         OneAnswer(p, h),
         p = open /\ runs[r].alone /\ ~runs[r].mute =>
           \A i \in 1 .. Len(h) : IsAnswer(h[i], r) => h[i].text # "empty"
  PROVE  Kept'
<1>1. HistoriesFit /\ history \in [Panels -> Seq(Messages)]
  BY DEF Kept, HistoriesFit
<1>2. Trimmed(h) = h  BY TrimmedDrops
<1>3. Persist(p, h) /\ At(r, "off") /\ open' = open
  BY <1>2 DEF Finally
<1>4. /\ \A q \in Runs \ {r} : runs'[q] = runs[q]
      /\ runs'[r].panel = runs[r].panel /\ runs'[r].alone = runs[r].alone
      /\ runs'[r].mute = runs[r].mute
      /\ runs'[r].at = "off"
  BY <1>3, StageOfRun
<1>5. ASSUME NEW i \in 1 .. Len(h)
      PROVE  \/ h[i].run # r /\ \E j \in 1 .. Len(history[p]) : h[i] = history[p][j]
             \/ h[i].run = r /\ Fits(h[i], p, runs'[r], open)
  <2>1. CASE h[i].run # r
    BY <2>1
  <2>2. CASE h[i].run = r
    <3>1. Fits(h[i], p, runs[r], open)
      BY <1>1, <2>2 DEF HistoriesFit
    <3>2. QED  BY <1>4, <2>2, <3>1 DEF Fits, IsAnswer
  <2>3. QED  BY <2>1, <2>2
<1>6. history' = [history EXCEPT ![p] = h] /\ runs'[r].at # "none"
  BY <1>3, <1>4 DEF Persist
<1>7. HistoriesFit'
  BY <1>1, <1>3, <1>4, <1>5, <1>6, HistoriesStillFit
<1>8. StoredFits' /\ StoredIsShown'
  BY <1>1, <1>3, <1>7, StoredIsHistory
<1>9. QED  BY <1>7, <1>8 DEF Kept

\* The same, when the history is stored as it is.
LEMMA FinallyKeepsHistory ==
  ASSUME PromptsInv, Kept, NEW r \in Runs, Active(r), Finally(r, history[runs[r].panel]),
         \/ runs[r].panel # open \/ ~runs[r].alone
         \/ runs[r].at = "ending"
         \/ \A i \in 1 .. Len(history[runs[r].panel]) :
              LET m == history[runs[r].panel][i] IN ~(IsAnswer(m, r) /\ m.text = "empty")
  PROVE  Kept'
<1>1. PICK p \in Panels : p = runs[r].panel
  BY PanelOfRun
<1>2. PICK h : h = history[p]
  OBVIOUS
<1>3. /\ HistoriesFit /\ h \in Seq(Messages) /\ Len(h) <= MaxHistory /\ OneAnswer(p, h)
      /\ \A i \in 1 .. Len(h) : \E j \in 1 .. Len(history[p]) : h[i] = history[p][j]
  BY <1>2 DEF Kept, HistoriesFit
<1>4. ASSUME p = open, runs[r].alone, ~runs[r].mute, NEW i \in 1 .. Len(h), IsAnswer(h[i], r)
      PROVE  h[i].text # "empty"
  <2>1. Fits(h[i], p, runs[r], open)
    BY <1>2, <1>3, <1>4 DEF HistoriesFit, IsAnswer
  <2>2. QED  BY <1>1, <1>2, <1>4, <2>1 DEF Fits, IsAnswer
<1>5. QED  BY <1>1, <1>2, <1>3, <1>4, FinallyKeeps

-----------------------------------------------------------------------------
(***************************************************************************)
(* The steps.                                                              *)
(***************************************************************************)

\* A prompt goes on as it is, or ends as the page closes.
OnlyEnds(q) ==
  /\ runs'[q].panel = runs[q].panel /\ (runs'[q].alone => runs[q].alone)
  /\ runs'[q].mute = runs[q].mute
  /\ runs'[q].at = runs[q].at \/ (open' = 0 /\ runs'[q].at = "off")

\* Nothing is written: prompts start, stop being alone, or all end as the page closes.
LEMMA NothingWrittenKeeps ==
  ASSUME PromptsInv, Kept, UNCHANGED <<history, stored, foreign>>, open' \in {0, open},
         \A q \in Runs : runs[q].at # "none" => OnlyEnds(q)
  PROVE  Kept'
<1>1. HistoriesFit /\ StoredFits /\ StoredIsShown /\ history \in [Panels -> Seq(Messages)]
  BY DEF Kept, HistoriesFit
<1>2. ASSUME NEW k \in Panels
      PROVE  /\ Len(history[k]) <= MaxHistory /\ OneAnswer(k, history[k])'
             /\ \A i \in 1 .. Len(history[k]) :
                  Fits(history[k][i], k, runs'[history[k][i].run], open')
  <2>1. PICK h \in Seq(Messages) : h = history[k]
    BY <1>1
  <2>2. /\ Len(h) <= MaxHistory /\ OneAnswer(k, h)
        /\ \A i \in 1 .. Len(h) : h[i].run \in Runs /\ Fits(h[i], k, runs[h[i].run], open)
    BY <1>1, <2>1, MessagesAreTyped DEF HistoriesFit
  <2>3. ASSUME NEW i \in 1 .. Len(h)
        PROVE  Fits(h[i], k, runs'[h[i].run], open')
    <3>1. k # 0  BY DEF Panels
    <3>2. PICK q \in Runs : q = h[i].run
      BY <2>2
    <3>3. Fits(h[i], k, runs[q], open) /\ runs[q].at # "none"
      BY <2>2, <3>2 DEF Fits
    <3>4. /\ runs'[q].panel = runs[q].panel /\ (runs'[q].alone => runs[q].alone)
          /\ runs'[q].mute = runs[q].mute
          /\ runs'[q].at = runs[q].at \/ (open' = 0 /\ runs'[q].at = "off")
      BY <3>3 DEF OnlyEnds
    <3>5. Fits(h[i], k, runs'[q], open')
      BY <3>1, <3>3, <3>4 DEF Fits
    <3>6. QED  BY <3>2, <3>5
  <2>4. OneAnswer(k, h)'
    <3> SUFFICES ASSUME NEW q \in Runs, runs'[q].panel = k, NEW i \in 1 .. Len(h),
                        NEW j \in 1 .. Len(h), IsAnswer(h[i], q), IsAnswer(h[j], q)
                 PROVE  i = j
      BY DEF OneAnswer
    <3>1. runs[q].at # "none"
      BY <2>2 DEF Fits, IsAnswer
    <3>2. QED  BY <2>2, <3>1 DEF OneAnswer, OnlyEnds
  <2>5. OneAnswer(k, history[k])'
    BY <2>1, <2>4 DEF OneAnswer
  <2>6. QED  BY <2>1, <2>2, <2>3, <2>5
<1>3. HistoriesFit'
  BY <1>1, <1>2 DEF HistoriesFit
<1>4. \A i \in 1 .. Len(stored) : stored[i].run \in Runs /\ runs[stored[i].run].at # "none"
  BY <1>1, MessagesAreTyped DEF StoredFits
<1>5. StoredFits'
  BY <1>1, <1>4 DEF StoredFits, OnlyEnds
<1>6. StoredIsShown'
  BY <1>1, <1>4 DEF StoredIsShown, Active, OnlyEnds
<1>7. QED  BY <1>3, <1>5, <1>6 DEF Kept

LEMMA SendKeeps ==
  ASSUME PromptsInv, Kept, NEW r \in Runs, Send(r)
  PROVE  Kept'
<1> DEFINE others == {q \in Runs : Active(q) /\ runs[q].panel = open}
<1>1. /\ runs[r] = NoRun /\ UNCHANGED <<open, history, stored, foreign>>
      /\ runs' = [q \in Runs |->
           IF q = r THEN [NoRun EXCEPT !.panel = open, !.at = "provider", !.alone = others = {}]
           ELSE IF q \in others THEN [runs[q] EXCEPT !.alone = FALSE] ELSE runs[q]]
  BY DEF Send
<1> HIDE DEF others
<1>2. runs[r].at = "none"
  <2>1. NoRun.at = "none"  BY DEF NoRun
  <2>2. QED  BY ONLY <1>1, <2>1
<1>3. ASSUME NEW q \in Runs, runs[q].at # "none"
      PROVE  OnlyEnds(q)
  <2>1. q # r  BY <1>2, <1>3
  <2>2. QED  BY <1>1, <2>1 DEF PromptsInv, RunType, OnlyEnds
<1>4. open' \in {0, open}
  BY <1>1
<1>5. QED  BY <1>1, <1>3, <1>4, NothingWrittenKeeps

\* The page closes, or the window with it.
LEMMA ClosingKeeps ==
  ASSUME PromptsInv, Kept, Cancel \/ ClosePanel \/ ReloadWindow \/ UNCHANGED cvars
  PROVE  Kept'
<1>1. CASE Cancel \/ ClosePanel \/ UNCHANGED cvars
  <2>1. runs' = runs /\ open' \in {0, open} /\ UNCHANGED <<history, stored, foreign>>
    BY <1>1 DEF Cancel, ClosePanel, cvars
  <2>2. \A q \in Runs : OnlyEnds(q)
    BY <2>1 DEF OnlyEnds
  <2>3. QED  BY <2>1, <2>2, NothingWrittenKeeps
<1>2. CASE ReloadWindow
  <2>1. /\ runs' = [r \in Runs |-> IF Active(r) THEN [runs[r] EXCEPT !.at = "off"] ELSE runs[r]]
        /\ open' = 0 /\ UNCHANGED <<history, stored, foreign>>
    BY <1>2 DEF ReloadWindow
  <2>2. ASSUME NEW q \in Runs
        PROVE  OnlyEnds(q)
    <3>1. runs[q] \in RunType  BY DEF PromptsInv
    <3>2. CASE Active(q)
      BY <2>1, <3>1, <3>2 DEF RunType, OnlyEnds
    <3>3. CASE ~Active(q)
      BY <2>1, <3>3 DEF OnlyEnds
    <3>4. QED  BY <3>2, <3>3
  <2>3. open' \in {0, open}
    BY <2>1
  <2>4. QED  BY <2>1, <2>2, <2>3, NothingWrittenKeeps
<1>3. QED  BY <1>1, <1>2

LEMMA ClearKeeps ==
  ASSUME PromptsInv, Kept, Clear
  PROVE  Kept'
<1>1. open \in Panels /\ Persist(open, <<>>) /\ UNCHANGED <<open, runs>>
  BY ChatAssumption DEF Clear, PromptsInv, Panels
<1>2. /\ history' = [history EXCEPT ![open] = <<>>] /\ history \in [Panels -> Seq(Messages)]
      /\ <<>> \in Seq(Messages) /\ Len(<<>>) = 0 /\ 0 <= MaxHistory
  BY <1>1, ChatAssumption, EmptySeq DEF Persist, Kept, HistoriesFit
<1>3. ASSUME NEW k \in Panels
      PROVE  /\ Len(history'[k]) <= MaxHistory /\ OneAnswer(k, history'[k])
             /\ \A i \in 1 .. Len(history'[k]) :
                  Fits(history'[k][i], k, runs[history'[k][i].run], open)
  <2>1. CASE k = open
    <3>1. history'[k] = <<>>  BY <1>1, <1>2, <2>1
    <3>2. QED  BY <1>2, <3>1 DEF OneAnswer
  <2>2. CASE k # open
    BY <1>2, <2>2 DEF Kept, HistoriesFit
  <2>3. QED  BY <2>1, <2>2
<1>4. \A k \in Panels : OneAnswer(k, history[k])'
  BY <1>1, <1>3 DEF OneAnswer
<1>5. HistoriesFit'
  BY <1>1, <1>2, <1>3, <1>4 DEF HistoriesFit
<1>6. StoredFits' /\ StoredIsShown'
  BY <1>1, <1>2, <1>5, StoredIsHistory
<1>7. QED  BY <1>5, <1>6 DEF Kept

\* A new panel shows what is stored; no prompt is of that panel yet.
LEMMA OpenPanelKeeps ==
  ASSUME PromptsInv, OthersFit, Kept, OpenPanel
  PROVE  Kept'
<1>1. PICK n \in Panels : n = made + 1
  BY ChatAssumption DEF OpenPanel, PromptsInv, Panels
<1>2. /\ open = 0 /\ open' = n /\ history' = [history EXCEPT ![n] = stored]
      /\ foreign' = FALSE /\ UNCHANGED <<stored, runs>>
      /\ HistoriesFit /\ StoredFits /\ history \in [Panels -> Seq(Messages)]
      /\ stored \in Seq(Messages)
  BY <1>1 DEF OpenPanel, Kept, HistoriesFit, StoredFits
<1>3. \A r \in Runs : runs[r].panel # n
  <2> SUFFICES ASSUME NEW r \in Runs PROVE runs[r].panel # n
    OBVIOUS
  <2>1. runs[r].panel \in 0 .. MaxPanels /\ made \in 0 .. MaxPanels /\ runs[r].panel <= made
    BY DEF PromptsInv, RunType, OthersFit
  <2>2. QED  BY <1>1, <2>1, ChatAssumption
<1>4. ASSUME NEW k \in Panels
      PROVE  /\ Len(history'[k]) <= MaxHistory /\ OneAnswer(k, history'[k])
             /\ \A i \in 1 .. Len(history'[k]) :
                  Fits(history'[k][i], k, runs[history'[k][i].run], n)
  <2>1. CASE k = n
    <3>1. history'[k] = stored  BY <1>2, <2>1
    <3>2. \A i \in 1 .. Len(stored) : Fits(stored[i], k, runs[stored[i].run], n)
      <4>1. \A i \in 1 .. Len(stored) : stored[i].run \in Runs
        BY <1>2, MessagesAreTyped
      <4>2. QED  BY <1>2, <1>3, <2>1, <4>1 DEF StoredFits, Fits
    <3>3. OneAnswer(k, stored)
      BY <1>3, <2>1 DEF OneAnswer
    <3>4. Len(stored) <= MaxHistory
      BY <1>2 DEF StoredFits
    <3>5. QED  BY <3>1, <3>2, <3>3, <3>4
  <2>2. CASE k # n
    <3>1. history'[k] = history[k]
      BY <1>2, <2>2
    <3>2. /\ Len(history[k]) <= MaxHistory /\ OneAnswer(k, history[k])
          /\ \A i \in 1 .. Len(history[k]) :
               Fits(history[k][i], k, runs[history[k][i].run], open)
      BY <1>2 DEF HistoriesFit
    <3>3. \A i \in 1 .. Len(history[k]) :
            Fits(history[k][i], k, runs[history[k][i].run], n)
      BY <2>2, <3>2 DEF Fits
    <3>4. QED  BY <3>1, <3>2, <3>3
  <2>3. QED  BY <2>1, <2>2
<1>5. \A k \in Panels : OneAnswer(k, history[k])'
  BY <1>2, <1>4 DEF OneAnswer
<1>6. HistoriesFit'
  BY <1>2, <1>4, <1>5 DEF HistoriesFit
<1>7. StoredFits'
  BY <1>2 DEF StoredFits
<1>8. StoredIsShown'
  BY <1>2 DEF StoredIsShown
<1>9. QED  BY <1>6, <1>7, <1>8 DEF Kept

LEMMA StartKeeps ==
  ASSUME PromptsInv, Kept, NEW r \in Runs,
         NotConfigured(r) \/ Ask(r) \/ PostThrows(r) \/ Answer(r)
  PROVE  Kept'
<1>1. CASE NotConfigured(r)
  <2>1. /\ runs[r].at = "provider" /\ Active(r) /\ At(r, "off")
        /\ UNCHANGED <<open, history, stored, foreign>>
    BY <1>1 DEF NotConfigured, Active, Finished
  <2>2. \A i \in 1 .. Len(history[runs[r].panel]) : ~IsAnswer(history[runs[r].panel][i], r)
    BY <2>1, PanelOfRun, NoAnswerYet DEF Kept
  <2>3. QED  BY <2>1, <2>2, StageOfRun, StageKeeps
<1>2. CASE PostThrows(r)
  <2>1. /\ Active(r) /\ runs[r].panel # open /\ At(r, "off")
        /\ UNCHANGED <<open, history, stored, foreign>>
    BY <1>2 DEF PostThrows, Closed, Active, Finished
  <2>2. QED  BY <2>1, StageOfRun, StageKeeps
<1>3. CASE Ask(r)
  BY <1>3, PushKeeps DEF Ask
<1>4. CASE Answer(r)
  BY <1>4, PushKeeps DEF Answer
<1>5. QED  BY <1>1, <1>2, <1>3, <1>4

\* The prompts that find the panel without a controller were overlapped by others.
LEMMA LoneHasController ==
  ASSUME PromptsInv, NEW r \in Runs, runs[r].at \in Late, controller[runs[r].panel] = 0
  PROVE  ~runs[r].alone
<1>1. Held(r) /\ r # 0
  BY DEF PromptsInv, Runs
<1>2. QED  BY <1>1 DEF Held

LEMMA RequestKeeps ==
  ASSUME PromptsInv, Kept, NEW r \in Runs,
         BecomeBusy(r) \/ Request(r) \/ Aborts(r) \/ HeadersCome(r)
  PROVE  Kept'
<1>1. ASSUME Active(r), NEW s \in {"busy", "requesting", "stopping", "receiving"},
             \A q \in Runs \ {r} : runs'[q] = runs[q], runs'[r].panel = runs[r].panel,
             runs'[r].at = s, UNCHANGED <<open, history, stored, foreign>>
      PROVE  Kept'
  <2>1. runs'[r].at \notin {"none", "provider", "asked", "ending", "off"}
    BY <1>1
  <2>2. QED  BY <1>1, <2>1, StageKeeps
<1>2. CASE BecomeBusy(r)
  <2>1. Active(r) /\ At(r, "busy") /\ UNCHANGED <<open, history, stored, foreign>>
    BY <1>2 DEF BecomeBusy, Active, Finished
  <2>2. QED  BY <1>1, <2>1, StageOfRun
<1>3. CASE Aborts(r)
  <2>1. Active(r) /\ At(r, "stopping") /\ UNCHANGED <<open, history, stored, foreign>>
    BY <1>3 DEF Aborts, Active, Finished
  <2>2. QED  BY <1>1, <2>1, StageOfRun
<1>4. CASE HeadersCome(r)
  <2>1. Active(r) /\ At(r, "receiving") /\ UNCHANGED <<open, history, stored, foreign>>
    BY <1>4 DEF HeadersCome, Active, Finished
  <2>2. QED  BY <1>1, <2>1, StageOfRun
<1>5. CASE Request(r) /\ controller[runs[r].panel] = 0
  <2>1. Active(r) /\ runs[r].at \in Late /\ Finally(r, history[runs[r].panel])
    BY <1>5 DEF Request, Active, Finished, Late
  <2>2. QED  BY <1>5, <2>1, LoneHasController, FinallyKeepsHistory
<1>6. CASE Request(r) /\ controller[runs[r].panel] # 0
  <2>1. /\ Active(r)
        /\ runs' = [runs EXCEPT ![r] = [runs[r] EXCEPT !.at = "requesting",
                                                      !.signal = controller[runs[r].panel]]]
        /\ UNCHANGED <<open, history, stored, foreign>>
    BY <1>6 DEF Request, Active, Finished
  <2>2. /\ \A q \in Runs \ {r} : runs'[q] = runs[q]
        /\ runs'[r].panel = runs[r].panel /\ runs'[r].at = "requesting"
    BY <2>1 DEF PromptsInv, RunType
  <2>3. QED  BY <1>1, <2>1, <2>2
<1>7. QED  BY <1>2, <1>3, <1>4, <1>5, <1>6

LEMMA CaughtKeeps ==
  ASSUME PromptsInv, Kept, NEW r \in Runs, RequestFails(r) \/ StreamBreaks(r)
  PROVE  Kept'
<1>1. runs[r].at \in {"requesting", "receiving"} /\ Caught(r)
  BY DEF RequestFails, StreamBreaks
<1>2. Active(r) /\ runs[r].at \in Late /\ runs[r].at \notin {"provider", "asked"}
  BY <1>1 DEF Active, Finished, Late
<1>3. CASE controller[runs[r].panel] = 0 /\ Finally(r, history[runs[r].panel])
  BY <1>2, <1>3, LoneHasController, FinallyKeepsHistory
<1>4. CASE At(r, "stopping") /\ UNCHANGED <<open, history, stored, foreign>>
  BY <1>2, <1>4, StageOfRun, StageKeeps
<1>5. CASE Write(r, "error") /\ At(r, "ending") /\ UNCHANGED <<open, stored, foreign>>
  <2>1. "error" \in ReplyTexts  BY DEF ReplyTexts
  <2>2. QED  BY <1>2, <1>5, <2>1, StageOfRun, WriteKeeps
<1>6. QED  BY <1>1, <1>3, <1>4, <1>5 DEF Caught

LEMMA StreamKeeps ==
  ASSUME PromptsInv, Kept, NEW r \in Runs, Chunk(r) \/ StreamEnds(r) \/ StreamEndsMute(r)
  PROVE  Kept'
<1>1. /\ Active(r) /\ runs[r].at = "receiving" /\ "part" \in ReplyTexts /\ "whole" \in ReplyTexts
      /\ UNCHANGED <<open, stored, foreign>>
  BY DEF Chunk, StreamEnds, StreamEndsMute, Active, Finished, ReplyTexts
<1>2. CASE Chunk(r)
  <2>1. Write(r, "part") /\ runs' = runs
    BY <1>2 DEF Chunk
  <2>2. QED  BY <1>1, <2>1, WriteKeeps
<1>3. CASE StreamEnds(r)
  <2>1. Write(r, "whole") /\ At(r, "ending")
    BY <1>3 DEF StreamEnds
  <2>2. QED  BY <1>1, <2>1, StageOfRun, WriteKeeps
<1>4. CASE StreamEndsMute(r)
  <2>1. PICK p \in Panels : p = runs[r].panel
    BY <1>1, PanelOfRun
  <2>2. /\ HistoriesFit /\ StoredFits /\ StoredIsShown /\ UNCHANGED <<open, history, stored, foreign>>
        /\ runs' = [runs EXCEPT ![r] = [runs[r] EXCEPT !.at = "ending", !.mute = TRUE]]
    BY <1>4 DEF Kept, StreamEndsMute
  <2>3. /\ \A q \in Runs \ {r} : runs'[q] = runs[q]
        /\ runs'[r].panel = runs[r].panel /\ runs'[r].at = "ending" /\ runs'[r].mute
    BY <2>2 DEF PromptsInv, RunType
  <2>4. ASSUME NEW i \in 1 .. Len(history[p]), history[p][i].run = r
        PROVE  Fits(history[p][i], p, runs'[r], open)
    <3>1. Fits(history[p][i], p, runs[r], open)
      BY <2>2, <2>4 DEF HistoriesFit
    <3>2. QED  BY <2>3, <3>1 DEF Fits
  <2>5. HistoriesFit'
    BY <2>1, <2>2, <2>3, <2>4, HistoriesKeep
  <2>6. PICK h : h = history[p]
    OBVIOUS
  <2>7. /\ history' = [history EXCEPT ![p] = h] /\ Len(h) = Len(history[p])
        /\ \A i \in 1 .. Len(h) : h[i] = history[p][i]
    BY <2>2, <2>6 DEF HistoriesFit
  <2>8. Active(r)' /\ runs'[r].at # "none"
    BY <2>3 DEF Active, Finished
  <2>9. StoredFits' /\ StoredIsShown'
    BY <2>1, <2>2, <2>3, <2>7, <2>8, StoredKeeps
  <2>10. QED  BY <2>5, <2>9 DEF Kept
<1>5. QED  BY <1>2, <1>3, <1>4

\* The end of a prompt; one that was stopped takes its empty answer back, the only
\* one it has.
LEMMA EndKeeps ==
  ASSUME PromptsInv, Kept, NEW r \in Runs, End(r) \/ Stop(r)
  PROVE  Kept'
<1>1. Active(r)
  BY DEF End, Stop, Active, Finished
<1>2. CASE End(r)
  BY <1>1, <1>2, FinallyKeepsHistory DEF End
<1>3. CASE Stop(r)
  <2>1. PICK p \in Panels : p = runs[r].panel
    BY <1>1, PanelOfRun
  <2>2. PICK h \in Seq(Messages) : h = history[p]
    BY DEF Kept, HistoriesFit
  <2>3. Len(h) \in Nat /\ DOMAIN h = 1 .. Len(h) /\ Len(h) <= MaxHistory /\ OneAnswer(p, h)
    BY <2>2, LenProperties DEF Kept, HistoriesFit
  <2> DEFINE unbegun == {i \in 1 .. Len(h) : IsAnswer(h[i], r) /\ h[i].text = "empty"}
  <2>4. \/ \E i \in unbegun : Finally(r, RemoveAt(h, i))
        \/ (unbegun = {} \/ Closed(r)) /\ Finally(r, h)
    BY <1>3, <2>1, <2>2, <2>3 DEF Stop
  <2>5. CASE (unbegun = {} \/ Closed(r)) /\ Finally(r, h)
    BY <1>1, <2>1, <2>2, <2>5, FinallyKeepsHistory DEF Closed
  <2>6. ASSUME NEW i \in unbegun, Finally(r, RemoveAt(h, i))
        PROVE  Kept'
    <3>1. i \in 1 .. Len(h) /\ IsAnswer(h[i], r)
      BY <2>6
    <3>2. PICK g : g = RemoveAt(h, i)
      OBVIOUS
    <3>3. /\ g \in Seq(Messages) /\ Len(g) = Len(h) - 1
          /\ \A j \in 1 .. Len(g) : g[j] = h[IF j < i THEN j ELSE j + 1]
      BY <3>1, <3>2, RemovedIsGone
    <3>4. ASSUME NEW j \in 1 .. Len(g)
          PROVE  \E k \in 1 .. Len(h) : g[j] = h[k] /\ k = IF j < i THEN j ELSE j + 1
      BY <2>3, <3>3
    <3>5. \A j \in 1 .. Len(g) : ~IsAnswer(g[j], r)
      <4> SUFFICES ASSUME NEW j \in 1 .. Len(g), IsAnswer(g[j], r)
                   PROVE  FALSE
        OBVIOUS
      <4>1. PICK k \in 1 .. Len(h) : g[j] = h[k] /\ k = IF j < i THEN j ELSE j + 1
        BY <3>4
      <4>2. k = i
        BY <2>1, <2>3, <3>1, <4>1 DEF OneAnswer
      <4>3. QED  BY <2>3, <3>1, <3>3, <4>1, <4>2
    <3>6. OneAnswer(p, g)
      <4> SUFFICES ASSUME NEW q \in Runs, runs[q].panel = p, NEW j \in 1 .. Len(g),
                          NEW k \in 1 .. Len(g), IsAnswer(g[j], q), IsAnswer(g[k], q)
                   PROVE  j = k
        BY DEF OneAnswer
      <4>1. PICK a \in 1 .. Len(h) : g[j] = h[a] /\ a = IF j < i THEN j ELSE j + 1
        BY <3>4
      <4>2. PICK b \in 1 .. Len(h) : g[k] = h[b] /\ b = IF k < i THEN k ELSE k + 1
        BY <3>4
      <4>3. a = b
        BY <2>3, <4>1, <4>2 DEF OneAnswer
      <4>4. QED  BY <2>3, <3>1, <3>3, <4>1, <4>2, <4>3
    <3>7. Len(g) <= MaxHistory
      BY <2>3, <3>3, ChatAssumption
    <3>8. \A j \in 1 .. Len(g) : \E k \in 1 .. Len(history[p]) : g[j] = history[p][k]
      BY <2>2, <3>4
    <3>9. Finally(r, g)
      BY <2>6, <3>2
    <3>10. QED  BY <1>1, <2>1, <3>3, <3>5, <3>6, <3>7, <3>8, <3>9, FinallyKeeps
  <2>7. QED  BY <2>4, <2>5, <2>6
<1>4. QED  BY <1>2, <1>3

LEMMA KeptNext ==
  ASSUME PromptsInv, OthersFit, Kept, [ChatNext]_cvars
  PROVE  Kept'
<1>1. CASE Cancel \/ ClosePanel \/ ReloadWindow \/ UNCHANGED cvars
  BY <1>1, ClosingKeeps
<1>2. CASE Clear
  BY <1>2, ClearKeeps
<1>3. CASE OpenPanel
  BY <1>3, OpenPanelKeeps
<1>4. ASSUME NEW r \in Runs, Send(r)
      PROVE  Kept'
  BY <1>4, SendKeeps
<1>5. ASSUME NEW r \in Runs, NotConfigured(r) \/ Ask(r) \/ PostThrows(r) \/ Answer(r)
      PROVE  Kept'
  BY <1>5, StartKeeps
<1>6. ASSUME NEW r \in Runs, BecomeBusy(r) \/ Request(r) \/ Aborts(r) \/ HeadersCome(r)
      PROVE  Kept'
  BY <1>6, RequestKeeps
<1>7. ASSUME NEW r \in Runs, RequestFails(r) \/ StreamBreaks(r)
      PROVE  Kept'
  BY <1>7, CaughtKeeps
<1>8. ASSUME NEW r \in Runs, Chunk(r) \/ StreamEnds(r) \/ StreamEndsMute(r)
      PROVE  Kept'
  BY <1>8, StreamKeeps
<1>9. ASSUME NEW r \in Runs, End(r) \/ Stop(r)
      PROVE  Kept'
  BY <1>9, EndKeeps
<1>10. QED
  BY <1>1, <1>2, <1>3, <1>4, <1>5, <1>6, <1>7, <1>8, <1>9 DEF ChatNext, RunStep, Streaming

\* A prompt's panel is the one that was open when it was sent.
LEMMA OthersNext ==
  ASSUME PromptsInv, OthersFit, [ChatNext]_cvars
  PROVE  OthersFit'
<1>1. /\ made \in 0 .. MaxPanels /\ open \in 0 .. MaxPanels /\ open <= made
      /\ events \in 0 .. MaxEvents /\ MaxEvents \in Nat /\ MaxPanels \in Nat
      /\ foreign \in BOOLEAN /\ aborted \subseteq Runs
  BY ChatAssumption DEF PromptsInv, OthersFit
<1>2. open # 0 => {controller[open]} \ {0} \subseteq Runs
  BY <1>1, ChatAssumption DEF PromptsInv, Panels, Runs
<1>3. ASSUME \A q \in Runs : runs'[q].panel \in {runs[q].panel, open}, made' \in {made, made + 1}
      PROVE  \A q \in Runs : runs'[q].panel <= made'
  <2> SUFFICES ASSUME NEW q \in Runs
               PROVE  runs'[q].panel <= made'
    OBVIOUS
  <2>1. runs[q].panel \in 0 .. MaxPanels /\ runs[q].panel <= made
    BY DEF PromptsInv, RunType, OthersFit
  <2>2. runs'[q].panel \in {runs[q].panel, open}
    BY <1>3
  <2>3. QED  BY <1>1, <1>3, <2>1, <2>2
<1>4. CASE UNCHANGED cvars
  BY <1>4 DEF OthersFit, cvars
<1>5. CASE Cancel \/ ClosePanel
  BY <1>1, <1>2, <1>5 DEF Cancel, ClosePanel, AbortCurrent, Event, OthersFit
<1>6. CASE Clear
  BY <1>1, <1>6 DEF Clear, Persist, Event, OthersFit
<1>7. CASE OpenPanel
  <2>1. /\ made' = made + 1 /\ open' = made + 1 /\ foreign' = FALSE
        /\ UNCHANGED <<aborted, runs, events>>
    BY <1>7 DEF OpenPanel
  <2>2. \A q \in Runs : runs'[q].panel <= made'
    BY <1>3, <2>1
  <2>3. open' <= made'
    BY <1>1, <2>1
  <2>4. foreign' \in BOOLEAN /\ aborted' \subseteq Runs /\ events' \in 0 .. MaxEvents
    BY <1>1, <2>1, Zenon
  <2>5. QED  BY <2>2, <2>3, <2>4 DEF OthersFit
<1>8. CASE ReloadWindow
  <2>1. /\ runs' = [r \in Runs |-> IF Active(r) THEN [runs[r] EXCEPT !.at = "off"] ELSE runs[r]]
        /\ made' = made /\ open' = 0 /\ aborted' = aborted /\ foreign' = foreign
        /\ events' \in 0 .. MaxEvents
    BY <1>1, <1>8 DEF ReloadWindow, Event
  <2>2. \A q \in Runs : runs'[q].panel = runs[q].panel
    BY <2>1 DEF PromptsInv, RunType
  <2>3. QED  BY <1>1, <1>3, <2>1, <2>2 DEF OthersFit
<1>9. ASSUME NEW r \in Runs, Send(r)
      PROVE  OthersFit'
  <2> DEFINE others == {q \in Runs : Active(q) /\ runs[q].panel = open}
  <2>1. /\ open # 0 /\ UNCHANGED <<open, made, foreign, events>>
        /\ aborted' \in {aborted, aborted \union ({controller[open]} \ {0})}
        /\ runs' = [q \in Runs |->
             IF q = r THEN [NoRun EXCEPT !.panel = open, !.at = "provider", !.alone = others = {}]
             ELSE IF q \in others THEN [runs[q] EXCEPT !.alone = FALSE] ELSE runs[q]]
    BY <1>9 DEF Send
  <2> HIDE DEF others
  <2>2. \A q \in Runs : runs'[q].panel \in {runs[q].panel, open}
    BY <2>1 DEF PromptsInv, RunType, NoRun
  <2>3. aborted' \subseteq Runs
    BY <1>1, <1>2, <2>1
  <2>4. QED  BY <1>1, <1>3, <2>1, <2>2, <2>3 DEF OthersFit
<1>10. ASSUME NEW r \in Runs, \A q \in Runs : runs'[q].panel = runs[q].panel,
              UNCHANGED <<open, made, aborted, events>>, foreign' \in BOOLEAN
       PROVE  OthersFit'
  BY <1>1, <1>3, <1>10 DEF OthersFit
<1>11. ASSUME NEW r \in Runs, RunStep(r) \/ Streaming(r)
       PROVE  OthersFit'
  <2>1. UNCHANGED <<open, made, aborted, events>>
    BY <1>11 DEF RunStep, NotConfigured, Ask, PostThrows, Answer, BecomeBusy, Request, Aborts,
                 RequestFails, HeadersCome, End, Stop, Chunk, StreamBreaks, StreamEnds,
                 StreamEndsMute, Streaming, Caught,
                 Finally
  <2>2. foreign' \in BOOLEAN
    BY <1>1, <1>11 DEF RunStep, NotConfigured, Ask, PostThrows, Answer, BecomeBusy, Request,
                 Aborts, RequestFails, HeadersCome, End, Stop, Chunk, StreamBreaks, StreamEnds,
                 StreamEndsMute, Streaming, Caught, Finally, Push, Persist
  <2>3. \/ runs' = runs
        \/ \E s \in RunStages : At(r, s)
        \/ \E s \in RunStages, k \in 0 .. MaxRuns :
             runs' = [runs EXCEPT ![r] = [runs[r] EXCEPT !.at = s, !.signal = k]]
        \/ runs' = [runs EXCEPT ![r] = [runs[r] EXCEPT !.at = "ending", !.mute = TRUE]]
    <3>1. CASE Request(r) /\ controller[runs[r].panel] # 0
      <4>1. runs[r].panel \in Panels
        BY <3>1 DEF Request, PromptsInv
      <4>2. PICK k \in 0 .. MaxRuns : k = controller[runs[r].panel]
        BY <4>1 DEF PromptsInv
      <4>3. runs' = [runs EXCEPT ![r] = [runs[r] EXCEPT !.at = "requesting", !.signal = k]]
        BY <3>1, <4>2 DEF Request
      <4>4. "requesting" \in RunStages  BY DEF RunStages
      <4>5. QED  BY <4>2, <4>3, <4>4
    <3>2. CASE ~(Request(r) /\ controller[runs[r].panel] # 0)
      <4>1. \/ runs' = runs
            \/ \E s \in {"off", "asked", "hello", "busy", "stopping", "receiving", "ending"} :
                 At(r, s)
            \/ runs' = [runs EXCEPT ![r] = [runs[r] EXCEPT !.at = "ending", !.mute = TRUE]]
        BY <1>11, <3>2 DEF RunStep, NotConfigured, Ask, PostThrows, Answer, BecomeBusy, Request,
                 Aborts, RequestFails, HeadersCome, End, Stop, Chunk, StreamBreaks, StreamEnds,
                 StreamEndsMute, Streaming, Caught, Finally
      <4>2. QED  BY <4>1 DEF RunStages
    <3>3. QED  BY <3>1, <3>2
  <2>4. ASSUME NEW e, runs' = [runs EXCEPT ![r] = e], e.panel = runs[r].panel
        PROVE  \A q \in Runs : runs'[q].panel = runs[q].panel
    BY <2>4 DEF PromptsInv
  <2>5. \A s : [runs[r] EXCEPT !.at = s].panel = runs[r].panel
    BY DEF PromptsInv, RunType
  <2>6. \A s, k : [runs[r] EXCEPT !.at = s, !.signal = k].panel = runs[r].panel
    BY DEF PromptsInv, RunType
  <2>7. [runs[r] EXCEPT !.at = "ending", !.mute = TRUE].panel = runs[r].panel
    BY DEF PromptsInv, RunType
  <2>8. \A q \in Runs : runs'[q].panel = runs[q].panel
    BY <2>3, <2>4, <2>5, <2>6, <2>7 DEF At
  <2>9. QED  BY <1>10, <2>1, <2>2, <2>8
<1>12. QED
  BY <1>4, <1>5, <1>6, <1>7, <1>8, <1>9, <1>11 DEF ChatNext

LEMMA ChatInitInv ==
  ASSUME ChatInit
  PROVE  ChatIInv
<1>1. /\ open = 0 /\ made = 0 /\ aborted = {} /\ foreign = FALSE /\ events = 0 /\ stored = <<>>
      /\ history = [p \in Panels |-> <<>>] /\ runs = [r \in Runs |-> NoRun]
  BY DEF ChatInit
<1>2. <<>> \in Seq(Messages) /\ Len(<<>>) = 0 /\ MaxHistory \in Nat /\ MaxEvents \in Nat
  BY ChatAssumption, EmptySeq
<1>3. history \in [Panels -> Seq(Messages)] /\ \A p \in Panels : history[p] = <<>>
  BY <1>1, <1>2
<1>4. HistoriesFit
  <2>1. \A p \in Panels : Len(history[p]) = 0
    BY <1>2, <1>3
  <2>2. QED  BY <1>2, <1>3, <2>1 DEF HistoriesFit, OneAnswer
<1>5. StoredFits
  BY <1>1, <1>2 DEF StoredFits
<1>6. StoredIsShown
  BY <1>1 DEF StoredIsShown
<1>7. OthersFit
  <2>1. \A r \in Runs : runs[r].panel = 0
    BY <1>1 DEF NoRun
  <2>2. events \in 0 .. MaxEvents /\ open <= made /\ 0 <= made
    BY <1>1, <1>2
  <2>3. QED  BY <1>1, <2>1, <2>2 DEF OthersFit
<1>8. QED  BY <1>4, <1>5, <1>6, <1>7, PromptsInit DEF ChatIInv

LEMMA ChatInvariant == ChatSpec => []ChatIInv
<1>1. ChatInit => ChatIInv
  BY ChatInitInv
<1>2. ChatIInv /\ [ChatNext]_cvars => ChatIInv'
  BY PromptsNext, OthersNext, KeptNext DEF ChatIInv, Kept
<1>3. QED  BY <1>1, <1>2, PTL DEF ChatSpec

-----------------------------------------------------------------------------
\* No history, the stored one included, grows beyond AI_CHAT_MAX_HISTORY, whatever
\* is asked, cleared or stored by a closed panel, and nothing leaves its type.
THEOREM HistoriesAreBounded == ChatSpec => []ChatTypeOK
<1>1. ChatIInv => ChatTypeOK
  BY DEF ChatIInv, PromptsInv, OthersFit, HistoriesFit, StoredFits, ChatTypeOK, RunType
<1>2. QED  BY <1>1, ChatInvariant, PTL

\* What a reload of the window would show is what the panel shows, but for the
\* answers in progress and the histories of closed panels stored since.
THEOREM WhatIsStoredIsShown == ChatSpec => []StoredFollowsHistory
<1>1. ASSUME NEW s \in Messages, NEW m \in Messages, s.run = m.run, s.role = m.role
      PROVE  [s EXCEPT !.text = "part"] = [m EXCEPT !.text = "part"]
  BY <1>1 DEF Messages
<1>2. ChatIInv => StoredFollowsHistory
  <2> SUFFICES ASSUME ChatIInv, open # 0, ~foreign
               PROVE  /\ Len(stored) = Len(history[open])
                      /\ \A i \in 1 .. Len(stored) :
                           \/ stored[i] = history[open][i]
                           \/ /\ Active(stored[i].run)
                              /\ [stored[i] EXCEPT !.text = "part"]
                                   = [history[open][i] EXCEPT !.text = "part"]
    BY DEF StoredFollowsHistory
  <2>1. open \in Panels /\ stored \in Seq(Messages) /\ history[open] \in Seq(Messages)
    BY ChatAssumption DEF ChatIInv, PromptsInv, Panels, HistoriesFit, StoredFits
  <2>2. Len(stored) = Len(history[open])
    BY DEF ChatIInv, StoredIsShown
  <2>3. ASSUME NEW i \in 1 .. Len(stored)
        PROVE  \/ stored[i] = history[open][i]
               \/ /\ Active(stored[i].run)
                  /\ [stored[i] EXCEPT !.text = "part"] = [history[open][i] EXCEPT !.text = "part"]
    <3>1. stored[i] \in Messages /\ history[open][i] \in Messages
      BY <2>1, <2>2, MessagesAreTyped
    <3>2. \/ stored[i] = history[open][i]
          \/ /\ IsAnswer(history[open][i], stored[i].run)
             /\ stored[i].role = "assistant" /\ Active(stored[i].run)
      BY DEF ChatIInv, StoredIsShown
    <3>3. QED  BY <1>1, <3>1, <3>2 DEF IsAnswer
  <2>4. QED  BY <2>2, <2>3
<1>3. QED  BY <1>2, ChatInvariant, PTL

\* Whatever ends a prompt that no other overlapped, it leaves no empty answer in
\* the open panel's history, unless its stream ended without the text.
THEOREM EndedPromptsLeaveNoEmptyAnswer == ChatSpec => []NoEmptyAnswerIsLeft
<1>1. ChatIInv => NoEmptyAnswerIsLeft
  <2> SUFFICES ASSUME ChatIInv, open # 0, NEW i \in 1 .. Len(history[open]),
                      history[open][i].text = "empty",
                      runs[history[open][i].run].panel = open, runs[history[open][i].run].alone
               PROVE  Active(history[open][i].run) \/ runs[history[open][i].run].mute
    BY DEF NoEmptyAnswerIsLeft
  <2>1. open \in Panels
    BY ChatAssumption DEF ChatIInv, PromptsInv, Panels
  <2>2. Fits(history[open][i], open, runs[history[open][i].run], open)
    BY <2>1 DEF ChatIInv, HistoriesFit
  <2>3. QED  BY <2>2 DEF Fits, Active
<1>2. QED  BY <1>1, ChatInvariant, PTL
=============================================================================
