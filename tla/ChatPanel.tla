----------------------------- MODULE ChatPanel -----------------------------
(***************************************************************************)
(* KiCadChatPanel (ai/chatPanel.ts): the prompts being answered, the       *)
(* history each panel keeps and the one it stores in the workspace state,  *)
(* and the abort controller Cancel goes through.                           *)
(*                                                                         *)
(* A prompt is answered over many awaits.  The panel is busy only from the *)
(* moment the request is about to be sent, so a second prompt may start    *)
(* before; and there is one controller, the last one made.  A closed panel *)
(* forgets nothing: its prompts go on until a post to its page throws, and *)
(* store its history once more.                                            *)
(*                                                                         *)
(* The provider is one of those that fetch (claudeProvider.ts): its        *)
(* request() ties the signal to the fetch and unties it when the headers   *)
(* have come (providerUtils.ts).                                           *)
(***************************************************************************)
EXTENDS Integers, SequencesExt

CONSTANTS
  MaxHistory,  \* AI_CHAT_MAX_HISTORY
  MaxRuns,     \* bound on the prompts
  MaxPanels,   \* bound on the panels opened
  MaxEvents    \* bound on what else the user does

ASSUME ChatAssumption ==
  /\ MaxHistory \in Nat \ {0}
  /\ MaxRuns \in Nat \ {0} /\ MaxPanels \in Nat \ {0}
  /\ MaxEvents \in Nat

Runs   == 1 .. MaxRuns
Panels == 1 .. MaxPanels

VARIABLES
  open,        \* KiCadChatPanel.instance, 0 for undefined
  made,        \* how many panels there have been
  history,     \* history of each panel
  stored,      \* the workspace state's 'kicadstudio.aiChat.history'
  busy,
  controller,  \* abortController of each panel: the run that made it, 0 for undefined
  aborted,     \* the controllers that have aborted
  runs,        \* runPrompt; history: alone, if no other prompt of the panel ran at the
               \* same time, and mute, if its stream ended without its text
  foreign,     \* history: what is stored comes from a panel that was closed
  events

cvars == <<open, made, history, stored, busy, controller, aborted, runs, foreign, events>>

NoRun    == [panel |-> 0, at |-> "none", signal |-> 0, alone |-> TRUE, mute |-> FALSE]
Finished == {"none", "off"}

\* The reply's text is not told apart beyond its being whole or not.
Messages == [run : Runs, role : {"user", "assistant"},
             text : {"prompt", "empty", "part", "whole", "error"}]

RunStages == {"none", "provider", "asked", "hello", "busy", "requesting", "receiving",
              "stopping", "ending", "off"}

\* No step leaves a history longer than AI_CHAT_MAX_HISTORY.
ChatTypeOK ==
  /\ open \in 0 .. MaxPanels /\ made \in 0 .. MaxPanels /\ open <= made
  /\ history \in [Panels -> Seq(Messages)] /\ stored \in Seq(Messages)
  /\ \A p \in Panels : Len(history[p]) <= MaxHistory
  /\ Len(stored) <= MaxHistory
  /\ busy \in [Panels -> BOOLEAN] /\ controller \in [Panels -> 0 .. MaxRuns]
  /\ aborted \subseteq Runs
  /\ runs \in [Runs -> [panel : 0 .. MaxPanels, at : RunStages,
                        signal : 0 .. MaxRuns, alone : BOOLEAN, mute : BOOLEAN]]
  /\ foreign \in BOOLEAN /\ events \in 0 .. MaxEvents

ChatInit ==
  /\ open = 0 /\ made = 0
  /\ history = [p \in Panels |-> <<>>] /\ stored = <<>>
  /\ busy = [p \in Panels |-> FALSE] /\ controller = [p \in Panels |-> 0]
  /\ aborted = {} /\ runs = [r \in Runs |-> NoRun]
  /\ foreign = FALSE /\ events = 0

Event == events < MaxEvents /\ events' = events + 1

Active(r) == runs[r].at \notin Finished
Closed(r) == runs[r].panel # open
At(r, stage) == runs' = [runs EXCEPT ![r].at = stage]

-----------------------------------------------------------------------------
(***************************************************************************)
(* The history.                                                            *)
(***************************************************************************)

\* Mutant of Trimmed: nothing is dropped.
Untrimmed(h) == h

Trimmed(h) == IF Len(h) > MaxHistory THEN SubSeq(h, Len(h) - MaxHistory + 1, Len(h)) ELSE h

\* The panel's history becomes h and is stored.
Persist(p, h) ==
  /\ history' = [history EXCEPT ![p] = h]
  /\ stored' = h
  /\ foreign' = (p # open)

Push(r, role, text) ==
  LET p == runs[r].panel
  IN Persist(p, Trimmed(Append(history[p], [run |-> r, role |-> role, text |-> text])))

IsAnswer(m, r) == m.run = r /\ m.role = "assistant"

\* The run writes to its answer, which may have left the history.
Write(r, text) ==
  LET p == runs[r].panel
  IN history' = [history EXCEPT ![p] = [i \in DOMAIN @ |->
       IF IsAnswer(@[i], r) THEN [@[i] EXCEPT !.text = text] ELSE @[i]]]

-----------------------------------------------------------------------------
(***************************************************************************)
(* runPrompt up to the request.  A post to a closed panel's page throws.   *)
(***************************************************************************)

\* A prompt sent while another is answered aborts that one's controller.
Send(r) ==
  /\ open # 0
  /\ runs[r] = NoRun /\ \A q \in 1 .. r - 1 : runs[q] # NoRun
  /\ LET others == {q \in Runs : Active(q) /\ runs[q].panel = open}
     IN runs' = [q \in Runs |->
          IF q = r THEN [NoRun EXCEPT !.panel = open, !.at = "provider", !.alone = others = {}]
          ELSE IF q \in others THEN [runs[q] EXCEPT !.alone = FALSE] ELSE runs[q]]
  /\ aborted' = IF busy[open] THEN aborted \union ({controller[open]} \ {0}) ELSE aborted
  /\ UNCHANGED <<open, made, history, stored, busy, controller, foreign, events>>

NotConfigured(r) ==
  /\ runs[r].at = "provider"
  /\ At(r, "off")
  /\ UNCHANGED <<open, made, history, stored, busy, controller, aborted, foreign, events>>

Ask(r) ==
  /\ runs[r].at = "provider"
  /\ Push(r, "user", "prompt")
  /\ At(r, "asked")
  /\ UNCHANGED <<open, made, busy, controller, aborted, events>>

PostThrows(r) ==
  /\ runs[r].at \in {"asked", "hello", "busy"} /\ Closed(r)
  /\ At(r, "off")
  /\ UNCHANGED <<open, made, history, stored, busy, controller, aborted, foreign, events>>

\* The post of the question may have been sent before its panel closed.
Answer(r) ==
  /\ runs[r].at = "asked"
  /\ Push(r, "assistant", "empty")
  /\ At(r, "hello")
  /\ UNCHANGED <<open, made, busy, controller, aborted, events>>

\* The MCP server has been asked for its state, which a closed panel waits for too.
BecomeBusy(r) ==
  LET p == runs[r].panel
  IN /\ runs[r].at = "hello"
     /\ busy' = [busy EXCEPT ![p] = TRUE]
     /\ controller' = [controller EXCEPT ![p] = r]
     /\ At(r, "busy")
     /\ UNCHANGED <<open, made, history, stored, aborted, foreign, events>>

\* The finally block.
Finally(r, h) ==
  LET p == runs[r].panel
  IN /\ busy' = [busy EXCEPT ![p] = FALSE]
     /\ controller' = [controller EXCEPT ![p] = 0]
     /\ Persist(p, Trimmed(h))
     /\ At(r, "off")
     /\ UNCHANGED <<open, made, aborted, events>>

\* Two awaits after making its controller the run reads the panel's: another run
\* may have replaced or removed it, and reading the signal of undefined throws,
\* in the catch block once more.
Request(r) ==
  LET p == runs[r].panel
  IN /\ runs[r].at = "busy"
     /\ IF controller[p] = 0
          THEN Finally(r, history[p])
          ELSE /\ runs' = [runs EXCEPT ![r].at = "requesting", ![r].signal = controller[p]]
               /\ UNCHANGED <<open, made, history, stored, busy, controller, aborted, foreign,
                              events>>

-----------------------------------------------------------------------------
(***************************************************************************)
(* The provider's request, and what becomes of its result.                 *)
(***************************************************************************)

\* The fetch is aborted by the signal it was given.
Aborts(r) ==
  /\ runs[r].at = "requesting" /\ runs[r].signal \in aborted
  /\ At(r, "stopping")
  /\ UNCHANGED <<open, made, history, stored, busy, controller, aborted, foreign, events>>

\* The catch block for any other error asks the panel's controller whether this
\* was an abort.
Caught(r) ==
  LET p == runs[r].panel
  IN \/ controller[p] = 0 /\ Finally(r, history[p])
     \/ /\ controller[p] # 0 /\ controller[p] \in aborted
        /\ At(r, "stopping")
        /\ UNCHANGED <<open, made, history, stored, busy, controller, aborted, foreign, events>>
     \/ /\ controller[p] # 0 /\ controller[p] \notin aborted
        /\ Write(r, "error") /\ At(r, "ending")
        /\ UNCHANGED <<open, made, stored, busy, controller, aborted, foreign, events>>

\* Mutant of RequestFails: only a request without a signal gets a timeout.
RequestFailsUntimed(r) ==
  /\ runs[r].at = "requesting" /\ runs[r].signal = 0
  /\ Caught(r)

\* An error status, a network error, or AI_STREAM_TIMEOUT_MS over.
RequestFails(r) ==
  /\ runs[r].at = "requesting" /\ runs[r].signal \notin aborted
  /\ Caught(r)

\* request() returns: neither the timeout nor the signal is attached any more.
HeadersCome(r) ==
  /\ runs[r].at = "requesting" /\ runs[r].signal \notin aborted
  /\ At(r, "receiving")
  /\ UNCHANGED <<open, made, history, stored, busy, controller, aborted, foreign, events>>

Chunk(r) ==
  /\ runs[r].at = "receiving"
  /\ Write(r, "part")
  /\ UNCHANGED <<open, made, stored, busy, controller, aborted, runs, foreign, events>>

StreamBreaks(r) == runs[r].at = "receiving" /\ Caught(r)

\* The stream ends without the rest of the text, or any: at an error event, which
\* is read past, or because the response had no body.
StreamEndsMute(r) ==
  /\ runs[r].at = "receiving"
  /\ runs' = [runs EXCEPT ![r].at = "ending", ![r].mute = TRUE]
  /\ UNCHANGED <<open, made, history, stored, busy, controller, aborted, foreign, events>>

StreamEnds(r) ==
  /\ runs[r].at = "receiving"
  /\ Write(r, "whole") /\ At(r, "ending")
  /\ UNCHANGED <<open, made, stored, busy, controller, aborted, foreign, events>>

\* After the posts; a closed panel's throw, and end the run as well.
End(r) == runs[r].at = "ending" /\ Finally(r, history[runs[r].panel])

\* Mutant of Stop: an answer that has not begun stays.
StopKeepingAnswer(r) == runs[r].at = "stopping" /\ Finally(r, history[runs[r].panel])

\* After 'Streaming stopped.': an answer that has not begun is taken back, if it is
\* still in the history.  A closed panel may throw before that.
Stop(r) ==
  LET p == runs[r].panel
      h == history[p]
      unbegun == {i \in DOMAIN h : IsAnswer(h[i], r) /\ h[i].text = "empty"}
  IN /\ runs[r].at = "stopping"
     /\ \/ \E i \in unbegun : Finally(r, RemoveAt(h, i))
        \/ (unbegun = {} \/ Closed(r)) /\ Finally(r, h)

-----------------------------------------------------------------------------
(***************************************************************************)
(* The user.                                                               *)
(***************************************************************************)

AbortCurrent == aborted' = aborted \union ({controller[open]} \ {0})

\* Mutant of Cancel: the controller is forgotten once it is told.
CancelAndForget ==
  /\ Event /\ open # 0
  /\ AbortCurrent
  /\ controller' = [controller EXCEPT ![open] = 0]
  /\ UNCHANGED <<open, made, history, stored, busy, runs, foreign>>

Cancel ==
  /\ Event /\ open # 0
  /\ AbortCurrent
  /\ UNCHANGED <<open, made, history, stored, busy, controller, runs, foreign>>

\* Mutant of Clear: the stored history stays.
ClearPanelOnly ==
  /\ Event /\ open # 0
  /\ history' = [history EXCEPT ![open] = <<>>]
  /\ UNCHANGED <<open, made, stored, busy, controller, aborted, runs, foreign>>

Clear ==
  /\ Event /\ open # 0
  /\ Persist(open, <<>>)
  /\ UNCHANGED <<open, made, busy, controller, aborted, runs>>

ClosePanel ==
  /\ Event /\ open # 0
  /\ open' = 0 /\ AbortCurrent
  /\ UNCHANGED <<made, history, stored, busy, controller, runs, foreign>>

\* createOrShow.
OpenPanel ==
  /\ open = 0 /\ made < MaxPanels
  /\ made' = made + 1 /\ open' = made + 1
  /\ history' = [history EXCEPT ![made + 1] = stored]
  /\ foreign' = FALSE
  /\ UNCHANGED <<stored, busy, controller, aborted, runs, events>>

\* The window is reloaded, or its extension host ends: what is stored remains.
ReloadWindow ==
  /\ Event
  /\ open' = 0
  /\ runs' = [r \in Runs |-> IF Active(r) THEN [runs[r] EXCEPT !.at = "off"] ELSE runs[r]]
  /\ UNCHANGED <<made, history, stored, busy, controller, aborted, foreign>>

RunStep(r) ==
  \/ NotConfigured(r) \/ Ask(r) \/ PostThrows(r) \/ Answer(r) \/ BecomeBusy(r) \/ Request(r)
  \/ Aborts(r) \/ RequestFails(r) \/ End(r) \/ Stop(r)

Streaming(r) ==
  HeadersCome(r) \/ Chunk(r) \/ StreamBreaks(r) \/ StreamEnds(r) \/ StreamEndsMute(r)

ChatNext ==
  \/ \E r \in Runs : Send(r) \/ RunStep(r) \/ Streaming(r)
  \/ Cancel \/ Clear \/ ClosePanel \/ OpenPanel \/ ReloadWindow

\* Posts settle, and a request that is neither answered nor aborted times out.
\* Nothing bounds a body: not that of the reply, and not that of the MCP server's
\* answer, which a prompt at "hello" waits for.
ChatFairness == \A r \in Runs : WF_cvars(runs[r].at # "hello" /\ RunStep(r))

ChatSpec == ChatInit /\ [][ChatNext]_cvars /\ ChatFairness

-----------------------------------------------------------------------------
(***************************************************************************)
(* Properties.                                                             *)
(***************************************************************************)

\* Cancel, a new prompt and closing the panel go through the panel's controller:
\* it is the run's own, and the panel is busy, as long as a prompt that no other
\* overlapped is answered.  (Overlapping prompts do lose theirs.)
LoneRunIsHeld ==
  \A r \in Runs :
    runs[r].alone /\ runs[r].at \in {"busy", "requesting", "receiving", "stopping", "ending"}
      => /\ controller[runs[r].panel] = r /\ busy[runs[r].panel]
         /\ runs[r].at # "busy" => runs[r].signal = r

\* What is stored is the open panel's history: the same messages, with the same
\* texts but for the answers in progress.  Not after a prompt of a panel since
\* closed has stored that panel's.
StoredFollowsHistory ==
  open # 0 /\ ~foreign =>
    /\ Len(stored) = Len(history[open])
    /\ \A i \in 1 .. Len(stored) :
         \/ stored[i] = history[open][i]
         \/ /\ Active(stored[i].run)
            /\ [stored[i] EXCEPT !.text = "part"] = [history[open][i] EXCEPT !.text = "part"]

\* No answer is left empty by a prompt of the open panel that has ended, whether
\* it was answered, cancelled, failed or cleared meanwhile: unless prompts
\* overlapped, or the stream ended without its text, which the code takes for a
\* reply.
NoEmptyAnswerIsLeft ==
  open # 0 =>
    \A i \in 1 .. Len(history[open]) :
      LET m == history[open][i]
      IN m.text = "empty" /\ runs[m.run].panel = open /\ runs[m.run].alone
           => Active(m.run) \/ runs[m.run].mute

\* Every prompt comes to its end, or to a reply that is being received, if the MCP
\* server is done answering when it asks for its state.
EveryPromptIsTaken ==
  \A r \in Runs :
    []<>(runs[r].at # "hello") => (Active(r) ~> runs[r].at \in {"receiving", "off"})

\* "aborts in-flight stream on cancel message" (test/unit/chatPanel.test.ts:170)
CancelStopsTheStream ==
  [][\A r \in Runs : runs[r].at = "receiving" /\ runs[r].signal \in aborted => ~Chunk(r)]_cvars
=============================================================================
