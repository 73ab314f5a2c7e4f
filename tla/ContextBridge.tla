---------------------------- MODULE ContextBridge ----------------------------
(***************************************************************************)
(* ContextBridge (src/apps/vscode-extension/src/mcp/contextBridge.ts): one *)
(* pending context, one timer, and the hash of the last context handed to  *)
(* the MCP adapter.  A context stands for its hash: contexts are equal     *)
(* when hashContext makes them so.                                         *)
(***************************************************************************)
EXTENDS Naturals, Sequences

CONSTANTS
  Contexts,   \* contexts that may be pushed
  None        \* no context

ASSUME BridgeAssumption == None \notin Contexts

\* The reasons of PUSH_DELAYS; the delay of an immediate one is 0.
Immediate == {"save", "drc"}
Reasons   == Immediate \union {"focus", "cursor", "default"}

VARIABLES
  last,         \* lastContextHash
  pending,      \* pendingContext
  flushTimer,   \* whether flushTimer is armed
  sent          \* the contexts given to adapter.pushStudioContext, in order

bridgeVars == <<last, pending, flushTimer, sent>>

BridgeTypeOK ==
  /\ last \in Contexts \union {None}
  /\ pending \in Contexts \union {None}
  /\ flushTimer \in BOOLEAN
  /\ sent \in Seq(Contexts)

BridgeInit ==
  /\ last = None
  /\ pending = None
  /\ flushTimer = FALSE
  /\ sent = <<>>

\* Mutant of Flush: the timer is armed again.
FlushRearming(x) ==
  /\ pending' = None
  /\ flushTimer' = TRUE
  /\ IF x \in {None, last}
       THEN UNCHANGED <<last, sent>>
       ELSE last' = x /\ sent' = Append(sent, x)

\* flushPending() with x pending.
Flush(x) ==
  /\ pending' = None
  /\ flushTimer' = FALSE
  /\ IF x \in {None, last}
       THEN UNCHANGED <<last, sent>>
       ELSE last' = x /\ sent' = Append(sent, x)

\* pushContext(context, reason): a context that was sent last changes nothing,
\* not even what is pending; any other replaces what is pending.
PushContext(x, reason) ==
  IF x = last
    THEN UNCHANGED bridgeVars
    ELSE IF reason \in Immediate
           THEN Flush(x)
           ELSE /\ pending' = x
                /\ flushTimer' = TRUE
                /\ UNCHANGED <<last, sent>>

FlushTimerFires == flushTimer /\ Flush(pending)

\* Mutant of DisposeBridge: what is pending is dropped with its timer.
DisposeBridgeDropping ==
  /\ pending' = None
  /\ flushTimer' = FALSE
  /\ UNCHANGED <<last, sent>>

\* dispose() of the bridge: what is pending is sent now.
DisposeBridge == Flush(pending)

-----------------------------------------------------------------------------
\* Nothing that was accepted waits without a timer, and no timer is armed for
\* nothing: a pending context is sent without a further event.
PendingIsTimed == (pending # None) <=> flushTimer

\* lastContextHash is the hash of what the adapter was given last.
LastIsSent ==
  last = IF sent = <<>> THEN None ELSE sent[Len(sent)]

\* "does not push semantically identical context twice"
\* (test/unit/contextBridge.test.ts:19): no context is handed to the adapter
\* twice in a row, whichever of an immediate push, a timer and dispose sends it.
NoRepeatedSend ==
  \A i \in 1 .. Len(sent) - 1 : sent[i] # sent[i + 1]

\* The bridge alone, pushed to at any time: what the proofs are about.
BridgeNext ==
  \/ \E x \in Contexts, reason \in Reasons : PushContext(x, reason)
  \/ FlushTimerFires
  \/ DisposeBridge

BridgeSpec == BridgeInit /\ [][BridgeNext]_bridgeVars
=============================================================================
