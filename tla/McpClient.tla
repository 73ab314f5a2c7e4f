------------------------------ MODULE McpClient ------------------------------
(***************************************************************************)
(* McpClient (src/apps/vscode-extension/src/mcp/mcpClient.ts): tool calls  *)
(* and connection tests over HTTP JSON-RPC, sharing one initialize         *)
(* handshake, one session id and one server card, which outlive the window *)
(* in globalState.                                                         *)
(*                                                                         *)
(* Requests are posted, handled by the server, and answered concurrently;  *)
(* the server may be restarted, with another version, at any time.  A      *)
(* session is named by the server (its epoch) that issued it.  The timeout *)
(* of a request ends with its headers: nothing bounds its body, nor the    *)
(* read of the server's well-known metadata.  The workspace is trusted and *)
(* an HTTP endpoint is configured.                                         *)
(***************************************************************************)
EXTENDS Naturals

CONSTANTS
  Calls,         \* calls of callTool, each made once
  MaxAttempts,   \* maxRetries
  MaxEpochs,     \* bound on the servers started one after the other
  None

ASSUME McpAssumption ==
  /\ Calls \intersect {"initialize", "list"} = {}
  /\ MaxAttempts \in Nat \ {0} /\ MaxEpochs \in Nat \ {0}
  /\ None \notin Nat /\ None \notin {"ok", "incompatible"}

VARIABLES
  session,    \* sessionId
  card,       \* compatibility of state.server: "ok" (also for warn) or not
  kind,       \* state.kind; state.connected follows from it
  stored,     \* session and card in globalState
  stage,      \* stage[r]: how far request r is
  attempts,   \* attempts[r]: posts of r so far
  header,     \* header[r]: the MCP-Session-Id r was posted with
  answer,     \* answer[r]: what the server answered, not yet read
  test,       \* connectionTestPromise, and how far its test is
  server,     \* the server that is running
  trial       \* history: what has come between this test and the server

clientVars == <<session, card, kind, stored, test>>
wireVars   == <<stage, attempts, header, answer>>
mcpVars    == <<clientVars, wireVars, server, trial>>

\* Requests go through rpc(), except initialize, which ensureInitialized posts.
Ops      == Calls \union {"list"}
Requests == Ops \union {"initialize"}

Epochs   == 1 .. MaxEpochs
Sessions == Epochs \union {None}
Compat   == {"ok", "incompatible"}
Cards    == Compat \union {None}

\* "Disconnected" stands for NotInstalled too: both are not connected, and
\* neither keeps a call from trying.
Connected == {"Connected", "VsCodeStdio"}
Kinds     == Connected \union {"Disconnected", "Connecting", "Degraded", "Incompatible"}

\* A request that is "reading" has its headers and awaits its body.
\* initialize also awaits: what captureServerCard does before it stores the
\* card, storing the card, and storing that there is no session any more.
\* list also awaits storing the session of its answer.
Stages == {"idle", "waiting", "posted", "reading", "sleeping", "capturing",
           "card-stored", "session-dropped", "session-stored", "done"}

\* An answer is a JSON-RPC result or error, or an HTTP error that is final (or a
\* body that is no JSON-RPC).
Outcomes == {"result", "error", "rejected"}
Answers  == [session : Sessions, version : Compat, outcome : Outcomes]

\* version: of the version that initialize reports; wellKnown: of the one in the
\* well-known metadata, "incompatible" where there is none.
Servers == [epoch : Epochs, version : Compat, wellKnown : Compat, stateful : BOOLEAN]

\* captureServerCard: the metadata counts only where it names a version in range.
CardFrom(version, wellKnown) == IF wellKnown = "ok" THEN "ok" ELSE version

ServerCard == CardFrom(server.version, server.wellKnown)

McpTypeOK ==
  /\ session \in Sessions
  /\ card \in Cards
  /\ kind \in Kinds
  /\ stored \in [session : Sessions, card : Cards]
  /\ stage \in [Requests -> Stages]
  /\ attempts \in [Requests -> 0 .. MaxAttempts]
  /\ header \in [Requests -> Sessions]
  /\ answer \in [Requests -> Answers \union {None}]
  /\ test \in {"idle", "detecting", "initializing", "listing"}
  /\ server \in Servers
  /\ trial \in {"clean", "stale-session", "disturbed"}

\* The constructor, with what globalState holds.
KindOfCard(x) == IF x = "incompatible" THEN "Incompatible" ELSE "Disconnected"

McpInit ==
  /\ session = None
  /\ card = None
  /\ kind = KindOfCard(None)
  /\ stored = [session |-> None, card |-> None]
  /\ stage = [r \in Requests |-> "idle"]
  /\ attempts = [r \in Requests |-> 0]
  /\ header = [r \in Requests |-> None]
  /\ answer = [r \in Requests |-> None]
  /\ test = "idle"
  /\ server \in {x \in Servers : x.epoch = 1}
  /\ trial = "clean"

-----------------------------------------------------------------------------
(***************************************************************************)
(* Posting.  In each action: Wire(S, T) posts the requests of S for the    *)
(* first time, with the session id of this moment, and ends or parks those *)
(* of T as the stages T[r].                                                *)
(***************************************************************************)
Wire(S, T) ==
  /\ stage' = [r \in Requests |-> IF r \in S THEN "posted"
                                  ELSE IF r \in DOMAIN T THEN T[r] ELSE stage[r]]
  /\ attempts' = [r \in Requests |-> IF r \in S THEN 1 ELSE attempts[r]]
  /\ header' = [r \in Requests |-> IF r \in S THEN session' ELSE header[r]]
  /\ answer' = [r \in Requests |-> IF r \in S \union DOMAIN T THEN None
                                                              ELSE answer[r]]

To(S, s) == [r \in S |-> s]

Waiting == {r \in Ops : stage[r] = "waiting"}

Handshaking == stage["initialize"] # "idle"

\* A call may skip the handshake: sessionId && state.server.
Ready == session # None /\ card # None

\* callTool -> rpc('tools/call') up to its first real await.
StartCall(c) ==
  /\ stage[c] = "idle"
  /\ UNCHANGED <<session, card, stored, test, server, trial>>
  /\ \/ /\ kind = "VsCodeStdio" \/ (Ready /\ kind = "Incompatible")
        /\ Wire({}, To({c}, "done")) /\ UNCHANGED kind
     \/ /\ Ready /\ kind \notin {"VsCodeStdio", "Incompatible"}
        /\ Wire({c}, << >>) /\ UNCHANGED kind
     \/ /\ ~Ready /\ kind # "VsCodeStdio"
        /\ Wire(IF Handshaking THEN {} ELSE {"initialize"}, To({c}, "waiting"))
        /\ kind' = IF Handshaking THEN kind ELSE "Connecting"

Known == {None, server.epoch}

\* What is in flight says nothing but what the running server would say.
WireIsCurrent ==
  /\ \A r \in Requests :
       /\ stage[r] \notin {"idle", "done"} => header[r] \in Known
       /\ answer[r] # None => /\ answer[r].outcome = "result"
                             /\ answer[r].version = server.version
                             /\ answer[r].session \in Known
  /\ stage["initialize"] \in {"card-stored", "session-dropped"} =>
       stored.card = ServerCard

\* testConnection() when no test is running; others share its promise.
StartTest ==
  /\ test = "idle"
  /\ test' = "detecting"
  /\ trial' = IF ~WireIsCurrent THEN "disturbed"
              ELSE IF session \in Known THEN "clean" ELSE "stale-session"
  /\ UNCHANGED <<session, card, kind, stored, wireVars, server>>

\* detectInstall() continues: ensureInitialized({force: true}).
InstallDetected ==
  /\ test = "detecting"
  /\ test' = "initializing"
  /\ UNCHANGED <<session, card, stored, server, trial>>
  /\ Wire(IF Handshaking THEN {} ELSE {"initialize"}, << >>)
  /\ kind' = IF Handshaking THEN kind ELSE "Connecting"

-----------------------------------------------------------------------------
(***************************************************************************)
(* The server and the network (external).                                  *)
(***************************************************************************)

\* A stateful server issues its session on initialize without one, echoes it,
\* and rejects a request with another or no session (HTTP 404 and 400: "unknown
\* session IDs return HTTP 404", docs/mcp/transport.md:30).
ServerAnswer(r, outcome) ==
  LET known == header[r] = server.epoch \/ (r = "initialize" /\ header[r] = None)
  IN  [session |-> IF server.stateful /\ known THEN server.epoch ELSE None,
       version |-> server.version,
       outcome |-> IF server.stateful /\ ~known THEN "rejected" ELSE outcome]

Handle(r, outcome) ==
  /\ stage[r] = "posted" /\ answer[r] = None
  /\ answer' = [answer EXCEPT ![r] = ServerAnswer(r, outcome)]
  /\ trial' = IF outcome = "result" THEN trial ELSE "disturbed"
  /\ UNCHANGED <<clientVars, stage, attempts, header, server>>

\* The server is stopped and another one, perhaps upgraded, is started.
Replace(next) ==
  /\ next.epoch = server.epoch + 1
  /\ server' = next
  /\ trial' = "disturbed"
  /\ UNCHANGED <<clientVars, wireVars>>

-----------------------------------------------------------------------------
(***************************************************************************)
(* How requests end.                                                       *)
(***************************************************************************)

\* The catch block of runConnectionTest when the state is k.
FailedTest(k) ==
  IF k \in Connected /\ card # None THEN {"Degraded"}
                                    ELSE {"Disconnected", "VsCodeStdio"}

CallEnds(c) == Wire({}, To({c}, "done")) /\ UNCHANGED <<kind, test>>

ListFails ==
  /\ Wire({}, To({"list"}, "idle"))
  /\ test' = "idle"
  /\ kind' \in FailedTest(kind)

\* Mutant of HandshakeFails: nobody who waits is told.
HandshakeFailsAlone ==
  /\ Wire({}, To({"initialize"}, "idle"))
  /\ UNCHANGED <<test, kind>>

\* initializePromise rejects: every call that waits for it fails, and so does
\* the test that waits for it.
HandshakeFails ==
  /\ Wire({}, [r \in Waiting \union {"initialize"} |->
                 IF r \in Calls THEN "done" ELSE "idle"])
  /\ IF test = "initializing" \/ "list" \in Waiting
       THEN test' = "idle" /\ kind' \in FailedTest(kind)
       ELSE UNCHANGED <<test, kind>>

RequestFails(r) ==
  CASE r = "initialize" -> HandshakeFails
    [] r = "list"       -> ListFails
    [] OTHER            -> CallEnds(r)

\* The headers of the answer arrive: fetchWithTimeout clears the timer.
HeadersArrive(r) ==
  /\ stage[r] = "posted" /\ answer[r] # None
  /\ stage' = [stage EXCEPT ![r] = "reading"]
  /\ UNCHANGED <<clientVars, attempts, header, answer, server, trial>>

\* A timeout (before the headers), a lost connection, or HTTP 408, 429 or 5xx:
\* postJsonRpcWithRetry sleeps and posts again, whether or not the server has
\* handled the request.
TransportFails(r) ==
  /\ stage[r] \in {"posted", "reading"}
  /\ trial' = "disturbed"
  /\ UNCHANGED <<session, card, stored, server>>
  /\ IF attempts[r] = MaxAttempts
       THEN RequestFails(r)
       ELSE Wire({}, To({r}, "sleeping")) /\ UNCHANGED <<kind, test>>

\* Mutant of Retry: attempts are not counted.
RetryUncounted(r) ==
  /\ stage[r] = "sleeping"
  /\ stage' = [stage EXCEPT ![r] = "posted"]
  /\ header' = [header EXCEPT ![r] = session]
  /\ UNCHANGED <<clientVars, attempts, answer, server, trial>>

Retry(r) ==
  /\ stage[r] = "sleeping"
  /\ stage' = [stage EXCEPT ![r] = "posted"]
  /\ attempts' = [attempts EXCEPT ![r] = @ + 1]
  /\ header' = [header EXCEPT ![r] = session]
  /\ UNCHANGED <<clientVars, answer, server, trial>>

\* Any other HTTP error is final, and so is a body that cannot be parsed; nothing
\* forgets the session id.
Rejected(r) ==
  /\ stage[r] \in {"posted", "reading"} /\ answer[r] # None
  /\ answer[r].outcome = "rejected"
  /\ RequestFails(r)
  /\ UNCHANGED <<session, card, stored, server, trial>>

\* persistSessionId
Persist(s) ==
  IF s = None THEN UNCHANGED <<session, stored>>
              ELSE session' = s /\ stored' = [stored EXCEPT !.session = s]

\* The body, a JSON-RPC answer, has come, and the session id is taken over before
\* anything else is looked at.  A call is over; the others await the storage.
Receive(r) ==
  /\ stage[r] = "reading"
  /\ answer[r].outcome # "rejected"
  /\ Persist(answer[r].session)
  /\ UNCHANGED <<card, server, trial>>
  /\ CASE r \in Calls       -> CallEnds(r)
       [] r = "list"        -> /\ stage' = [stage EXCEPT ![r] = "session-stored"]
                               /\ UNCHANGED <<kind, test, attempts, header, answer>>
       [] r = "initialize"  -> /\ stage' = [stage EXCEPT ![r] = "capturing"]
                               /\ UNCHANGED <<kind, test, attempts, header, answer>>

\* tools/list ends: the test reports Connected, or the contract failed.
ListEnds ==
  /\ stage["list"] = "session-stored"
  /\ UNCHANGED <<session, card, stored, server, trial>>
  /\ IF answer["list"].outcome = "error"
       THEN ListFails
       ELSE /\ Wire({}, To({"list"}, "idle"))
            /\ test' = "idle"
            /\ kind' = "Connected"

-----------------------------------------------------------------------------
(***************************************************************************)
(* The handshake: captureServerCard.                                       *)
(***************************************************************************)

HandshakeRefused ==
  /\ stage["initialize"] = "capturing" /\ answer["initialize"].outcome = "error"
  /\ HandshakeFails
  /\ UNCHANGED <<session, card, stored, server, trial>>

Capturing ==
  stage["initialize"] = "capturing" /\ answer["initialize"].outcome = "result"

\* The server of this moment is asked for its metadata, and the card is stored.
StoreCard ==
  /\ Capturing
  /\ stage' = [stage EXCEPT !["initialize"] = "card-stored"]
  /\ stored' = [stored EXCEPT
                  !.card = CardFrom(answer["initialize"].version, server.wellKnown)]
  /\ UNCHANGED <<session, card, kind, test, attempts, header, answer, server, trial>>

\* The metadata cannot be read, or is not asked for: the version of initialize
\* counts.
StoreCardUnread ==
  /\ Capturing
  /\ stage' = [stage EXCEPT !["initialize"] = "card-stored"]
  /\ stored' = [stored EXCEPT !.card = answer["initialize"].version]
  /\ trial' = IF server.wellKnown = "ok" /\ answer["initialize"].version # "ok"
                THEN "disturbed" ELSE trial
  /\ UNCHANGED <<session, card, kind, test, attempts, header, answer, server>>

\* Compatible: Connected, and whoever waits goes on.  A test goes on with
\* tools/list, which starts another handshake when there is no session id.
HandshakeSucceeds ==
  /\ stage["initialize"] = "card-stored" /\ stored.card = "ok"
  /\ card' = "ok"
  /\ UNCHANGED <<session, stored, server, trial>>
  /\ LET tested == test = "initializing"
         again  == tested /\ session = None
     IN  /\ test' = IF tested THEN "listing" ELSE test
         /\ kind' = IF again THEN "Connecting" ELSE "Connected"
         /\ Wire(Waiting \union
                   (IF again THEN {"initialize"} ELSE IF tested THEN {"list"} ELSE {}),
                 [r \in {"initialize"} \union (IF again THEN {"list"} ELSE {}) |->
                   IF r = "list" THEN "waiting" ELSE "idle"])

DropSession ==
  /\ stage["initialize"] = "card-stored" /\ stored.card = "incompatible"
  /\ stage' = [stage EXCEPT !["initialize"] = "session-dropped"]
  /\ stored' = [stored EXCEPT !.session = None]
  /\ UNCHANGED <<session, card, kind, test, attempts, header, answer, server, trial>>

\* Mutant of HandshakeBlocks: the state stays what it was.
HandshakeBlocksSilently ==
  /\ stage["initialize"] = "session-dropped"
  /\ session' = None
  /\ card' = "incompatible"
  /\ UNCHANGED <<kind, stored, server, trial>>
  /\ Wire({}, [r \in Waiting \union {"initialize"} |->
                 IF r \in Calls THEN "done" ELSE "idle"])
  /\ test' = IF test = "initializing" \/ "list" \in Waiting THEN "idle" ELSE test

\* Incompatible: whoever waits fails.  A test that waits for the handshake it
\* asked for reports Incompatible; one whose tools/list waits reports an error.
HandshakeBlocks ==
  /\ stage["initialize"] = "session-dropped"
  /\ session' = None
  /\ card' = "incompatible"
  /\ UNCHANGED <<stored, server, trial>>
  /\ Wire({}, [r \in Waiting \union {"initialize"} |->
                 IF r \in Calls THEN "done" ELSE "idle"])
  /\ test' = IF test = "initializing" \/ "list" \in Waiting THEN "idle" ELSE test
  /\ kind' \in IF "list" \in Waiting THEN FailedTest("Incompatible")
                                     ELSE {"Incompatible"}

-----------------------------------------------------------------------------
\* The window is reloaded: a new client, with what globalState holds.  What was
\* in flight is lost to it.
Reload ==
  /\ session' = stored.session
  /\ card' = stored.card
  /\ kind' = KindOfCard(stored.card)
  /\ stage' = [r \in Requests |-> IF r \in Calls /\ stage[r] # "idle" THEN "done"
                                                                     ELSE "idle"]
  /\ answer' = [r \in Requests |-> None]
  /\ test' = "idle"
  /\ trial' = "disturbed"
  /\ UNCHANGED <<stored, attempts, header, server>>

Progress(r) ==
  \/ HeadersArrive(r)
  \/ TransportFails(r)
  \/ Retry(r)
  \/ Rejected(r)
  \/ Receive(r)
  \/ r = "list" /\ ListEnds
  \/ r = "initialize" /\ (\/ HandshakeRefused \/ StoreCard \/ StoreCardUnread
                          \/ HandshakeSucceeds \/ DropSession \/ HandshakeBlocks)

McpNext ==
  \/ \E c \in Calls : StartCall(c)
  \/ StartTest
  \/ InstallDetected
  \/ \E r \in Requests : Progress(r) \/ \E outcome \in Outcomes : Handle(r, outcome)
  \/ \E next \in Servers : Replace(next)
  \/ Reload

\* What nothing bounds: a body whose headers have come, and the metadata.
Unbounded(r) == stage[r] = "reading" \/ (r = "initialize" /\ Capturing)

\* Requests time out before their headers, timers fire and storage answers; the
\* server need not answer, a body need not come, and nobody need call.
McpFairness ==
  /\ \A r \in Requests : WF_mcpVars(~Unbounded(r) /\ Progress(r))
  /\ WF_mcpVars(InstallDetected)

McpSpec == McpInit /\ [][McpNext]_mcpVars /\ McpFairness

-----------------------------------------------------------------------------
(***************************************************************************)
(* Properties.                                                             *)
(***************************************************************************)

\* Who waits for the handshake waits for one that is running, and a test is
\* never left without the request it waits for: no result, failure or reload
\* forgets a waiter.
WaitersHaveHandshake ==
  /\ (Waiting # {} \/ test = "initializing") => Handshaking
  /\ test = "listing" <=> stage["list"] # "idle"

\* Types, and no request or test without the handshake it waits for.
McpInv == McpTypeOK /\ WaitersHaveHandshake

\* A connection test that nothing disturbed (no transport or JSON-RPC error, no
\* failed read of metadata that matters, the same server throughout, no session
\* of an earlier server) says what the server is, whatever calls run and share
\* handshakes with it meanwhile.
TestTellsTheServer ==
  [][test # "idle" /\ test' = "idle" /\ trial' = "clean" =>
       kind' = IF ServerCard = "ok" THEN "Connected" ELSE "Incompatible"]_mcpVars

CallsEnd == \A c \in Calls : stage[c] \notin {"idle", "done"} ~> stage[c] = "done"

\* Every tool call ends, however its handshake, its retries and the tests that
\* run beside it turn out, if no body and no metadata is awaited for ever.
EveryCallEnds == (\A r \in Requests : []<>~Unbounded(r)) => CallsEnd

\* kicadstudio.mcp.timeout is the "MCP HTTP request timeout in seconds"
\* (docs/extension/settings.md:47): a request that was posted is over, or is
\* posted again, in bounded time, whatever the server does.
RequestsTimeOut ==
  \A c \in Calls : stage[c] \in {"posted", "reading"} ~> stage[c] \in {"sleeping", "done"}
=============================================================================
