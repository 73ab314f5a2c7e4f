------------------------------ MODULE McpProofs ------------------------------
(***************************************************************************)
(* Proofs about the parts of the extension that talk to the MCP server.    *)
(*                                                                         *)
(* McpClient, for any number of calls, attempts and servers: whatever      *)
(* order requests, retries, answers, restarts of the server and reloads of *)
(* the window come in, nobody is left waiting for a handshake that is not  *)
(* running, and a connection test that nothing disturbed tells what the    *)
(* server is.                                                              *)
(*                                                                         *)
(* McpViews, for any number of runs of the gates, versions of the design,  *)
(* fixes, operations in flight and lists: a gate changes only by what a    *)
(* run of it has met, and every application of a fix was confirmed.        *)
(*                                                                         *)
(* The two specifications share no state: no step below uses both.         *)
(***************************************************************************)
EXTENDS McpClient, McpViews, FiniteSetTheorems, TLAPS

-----------------------------------------------------------------------------
(***************************************************************************)
(* The client.                                                             *)
(***************************************************************************)

\* A request sleeps only with an attempt left, and a body is read, and the handshake
\* captures the card, of an answer that has come.
RequestsAreConsistent ==
  /\ \A r \in Requests : stage[r] = "sleeping" => attempts[r] < MaxAttempts
  /\ \A r \in Requests : stage[r] = "reading" => answer[r] # None
  /\ stage["initialize"] = "capturing" => answer["initialize"] # None

McpIInv == McpInv /\ RequestsAreConsistent

LEMMA NamesDiffer == /\ "initialize" \notin Ops /\ "initialize" \in Requests
                     /\ "list" \in Ops /\ "list" \in Requests
                     /\ \A c \in Calls : c \in Ops /\ c \in Requests /\ c # "list" /\ c # "initialize"
BY McpAssumption DEF Ops, Requests

\* Wire keeps the types of what it posts and parks.
LEMMA WireTyped ==
  ASSUME McpTypeOK, session' \in Sessions, NEW S \in SUBSET Requests, NEW T,
         DOMAIN T \subseteq Requests, \A r \in DOMAIN T : T[r] \in Stages, Wire(S, T)
  PROVE  /\ stage' \in [Requests -> Stages]
         /\ attempts' \in [Requests -> 0 .. MaxAttempts]
         /\ header' \in [Requests -> Sessions]
         /\ answer' \in [Requests -> Answers \union {None}]
<1>1. stage' \in [Requests -> Stages]
  BY DEF McpTypeOK, Wire, Stages
<1>2. attempts' \in [Requests -> 0 .. MaxAttempts]
  BY McpAssumption DEF McpTypeOK, Wire
<1>3. header' \in [Requests -> Sessions]
  BY DEF McpTypeOK, Wire
<1>4. answer' \in [Requests -> Answers \union {None}]
  BY DEF McpTypeOK, Wire
<1> QED
  BY <1>1, <1>2, <1>3, <1>4

\* Wire leaves no request asleep that was not, as long as none is put to sleep
\* without an attempt left.
LEMMA WireConsistent ==
  ASSUME McpTypeOK, RequestsAreConsistent, NEW S \in SUBSET Requests, NEW T,
         DOMAIN T \subseteq Requests, Wire(S, T),
         \A r \in DOMAIN T : T[r] = "sleeping" => attempts[r] < MaxAttempts,
         \A r \in DOMAIN T : T[r] \notin {"reading", "capturing"}
  PROVE  RequestsAreConsistent'
<1>1. ASSUME NEW r \in Requests, stage'[r] = "sleeping"
      PROVE  attempts'[r] < MaxAttempts
  <2>1. r \notin S /\ attempts'[r] = attempts[r]
    BY <1>1 DEF Wire
  <2>2. CASE r \in DOMAIN T
    BY <1>1, <2>1, <2>2 DEF Wire
  <2>3. CASE r \notin DOMAIN T
    BY <1>1, <2>1, <2>3 DEF Wire, RequestsAreConsistent
  <2> QED
    BY <2>2, <2>3
<1>2. stage'["initialize"] = "capturing" => answer'["initialize"] # None
  BY NamesDiffer DEF Wire, RequestsAreConsistent
<1>3. ASSUME NEW r \in Requests, stage'[r] = "reading"
      PROVE  answer'[r] # None
  BY <1>3 DEF Wire, RequestsAreConsistent
<1> QED
  BY <1>1, <1>2, <1>3 DEF RequestsAreConsistent

\* What an action that posts and parks by Wire must say of the waiters.
LEMMA WireWaiters ==
  ASSUME McpTypeOK, NEW S \in SUBSET Requests, NEW T, DOMAIN T \subseteq Requests, Wire(S, T)
  PROVE  \A r \in Requests :
           /\ r \in S => stage'[r] = "posted"
           /\ r \notin S /\ r \in DOMAIN T => stage'[r] = T[r]
           /\ r \notin S /\ r \notin DOMAIN T => stage'[r] = stage[r]
BY DEF Wire

-----------------------------------------------------------------------------
LEMMA StartCallInv ==
  ASSUME McpIInv, NEW c \in Calls, StartCall(c)
  PROVE  McpIInv'
<1> USE NamesDiffer DEF McpIInv, McpInv
<1>0. /\ stage[c] = "idle"
      /\ UNCHANGED <<session, card, stored, test, server, trial>>
  BY DEF StartCall
<1>1. kind' \in Kinds
  BY DEF StartCall, McpTypeOK, Kinds
<1>2. PICK S \in SUBSET Requests, s \in {"done", "waiting", "none"} :
        /\ Wire(S, IF s = "none" THEN << >> ELSE To({c}, s))
        /\ S \subseteq {c, "initialize"}
        /\ s # "none" => c \notin S
        /\ "initialize" \in S => ~Handshaking
        /\ s = "waiting" => Handshaking \/ "initialize" \in S
  <2>1. CASE kind = "VsCodeStdio" \/ (Ready /\ kind = "Incompatible")
    <3>1. CASE Wire({}, To({c}, "done"))
      BY <3>1
    <3>2. CASE Ready /\ kind \notin {"VsCodeStdio", "Incompatible"}
      BY <2>1, <3>2
    <3>3. CASE ~Ready /\ kind # "VsCodeStdio"
      BY <2>1, <3>3
    <3> QED
      BY <3>1, <3>2, <3>3 DEF StartCall
  <2>2. CASE Ready /\ kind \notin {"VsCodeStdio", "Incompatible"}
    <3>1. Wire({c}, << >>)
      BY <2>2 DEF StartCall
    <3> QED
      BY <3>1
  <2>3. CASE ~Ready /\ kind # "VsCodeStdio"
    <3>1. Wire(IF Handshaking THEN {} ELSE {"initialize"}, To({c}, "waiting"))
      BY <2>3 DEF StartCall
    <3> QED
      BY <3>1
  <2> QED
    BY <2>1, <2>2, <2>3
<1> DEFINE T == IF s = "none" THEN << >> ELSE To({c}, s)
<1>3. /\ DOMAIN T \subseteq Requests
      /\ \A r \in DOMAIN T : T[r] \in Stages /\ T[r] \notin {"sleeping", "reading", "capturing"} /\ r = c
      /\ s # "none" => DOMAIN T = {c} /\ T[c] = s
      /\ s = "none" => DOMAIN T = {}
  <2>1. DOMAIN << >> = {}
    OBVIOUS
  <2> QED
    BY <2>1 DEF To, Stages
<1> HIDE DEF T
<1>4. session' \in Sessions
  BY <1>0 DEF McpTypeOK
<1>5. Wire(S, T)
  BY <1>2 DEF T
<1>6. McpTypeOK'
  BY <1>0, <1>1, <1>3, <1>4, <1>5, WireTyped DEF McpTypeOK
<1>7. RequestsAreConsistent'
  BY <1>3, <1>5, WireConsistent
<1>8. \A r \in Requests :
        /\ r \in S => stage'[r] = "posted"
        /\ r \notin S /\ r \in DOMAIN T => stage'[r] = T[r]
        /\ r \notin S /\ r \notin DOMAIN T => stage'[r] = stage[r]
  BY <1>3, <1>5, WireWaiters
<1>9. WaitersHaveHandshake'
  <2>1. Handshaking => Handshaking'
    BY <1>2, <1>3, <1>8 DEF Handshaking
  <2>2. "initialize" \in S => Handshaking'
    BY <1>8 DEF Handshaking
  <2>3. stage'["list"] = stage["list"]
    BY <1>2, <1>3, <1>8
  <2>4. Waiting' # {} => Waiting # {} \/ s = "waiting"
    BY <1>2, <1>3, <1>8 DEF Waiting, Requests
  <2> QED
    BY <1>0, <1>2, <2>1, <2>2, <2>3, <2>4 DEF WaitersHaveHandshake
<1> QED
  BY <1>6, <1>7, <1>9

\* An action that posts S, parks T and otherwise touches only what the waiters
\* do not depend on: what is left to show of it.
LEMMA WireInv ==
  ASSUME McpIInv, NEW S \in SUBSET Requests, NEW T, DOMAIN T \subseteq Requests, Wire(S, T),
         \A r \in DOMAIN T : T[r] \in Stages,
         \A r \in DOMAIN T : T[r] = "sleeping" => attempts[r] < MaxAttempts,
         \A r \in DOMAIN T : T[r] \notin {"reading", "capturing"},
         session' \in Sessions, card' \in Cards, kind' \in Kinds,
         stored' \in [session : Sessions, card : Cards],
         test' \in {"idle", "detecting", "initializing", "listing"},
         server' = server, trial' \in {"clean", "stale-session", "disturbed"},
         WaitersHaveHandshake'
  PROVE  McpIInv'
<1>1. /\ stage' \in [Requests -> Stages]
      /\ attempts' \in [Requests -> 0 .. MaxAttempts]
      /\ header' \in [Requests -> Sessions]
      /\ answer' \in [Requests -> Answers \union {None}]
  BY WireTyped DEF McpIInv, McpInv
<1>2. McpTypeOK'
  BY <1>1 DEF McpIInv, McpInv, McpTypeOK
<1>3. RequestsAreConsistent'
  BY WireConsistent DEF McpIInv, McpInv
<1> QED
  BY <1>2, <1>3 DEF McpIInv, McpInv

LEMMA FailedTestIsKind == \A k : FailedTest(k) \subseteq Kinds
BY DEF FailedTest, Kinds, Connected

\* initialize fails, for whatever reason: nobody waits any more.
LEMMA HandshakeFailsInv ==
  ASSUME McpIInv, HandshakeFails, UNCHANGED <<session, card, stored, server>>,
         trial' \in {"clean", "stale-session", "disturbed"}
  PROVE  McpIInv'
<1> USE NamesDiffer DEF McpIInv, McpInv
<1> DEFINE T == [r \in Waiting \union {"initialize"} |-> IF r \in Calls THEN "done" ELSE "idle"]
<1>1. /\ Waiting \subseteq Requests /\ DOMAIN T = Waiting \union {"initialize"}
      /\ \A r \in DOMAIN T : T[r] \in {"done", "idle"} /\ (T[r] = "done" <=> r \in Calls)
  BY DEF Waiting, Requests
<1>2. Wire({}, T)
  BY DEF HandshakeFails
<1> HIDE DEF T
<1>3. /\ \A r \in Requests : r \in DOMAIN T => stage'[r] = T[r]
      /\ \A r \in Requests : r \notin DOMAIN T => stage'[r] = stage[r]
  BY <1>1, <1>2, WireWaiters
<1>4. kind' \in Kinds /\ test' \in {"idle", "detecting", "initializing", "listing"}
  BY FailedTestIsKind DEF HandshakeFails, McpTypeOK
<1>5. Waiting' = {}
  BY <1>1, <1>3 DEF Waiting, Requests
<1>6. stage'["list"] = IF "list" \in Waiting THEN "idle" ELSE stage["list"]
  <2>1. CASE "list" \in Waiting
    BY <1>1, <1>3, <2>1
  <2>2. CASE "list" \notin Waiting
    BY <1>1, <1>3, <2>2
  <2> QED
    BY <2>1, <2>2
<1>7. "list" \in Waiting <=> stage["list"] = "waiting"
  BY DEF Waiting
<1>8. WaitersHaveHandshake'
  BY <1>5, <1>6, <1>7 DEF WaitersHaveHandshake, HandshakeFails
<1> QED
  <2>1. \A r \in DOMAIN T : T[r] \in Stages /\ T[r] \notin {"sleeping", "reading", "capturing"}
    BY <1>1 DEF Stages
  <2>2. session' \in Sessions /\ card' \in Cards /\ stored' \in [session : Sessions, card : Cards]
    BY DEF McpTypeOK
  <2> QED
    BY <1>1, <1>2, <1>4, <1>8, <2>1, <2>2, WireInv

\* One request that is not the handshake is parked: at "done", "idle" or "sleeping".
LEMMA ParkInv ==
  ASSUME McpIInv, NEW r \in Requests, NEW s \in {"done", "idle", "sleeping"}, Wire({}, To({r}, s)),
         s = "sleeping" => attempts[r] < MaxAttempts,
         session' \in Sessions, stored' \in [session : Sessions, card : Cards],
         kind' \in Kinds, UNCHANGED <<card, server>>,
         trial' \in {"clean", "stale-session", "disturbed"},
         r \in {"initialize", "list"} /\ s # "idle" => s = "sleeping" /\ stage[r] \in {"posted", "reading"},
         r \in Calls => s # "idle", r = "initialize" => s = "sleeping",
         test' = IF r = "list" /\ s = "idle" THEN "idle" ELSE test,
         r = "list" => test = "listing"
  PROVE  McpIInv'
<1> USE NamesDiffer DEF McpIInv, McpInv
<1> DEFINE T == To({r}, s)
<1>1. DOMAIN T = {r} /\ T[r] = s /\ s \in Stages /\ DOMAIN T \subseteq Requests
  BY DEF To, Stages
<1>2. Wire({}, T)
  OBVIOUS
<1> HIDE DEF T
<1>3. stage'[r] = s /\ \A q \in Requests : q # r => stage'[q] = stage[q]
  BY <1>1, <1>2, WireWaiters
<1>4. Waiting' \subseteq Waiting
  BY <1>3 DEF Waiting, Requests
<1>5. Handshaking => Handshaking'
  BY <1>3 DEF Handshaking
<1>6. WaitersHaveHandshake'
  <2>1. CASE r = "list"
    BY <1>3, <1>4, <1>5, <2>1 DEF WaitersHaveHandshake
  <2>2. CASE r # "list"
    BY <1>3, <1>4, <1>5, <2>2 DEF WaitersHaveHandshake
  <2> QED
    BY <2>1, <2>2
<1> QED
  <2>1. /\ \A q \in DOMAIN T : T[q] \in Stages
        /\ \A q \in DOMAIN T : T[q] = "sleeping" => attempts[q] < MaxAttempts
        /\ \A q \in DOMAIN T : T[q] \notin {"reading", "capturing"}
    BY <1>1
  <2>2. card' \in Cards /\ test' \in {"idle", "detecting", "initializing", "listing"}
    BY DEF McpTypeOK
  <2> QED
    BY <1>1, <1>2, <1>6, <2>1, <2>2, WireInv

LEMMA RequestFailsInv ==
  ASSUME McpIInv, NEW r \in Requests, stage[r] # "idle", RequestFails(r),
         session' \in Sessions, UNCHANGED <<session, card, stored, server>>,
         trial' \in {"clean", "stale-session", "disturbed"}
  PROVE  McpIInv'
<1> USE NamesDiffer DEF McpIInv, McpInv
<1>1. CASE r = "initialize"
  BY <1>1, HandshakeFailsInv DEF RequestFails
<1>2. CASE r = "list"
  <2>1. ListFails /\ test = "listing"
    BY <1>2 DEF RequestFails, WaitersHaveHandshake
  <2>2. kind' \in Kinds
    BY <2>1, FailedTestIsKind DEF ListFails
  <2>3. stored' \in [session : Sessions, card : Cards]
    BY DEF McpTypeOK
  <2> QED
    BY <1>2, <2>1, <2>2, <2>3, ParkInv DEF ListFails
<1>3. CASE r \in Calls
  <2>1. CallEnds(r)
    BY <1>3 DEF RequestFails
  <2>2. kind' \in Kinds /\ stored' \in [session : Sessions, card : Cards]
    BY <2>1 DEF CallEnds, McpTypeOK
  <2> QED
    BY <1>3, <2>1, <2>2, ParkInv DEF CallEnds
<1> QED
  BY <1>1, <1>2, <1>3 DEF Requests, Ops

LEMMA TransportFailsInv ==
  ASSUME McpIInv, NEW r \in Requests, TransportFails(r)
  PROVE  McpIInv'
<1> USE NamesDiffer DEF McpIInv, McpInv
<1>1. /\ stage[r] \in {"posted", "reading"} /\ trial' = "disturbed"
      /\ UNCHANGED <<session, card, stored, server>>
  BY DEF TransportFails
<1>2. session' \in Sessions /\ stored' \in [session : Sessions, card : Cards]
  BY <1>1 DEF McpTypeOK
<1>3. CASE attempts[r] = MaxAttempts
  BY <1>1, <1>2, <1>3, RequestFailsInv DEF TransportFails
<1>4. CASE attempts[r] # MaxAttempts
  <2>1. Wire({}, To({r}, "sleeping")) /\ UNCHANGED <<kind, test>>
    BY <1>4 DEF TransportFails
  <2>2. attempts[r] < MaxAttempts
    <3>1. attempts[r] \in 0 .. MaxAttempts
      BY DEF McpTypeOK
    <3> QED
      BY <1>4, <3>1, McpAssumption
  <2>3. r = "list" => test = "listing"
    BY <1>1 DEF WaitersHaveHandshake
  <2>4. kind' \in Kinds
    BY <2>1 DEF McpTypeOK
  <2> QED
    BY <1>1, <1>2, <2>1, <2>2, <2>3, <2>4, ParkInv
<1> QED
  BY <1>3, <1>4

LEMMA RetryInv ==
  ASSUME McpIInv, NEW r \in Requests, Retry(r)
  PROVE  McpIInv'
<1> USE NamesDiffer DEF McpIInv, McpInv
<1>1. /\ stage[r] = "sleeping"
      /\ stage' = [stage EXCEPT ![r] = "posted"]
      /\ attempts' = [attempts EXCEPT ![r] = attempts[r] + 1]
      /\ header' = [header EXCEPT ![r] = session]
      /\ UNCHANGED <<session, card, kind, stored, test, answer, server, trial>>
  BY DEF Retry, clientVars
<1>2. attempts[r] \in 0 .. MaxAttempts /\ attempts[r] < MaxAttempts
  BY <1>1 DEF McpTypeOK, RequestsAreConsistent
<1>3. attempts[r] + 1 \in 0 .. MaxAttempts
  BY <1>2, McpAssumption
<1>4. McpTypeOK'
  BY <1>1, <1>3 DEF McpTypeOK, Stages
<1>5. RequestsAreConsistent'
  BY <1>1 DEF RequestsAreConsistent, McpTypeOK
<1>6. WaitersHaveHandshake'
  BY <1>1 DEF WaitersHaveHandshake, Handshaking, Waiting, McpTypeOK
<1> QED
  BY <1>4, <1>5, <1>6

LEMMA HeadersArriveInv ==
  ASSUME McpIInv, NEW r \in Requests, HeadersArrive(r)
  PROVE  McpIInv'
<1> USE NamesDiffer DEF McpIInv, McpInv
<1>1. /\ stage[r] = "posted" /\ answer[r] # None
      /\ stage' = [stage EXCEPT ![r] = "reading"]
      /\ UNCHANGED <<session, card, kind, stored, test, attempts, header, answer, server, trial>>
  BY DEF HeadersArrive, clientVars
<1>2. McpTypeOK'
  BY <1>1 DEF McpTypeOK, Stages
<1>3. RequestsAreConsistent'
  BY <1>1 DEF RequestsAreConsistent, McpTypeOK
<1>4. WaitersHaveHandshake'
  BY <1>1 DEF WaitersHaveHandshake, Handshaking, Waiting, McpTypeOK
<1> QED
  BY <1>2, <1>3, <1>4

LEMMA ReceiveInv ==
  ASSUME McpIInv, NEW r \in Requests, Receive(r)
  PROVE  McpIInv'
<1> USE NamesDiffer DEF McpIInv, McpInv
<1>1. /\ stage[r] = "reading" /\ answer[r] # None
      /\ UNCHANGED <<card, server, trial>>
  BY DEF Receive, RequestsAreConsistent
<1>2. answer[r].session \in Sessions
  BY <1>1 DEF McpTypeOK, Answers
<1>3. session' \in Sessions /\ stored' \in [session : Sessions, card : Cards]
  BY <1>2 DEF Receive, Persist, McpTypeOK
<1>4. CASE r \in Calls
  <2>1. CallEnds(r)
    BY <1>4 DEF Receive
  <2>2. kind' \in Kinds /\ trial' \in {"clean", "stale-session", "disturbed"}
    BY <1>1, <2>1 DEF CallEnds, McpTypeOK
  <2> QED
    BY <1>1, <1>3, <1>4, <2>1, <2>2, ParkInv DEF CallEnds
<1>5. ASSUME r \in {"list", "initialize"}
      PROVE  McpIInv'
  <2>1. PICK s \in {"session-stored", "capturing"} :
          /\ stage' = [stage EXCEPT ![r] = s]
          /\ UNCHANGED <<kind, test, attempts, header, answer>>
    <3>1. CASE r = "list"
      BY <1>5, <3>1 DEF Receive
    <3>2. CASE r = "initialize"
      BY <1>5, <3>2 DEF Receive
    <3> QED
      BY <1>5, <3>1, <3>2
  <2>2. McpTypeOK'
    BY <1>1, <1>3, <2>1 DEF McpTypeOK, Stages
  <2>3. RequestsAreConsistent'
    BY <1>1, <1>5, <2>1 DEF RequestsAreConsistent, McpTypeOK
  <2>4. WaitersHaveHandshake'
    BY <1>1, <2>1 DEF WaitersHaveHandshake, Handshaking, Waiting, McpTypeOK
  <2> QED
    BY <2>2, <2>3, <2>4
<1> QED
  BY <1>4, <1>5 DEF Requests, Ops

LEMMA ListEndsInv ==
  ASSUME McpIInv, ListEnds
  PROVE  McpIInv'
<1> USE NamesDiffer DEF McpIInv, McpInv
<1>1. /\ stage["list"] = "session-stored" /\ test = "listing"
      /\ UNCHANGED <<session, card, stored, server, trial>>
  BY DEF ListEnds, WaitersHaveHandshake
<1>2. /\ Wire({}, To({"list"}, "idle")) /\ test' = "idle" /\ kind' \in Kinds
  BY FailedTestIsKind DEF ListEnds, ListFails, Kinds, Connected
<1>3. /\ session' \in Sessions /\ stored' \in [session : Sessions, card : Cards]
      /\ trial' \in {"clean", "stale-session", "disturbed"}
  BY <1>1 DEF McpTypeOK
<1> QED
  BY <1>1, <1>2, <1>3, ParkInv

\* A step of the handshake that awaits its next storage.
LEMMA CaptureInv ==
  ASSUME McpIInv, NEW s \in {"card-stored", "session-dropped"},
         stage["initialize"] # "idle",
         stage' = [stage EXCEPT !["initialize"] = s],
         stored' \in [session : Sessions, card : Cards],
         trial' \in {"clean", "stale-session", "disturbed"},
         UNCHANGED <<session, card, kind, test, attempts, header, answer, server>>
  PROVE  McpIInv'
<1> USE NamesDiffer DEF McpIInv, McpInv
<1>1. McpTypeOK'
  BY DEF McpTypeOK, Stages
<1>2. RequestsAreConsistent'
  BY DEF RequestsAreConsistent, McpTypeOK
<1>3. WaitersHaveHandshake'
  BY DEF WaitersHaveHandshake, Handshaking, Waiting, McpTypeOK
<1> QED
  BY <1>1, <1>2, <1>3

\* A handshake that ends well releases everybody who waits; only a test's own
\* list may have to wait again, for the handshake it starts.
LEMMA HandshakeSucceedsInv ==
  ASSUME McpIInv, HandshakeSucceeds
  PROVE  McpIInv'
<1> USE NamesDiffer DEF McpIInv, McpInv
<1> DEFINE again == test = "initializing" /\ session = None
           S == Waiting \union
                  (IF again THEN {"initialize"}
                   ELSE IF test = "initializing" THEN {"list"} ELSE {})
           T == [r \in {"initialize"} \union (IF again THEN {"list"} ELSE {}) |->
                   IF r = "list" THEN "waiting" ELSE "idle"]
<1>1. /\ card' = "ok" /\ UNCHANGED <<session, stored, server, trial>>
      /\ test' = IF test = "initializing" THEN "listing" ELSE test
      /\ kind' \in {"Connecting", "Connected"}
      /\ Wire(S, T)
      /\ stage["initialize"] # "idle"
  BY DEF HandshakeSucceeds
<1>2. S \subseteq Requests /\ DOMAIN T \subseteq Requests
  BY DEF Waiting, Requests
<1>3. /\ DOMAIN T = {"initialize"} \union (IF again THEN {"list"} ELSE {})
      /\ T["initialize"] = "idle" /\ (again => "list" \in DOMAIN T /\ T["list"] = "waiting")
      /\ \A r \in DOMAIN T : T[r] \in {"waiting", "idle"}
  OBVIOUS
<1>4. /\ Waiting \subseteq S
      /\ again => "initialize" \in S
      /\ ~again /\ test = "initializing" => "list" \in S
      /\ test # "initializing" => S = Waiting
      /\ "list" \in Waiting => test = "listing"
  BY DEF WaitersHaveHandshake, Waiting
<1> HIDE DEF S, T
<1>5. \A r \in Requests :
        /\ r \in S => stage'[r] = "posted"
        /\ r \notin S /\ r \in DOMAIN T => stage'[r] = T[r]
        /\ r \notin S /\ r \notin DOMAIN T => stage'[r] = stage[r]
  BY <1>1, <1>2, WireWaiters
<1>6. Waiting' # {} => again
  BY <1>3, <1>4, <1>5 DEF Waiting, Requests
<1>7. again => Handshaking'
  BY <1>4, <1>5 DEF Handshaking
<1>8. test' # "initializing"
  BY <1>1 DEF McpTypeOK
<1>9. test' = "listing" <=> stage'["list"] # "idle"
  <2>1. CASE again
    <3>1. "list" \in DOMAIN T /\ T["list"] = "waiting"
      BY <1>3, <2>1
    <3>2. stage'["list"] \in {"posted", "waiting"}
      BY <1>5, <3>1
    <3>3. test' = "listing"
      BY <1>1, <2>1
    <3> QED
      BY <3>2, <3>3
  <2>2. CASE test = "initializing" /\ ~again
    BY <1>1, <1>4, <1>5, <2>2
  <2>3. CASE test # "initializing"
    <3>1. "list" \notin DOMAIN T
      BY <1>3, <2>3
    <3>2. CASE "list" \in Waiting
      BY <1>1, <1>4, <1>5, <2>3, <3>2
    <3>3. CASE "list" \notin Waiting
      BY <1>1, <1>4, <1>5, <2>3, <3>1, <3>3 DEF WaitersHaveHandshake
    <3> QED
      BY <3>2, <3>3
  <2> QED
    BY <2>1, <2>2, <2>3
<1>10. WaitersHaveHandshake'
  BY <1>6, <1>7, <1>8, <1>9 DEF WaitersHaveHandshake
<1>11. /\ session' \in Sessions /\ stored' \in [session : Sessions, card : Cards]
       /\ card' \in Cards /\ kind' \in Kinds
       /\ test' \in {"idle", "detecting", "initializing", "listing"}
       /\ trial' \in {"clean", "stale-session", "disturbed"}
  BY <1>1 DEF McpTypeOK, Cards, Compat, Kinds, Connected
<1>12. \A r \in DOMAIN T : T[r] \in Stages /\ T[r] \notin {"sleeping", "reading", "capturing"}
  BY <1>3 DEF Stages
<1> QED
  BY <1>1, <1>2, <1>10, <1>11, <1>12, WireInv

LEMMA HandshakeBlocksInv ==
  ASSUME McpIInv, HandshakeBlocks
  PROVE  McpIInv'
<1> USE NamesDiffer DEF McpIInv, McpInv
<1> DEFINE T == [r \in Waiting \union {"initialize"} |-> IF r \in Calls THEN "done" ELSE "idle"]
<1>1. /\ session' = None /\ card' = "incompatible" /\ UNCHANGED <<stored, server, trial>>
      /\ Wire({}, T)
      /\ test' = IF test = "initializing" \/ "list" \in Waiting THEN "idle" ELSE test
      /\ kind' \in IF "list" \in Waiting THEN FailedTest("Incompatible") ELSE {"Incompatible"}
  BY DEF HandshakeBlocks
<1>2. /\ Waiting \subseteq Requests /\ DOMAIN T = Waiting \union {"initialize"}
      /\ \A r \in DOMAIN T : T[r] \in {"done", "idle"} /\ (T[r] = "done" <=> r \in Calls)
  BY DEF Waiting, Requests
<1> HIDE DEF T
<1>3. /\ \A r \in Requests : r \in DOMAIN T => stage'[r] = T[r]
      /\ \A r \in Requests : r \notin DOMAIN T => stage'[r] = stage[r]
  BY <1>1, <1>2, WireWaiters
<1>4. Waiting' = {}
  BY <1>2, <1>3 DEF Waiting, Requests
<1>5. stage'["list"] = IF "list" \in Waiting THEN "idle" ELSE stage["list"]
  <2>1. CASE "list" \in Waiting
    BY <1>2, <1>3, <2>1
  <2>2. CASE "list" \notin Waiting
    BY <1>2, <1>3, <2>2
  <2> QED
    BY <2>1, <2>2
<1>6. "list" \in Waiting <=> stage["list"] = "waiting"
  BY DEF Waiting
<1>7. WaitersHaveHandshake'
  BY <1>1, <1>4, <1>5, <1>6 DEF WaitersHaveHandshake
<1>8. /\ session' \in Sessions /\ stored' \in [session : Sessions, card : Cards]
      /\ card' \in Cards /\ kind' \in Kinds
      /\ test' \in {"idle", "detecting", "initializing", "listing"}
      /\ trial' \in {"clean", "stale-session", "disturbed"}
  BY <1>1, FailedTestIsKind DEF McpTypeOK, Sessions, Cards, Compat, Kinds
<1>9. \A r \in DOMAIN T : T[r] \in Stages /\ T[r] \notin {"sleeping", "reading", "capturing"}
  BY <1>2 DEF Stages
<1> QED
  BY <1>1, <1>2, <1>7, <1>8, <1>9, WireInv

LEMMA InstallDetectedInv ==
  ASSUME McpIInv, InstallDetected
  PROVE  McpIInv'
<1> USE NamesDiffer DEF McpIInv, McpInv
<1> DEFINE S == IF Handshaking THEN {} ELSE {"initialize"}
           T == << >>
<1>1. /\ test = "detecting" /\ test' = "initializing"
      /\ UNCHANGED <<session, card, stored, server, trial>>
      /\ Wire(S, T) /\ kind' \in Kinds
  BY DEF InstallDetected, McpTypeOK, Kinds
<1>2. S \subseteq Requests /\ (~Handshaking => "initialize" \in S) /\ S \subseteq {"initialize"}
  OBVIOUS
<1>3. DOMAIN T = {}
  OBVIOUS
<1> HIDE DEF S, T
<1>4. \A r \in Requests :
        /\ r \in S => stage'[r] = "posted"
        /\ r \notin S => stage'[r] = stage[r]
  BY <1>1, <1>2, <1>3, WireWaiters
<1>5. Handshaking' /\ stage'["list"] = stage["list"]
  BY <1>2, <1>4 DEF Handshaking
<1>6. WaitersHaveHandshake'
  BY <1>1, <1>5 DEF WaitersHaveHandshake
<1>7. /\ session' \in Sessions /\ stored' \in [session : Sessions, card : Cards] /\ card' \in Cards
      /\ test' \in {"idle", "detecting", "initializing", "listing"}
      /\ trial' \in {"clean", "stale-session", "disturbed"}
  BY <1>1 DEF McpTypeOK
<1> QED
  BY <1>1, <1>2, <1>3, <1>6, <1>7, WireInv

-----------------------------------------------------------------------------
LEMMA HandleInv ==
  ASSUME McpIInv, NEW r \in Requests, NEW outcome \in Outcomes, Handle(r, outcome)
  PROVE  McpIInv'
<1> USE NamesDiffer DEF McpIInv, McpInv
<1>1. ServerAnswer(r, outcome) \in Answers
  BY DEF ServerAnswer, Answers, Servers, Outcomes, McpTypeOK, Sessions
<1>2. /\ stage[r] = "posted" /\ answer' = [answer EXCEPT ![r] = ServerAnswer(r, outcome)]
      /\ UNCHANGED <<session, card, kind, stored, test, stage, attempts, header, server>>
      /\ trial' \in {trial, "disturbed"}
  BY DEF Handle, clientVars
<1>3. McpTypeOK'
  BY <1>1, <1>2 DEF McpTypeOK
<1>4. RequestsAreConsistent'
  BY <1>2 DEF RequestsAreConsistent, McpTypeOK
<1>5. WaitersHaveHandshake'
  BY <1>2 DEF WaitersHaveHandshake, Handshaking, Waiting
<1> QED
  BY <1>3, <1>4, <1>5

LEMMA OthersInv ==
  ASSUME McpIInv,
         \/ StartTest \/ UNCHANGED mcpVars
         \/ \E next \in Servers : Replace(next)
  PROVE  McpIInv'
<1> USE DEF McpIInv, McpInv
<1>1. UNCHANGED <<session, card, kind, stored, stage, attempts, header, answer>>
  BY DEF StartTest, Replace, mcpVars, clientVars, wireVars
<1>2. /\ test' = test \/ (test = "idle" /\ test' = "detecting")
      /\ trial' \in {"clean", "stale-session", "disturbed"}
      /\ server' \in Servers
  <2>1. CASE StartTest
    BY <2>1 DEF StartTest, McpTypeOK
  <2>2. CASE UNCHANGED mcpVars
    BY <2>2 DEF mcpVars, clientVars, McpTypeOK
  <2>3. ASSUME NEW next \in Servers, Replace(next)
        PROVE  /\ test' = test /\ trial' = "disturbed"
               /\ server' \in Servers
    BY <2>3 DEF Replace, clientVars
  <2> QED
    BY <2>1, <2>2, <2>3
<1>3. McpTypeOK'
  BY <1>1, <1>2 DEF McpTypeOK
<1>4. RequestsAreConsistent'
  BY <1>1 DEF RequestsAreConsistent
<1>5. WaitersHaveHandshake'
  BY <1>1, <1>2 DEF WaitersHaveHandshake, Handshaking, Waiting
<1> QED
  BY <1>3, <1>4, <1>5

LEMMA ReloadInv ==
  ASSUME McpIInv, Reload
  PROVE  McpIInv'
<1> USE NamesDiffer DEF McpIInv, McpInv
<1>1. \A r \in Requests : stage'[r] \in {"done", "idle"} /\ (r \notin Calls => stage'[r] = "idle")
  BY DEF Reload
<1>2. McpTypeOK'
  <2>1. stage' \in [Requests -> Stages]
    BY DEF Reload, Stages
  <2>2. answer' \in [Requests -> Answers \union {None}]
    BY DEF Reload
  <2>3. kind' \in Kinds /\ session' \in Sessions /\ card' \in Cards
    BY DEF Reload, KindOfCard, Kinds, McpTypeOK
  <2> QED
    BY <2>1, <2>2, <2>3 DEF Reload, McpTypeOK
<1>3. RequestsAreConsistent'
  BY <1>1 DEF RequestsAreConsistent
<1>4. WaitersHaveHandshake'
  <2>1. Waiting' = {}
    BY <1>1 DEF Waiting, Requests
  <2> QED
    BY <1>1, <2>1 DEF WaitersHaveHandshake, Reload
<1> QED
  BY <1>2, <1>3, <1>4

-----------------------------------------------------------------------------
LEMMA McpInitInv == McpInit => McpIInv
BY McpAssumption, NamesDiffer
   DEF McpInit, McpIInv, McpInv, McpTypeOK, RequestsAreConsistent, WaitersHaveHandshake,
       Handshaking, Waiting, Requests, KindOfCard, Sessions, Cards, Kinds, Stages, Epochs

LEMMA McpNextInv ==
  ASSUME McpIInv, [McpNext]_mcpVars
  PROVE  McpIInv'
<1>1. CASE UNCHANGED mcpVars
  BY <1>1, OthersInv
<1>2. ASSUME NEW c \in Calls, StartCall(c)
      PROVE  McpIInv'
  BY <1>2, StartCallInv
<1>3. CASE StartTest
  BY <1>3, OthersInv
<1>4. CASE InstallDetected
  BY <1>4, InstallDetectedInv
<1>5. ASSUME NEW r \in Requests, NEW outcome \in Outcomes, Handle(r, outcome)
      PROVE  McpIInv'
  BY <1>5, HandleInv
<1>6. CASE \E next \in Servers : Replace(next)
  BY <1>6, OthersInv
<1>7. CASE Reload
  BY <1>7, ReloadInv
<1>8. ASSUME NEW r \in Requests, Progress(r)
      PROVE  McpIInv'
  <2>1. CASE TransportFails(r)
    BY <2>1, TransportFailsInv
  <2>2. CASE Retry(r)
    BY <2>2, RetryInv
  <2>3. CASE Rejected(r)
    BY <2>3, RequestFailsInv DEF Rejected, McpIInv, McpInv, McpTypeOK
  <2>4. CASE Receive(r)
    BY <2>4, ReceiveInv
  <2>5. CASE ListEnds
    BY <2>5, ListEndsInv
  <2>6. CASE HandshakeRefused
    BY <2>6, HandshakeFailsInv DEF HandshakeRefused, McpIInv, McpInv, McpTypeOK
  <2>7. CASE StoreCard \/ StoreCardUnread
    <3>1. answer["initialize"].version \in Compat
      BY <2>7, NamesDiffer DEF StoreCard, StoreCardUnread, Capturing, McpIInv, McpInv, McpTypeOK,
                               RequestsAreConsistent, Answers
    <3>2. stored' \in [session : Sessions, card : Cards]
      BY <2>7, <3>1 DEF StoreCard, StoreCardUnread, CardFrom, Compat, Cards, McpIInv, McpInv,
                        McpTypeOK
    <3>3. /\ stage["initialize"] = "capturing"
          /\ stage' = [stage EXCEPT !["initialize"] = "card-stored"]
          /\ trial' \in {"clean", "stale-session", "disturbed"}
          /\ UNCHANGED <<session, card, kind, test, attempts, header, answer, server>>
      BY <2>7 DEF StoreCard, StoreCardUnread, Capturing, McpIInv, McpInv, McpTypeOK
    <3> QED
      BY <3>2, <3>3, CaptureInv
  <2>8. CASE HandshakeSucceeds
    BY <2>8, HandshakeSucceedsInv
  <2>9. CASE DropSession
    <3>1. stored' \in [session : Sessions, card : Cards]
      BY <2>9 DEF DropSession, McpIInv, McpInv, McpTypeOK, Sessions
    <3> QED
      BY <2>9, <3>1, CaptureInv DEF DropSession, McpIInv, McpInv, McpTypeOK
  <2>10. CASE HandshakeBlocks
    BY <2>10, HandshakeBlocksInv
  <2>11. CASE HeadersArrive(r)
    BY <2>11, HeadersArriveInv
  <2> QED
    BY <1>8, <2>1, <2>2, <2>3, <2>4, <2>5, <2>6, <2>7, <2>8, <2>9, <2>10, <2>11 DEF Progress
<1> QED
  BY <1>1, <1>2, <1>3, <1>4, <1>5, <1>6, <1>7, <1>8 DEF McpNext

\* Nobody is ever left waiting for a handshake that is not running, and no test
\* without its request, for any number of calls, retries, servers and reloads.
THEOREM McpInvariant == McpSpec => []McpInv
<1>1. McpInit => McpIInv
  BY McpInitInv
<1>2. McpIInv /\ [McpNext]_mcpVars => McpIInv'
  BY McpNextInv
<1>3. McpIInv => McpInv
  BY DEF McpIInv
<1> QED
  BY <1>1, <1>2, <1>3, PTL DEF McpSpec

-----------------------------------------------------------------------------
(***************************************************************************)
(* What a connection test tells.                                           *)
(***************************************************************************)

\* The answer of the handshake is there as long as it is looked at, and its session
\* is taken over; so is the answer of tools/list.
AnswersAreKept ==
  /\ stage["initialize"] \in {"capturing", "card-stored", "session-dropped"} =>
       /\ answer["initialize"] # None
       /\ answer["initialize"].session # None => session # None
  /\ stage["initialize"] = "session-dropped" => stored.card = "incompatible"
  /\ stage["list"] = "session-stored" => answer["list"] # None

\* A test that nothing has disturbed so far.
Tested == test # "idle" /\ trial = "clean"

\* Whatever session and whatever handshake it shares are of the running server, who
\* cannot reject the handshake, and so is the card the handshake has stored.
HandshakeIsCurrent ==
  /\ session \in Known
  /\ \A r \in Requests : answer[r] # None => answer[r].session \in Known
  /\ stage["initialize"] = "posted" => header["initialize"] \in Known
  /\ answer["initialize"] # None =>
       answer["initialize"].outcome = "result" /\ answer["initialize"].version = server.version
  /\ stage["initialize"] \in {"card-stored", "session-dropped"} => stored.card = ServerCard

\* Its tools/list goes to a compatible server, with the session that server knows:
\* when it has none, the list waits for a handshake of its own.
ListIsCurrent ==
  /\ test = "listing" => ServerCard = "ok"
  /\ answer["list"] # None => answer["list"].outcome = "result"
  /\ server.stateful =>
       /\ stage["list"] = "waiting" /\ answer["initialize"] # None
            => answer["initialize"].session = server.epoch
       /\ stage["list"] \notin {"idle", "waiting"} => session = server.epoch
       /\ stage["list"] = "posted" => header["list"] = server.epoch

TestIsCurrent == Tested => HandshakeIsCurrent /\ ListIsCurrent

TestInv == AnswersAreKept /\ TestIsCurrent

LEMMA WireAll ==
  ASSUME NEW S, NEW T, Wire(S, T), NEW r \in Requests
  PROVE  /\ r \in S => stage'[r] = "posted" /\ header'[r] = session' /\ answer'[r] = None
         /\ r \notin S => header'[r] = header[r]
         /\ r \notin S /\ r \in DOMAIN T => stage'[r] = T[r] /\ answer'[r] = None
         /\ r \notin S /\ r \notin DOMAIN T => stage'[r] = stage[r] /\ answer'[r] = answer[r]
BY DEF Wire

\* An action that posts and parks by Wire, but posts no tools/list; the session may
\* be taken over from an answer.
LEMMA WireKeepsTest ==
  ASSUME McpIInv, TestInv, NEW S \in SUBSET Requests, NEW T, Wire(S, T),
         server' = server, stored'.card = stored.card, trial' \in {trial, "disturbed"},
         session' # session => session' # None /\ (Tested => session' = server.epoch),
         "list" \notin S,
         "initialize" \in DOMAIN T => T["initialize"] \in {"idle", "sleeping"},
         "list" \in DOMAIN T => T["list"] \in {"idle", "sleeping"},
         "list" \in DOMAIN T /\ T["list"] = "sleeping" => trial' = "disturbed",
         test' # "idle" => test # "idle",
         test' = "listing" => test = "listing"
  PROVE  TestInv'
<1> USE NamesDiffer
<1>1. /\ "initialize" \in S => /\ stage'["initialize"] = "posted"
                              /\ header'["initialize"] = session'
                              /\ answer'["initialize"] = None
      /\ "initialize" \notin S => header'["initialize"] = header["initialize"]
      /\ "initialize" \notin S /\ "initialize" \in DOMAIN T =>
           stage'["initialize"] = T["initialize"] /\ answer'["initialize"] = None
      /\ "initialize" \notin S /\ "initialize" \notin DOMAIN T =>
           stage'["initialize"] = stage["initialize"] /\ answer'["initialize"] = answer["initialize"]
  BY WireAll
<1>2. /\ header'["list"] = header["list"]
      /\ "list" \in DOMAIN T => stage'["list"] = T["list"] /\ answer'["list"] = None
      /\ "list" \notin DOMAIN T => stage'["list"] = stage["list"] /\ answer'["list"] = answer["list"]
  BY WireAll
<1>3. AnswersAreKept'
  BY <1>1, <1>2 DEF TestInv, AnswersAreKept
<1>4. ASSUME Tested'
      PROVE  HandshakeIsCurrent' /\ ListIsCurrent'
  <2>1. /\ Tested /\ HandshakeIsCurrent /\ ListIsCurrent /\ Known' = Known
        /\ server.epoch \in Known /\ ServerCard' = ServerCard
    BY <1>4 DEF Tested, TestInv, TestIsCurrent, Known, ServerCard
  <2>2. session' \in Known
    BY <2>1 DEF HandshakeIsCurrent
  <2>3. ASSUME NEW r \in Requests, answer'[r] # None
        PROVE  answer'[r].session \in Known
    <3>1. answer'[r] = answer[r]
      BY <2>3, WireAll
    <3>2. QED  BY <2>1, <2>3, <3>1 DEF HandshakeIsCurrent
  <2>4. HandshakeIsCurrent'
    BY <1>1, <2>1, <2>2, <2>3 DEF HandshakeIsCurrent
  <2>5. session = server.epoch => session' = server.epoch
    BY <2>1
  <2>6. stage'["list"] # "idle" => stage'["list"] = stage["list"] /\ answer'["list"] = answer["list"]
    BY <1>2, <1>4 DEF Tested
  <2>7. ListIsCurrent'
    BY <1>1, <1>2, <2>1, <2>5, <2>6 DEF ListIsCurrent
  <2>8. QED  BY <2>4, <2>7
<1>5. QED  BY <1>3, <1>4 DEF TestInv, TestIsCurrent

LEMMA StartCallTest ==
  ASSUME McpIInv, TestInv, NEW c \in Calls, StartCall(c)
  PROVE  TestInv'
<1> USE NamesDiffer
<1>1. UNCHANGED <<session, stored, test, server, trial>>
  BY DEF StartCall
<1>2. ASSUME NEW S \in SUBSET {c, "initialize"}, NEW T, Wire(S, T), DOMAIN T \subseteq {c}
      PROVE  TestInv'
  <2>1. /\ S \in SUBSET Requests /\ "list" \notin S
        /\ "list" \notin DOMAIN T /\ "initialize" \notin DOMAIN T
    BY <1>2
  <2>2. QED  BY <1>1, <1>2, <2>1, WireKeepsTest
<1>3. DOMAIN To({c}, "done") = {c} /\ DOMAIN To({c}, "waiting") = {c} /\ DOMAIN << >> = {}
  BY DEF To
<1>4. \/ Wire({}, To({c}, "done")) \/ Wire({c}, << >>)
      \/ Wire(IF Handshaking THEN {} ELSE {"initialize"}, To({c}, "waiting"))
  BY DEF StartCall
<1>5. CASE Wire({}, To({c}, "done"))
  <2>1. {} \in SUBSET {c, "initialize"}
    OBVIOUS
  <2>2. QED  BY <1>2, <1>3, <1>5, <2>1
<1>6. CASE Wire({c}, << >>)
  <2>1. {c} \in SUBSET {c, "initialize"}
    OBVIOUS
  <2>2. QED  BY <1>2, <1>3, <1>6, <2>1
<1>7. CASE Wire(IF Handshaking THEN {} ELSE {"initialize"}, To({c}, "waiting"))
  <2>1. (IF Handshaking THEN {} ELSE {"initialize"}) \in SUBSET {c, "initialize"}
    OBVIOUS
  <2>2. QED  BY <1>2, <1>3, <1>7, <2>1
<1>8. QED  BY <1>4, <1>5, <1>6, <1>7

LEMMA InstallDetectedTest ==
  ASSUME McpIInv, TestInv, InstallDetected
  PROVE  TestInv'
<1>1. PICK S \in SUBSET {"initialize"} : Wire(S, << >>)
  <2>1. Wire(IF Handshaking THEN {} ELSE {"initialize"}, << >>)
    BY DEF InstallDetected
  <2>2. (IF Handshaking THEN {} ELSE {"initialize"}) \in SUBSET {"initialize"}
    OBVIOUS
  <2>3. QED  BY <2>1, <2>2
<1>2. /\ UNCHANGED <<session, stored, server, trial>> /\ test = "detecting" /\ test' = "initializing"
  BY DEF InstallDetected
<1>3. S \in SUBSET Requests /\ "list" \notin S
  BY NamesDiffer
<1>4. PICK T : T = << >>
  OBVIOUS
<1>5. Wire(S, T) /\ "initialize" \notin DOMAIN T /\ "list" \notin DOMAIN T
  BY <1>1, <1>4
<1>6. QED  BY <1>2, <1>3, <1>5, WireKeepsTest

\* One request is parked.
LEMMA ParkTest ==
  ASSUME McpIInv, TestInv, NEW r \in Requests, NEW s \in {"done", "idle", "sleeping"},
         Wire({}, To({r}, s)), server' = server, stored'.card = stored.card,
         trial' \in {trial, "disturbed"},
         session' # session => session' # None /\ (Tested => session' = server.epoch),
         s = "done" => r \in Calls, s = "sleeping" => trial' = "disturbed",
         test' \in {test, "idle"}
  PROVE  TestInv'
<1> USE NamesDiffer
<1>1. PICK T : T = To({r}, s)
  OBVIOUS
<1>2. DOMAIN T = {r} /\ T[r] = s
  BY <1>1 DEF To
<1>3. Wire({}, T)
  BY <1>1
<1>4. "list" \notin {} /\ {} \in SUBSET Requests
  OBVIOUS
<1>5. /\ "initialize" \in DOMAIN T => T["initialize"] \in {"idle", "sleeping"}
      /\ "list" \in DOMAIN T => T["list"] \in {"idle", "sleeping"}
      /\ "list" \in DOMAIN T /\ T["list"] = "sleeping" => trial' = "disturbed"
  BY <1>2
<1>6. QED  BY <1>3, <1>4, <1>5, WireKeepsTest

\* All who wait for the handshake are told of its failure, and the handshake ends.
LEMMA WaitersEndTest ==
  ASSUME McpIInv, TestInv, server' = server, stored' = stored, session' = session,
         trial' \in {trial, "disturbed"},
         test' \in {test, "idle"},
         Wire({}, [r \in Waiting \union {"initialize"} |-> IF r \in Calls THEN "done" ELSE "idle"])
  PROVE  TestInv'
<1> USE NamesDiffer
<1>1. PICK T : T = [r \in Waiting \union {"initialize"} |-> IF r \in Calls THEN "done" ELSE "idle"]
  OBVIOUS
<1>2. /\ "initialize" \in DOMAIN T => T["initialize"] \in {"idle", "sleeping"}
      /\ "list" \in DOMAIN T => T["list"] = "idle"
  BY <1>1
<1>3. Wire({}, T)
  BY <1>1
<1>4. "list" \notin {} /\ {} \in SUBSET Requests
  OBVIOUS
<1>5. QED  BY <1>2, <1>3, <1>4, WireKeepsTest

LEMMA RequestFailsTest ==
  ASSUME McpIInv, TestInv, NEW r \in Requests, RequestFails(r),
         UNCHANGED <<session, stored, server>>, trial' \in {trial, "disturbed"}
  PROVE  TestInv'
<1> USE NamesDiffer
<1>1. CASE r = "initialize"
  <2>1. HandshakeFails
    BY <1>1 DEF RequestFails
  <2>2. test' \in {test, "idle"}
    BY <2>1 DEF HandshakeFails
  <2>3. QED  BY <2>1, <2>2, WaitersEndTest DEF HandshakeFails
<1>2. CASE r = "list"
  <2>1. ListFails
    BY <1>2 DEF RequestFails
  <2>2. QED  BY <1>2, <2>1, ParkTest DEF ListFails
<1>3. CASE r \in Calls
  <2>1. CallEnds(r)
    BY <1>3 DEF RequestFails
  <2>2. QED  BY <1>3, <2>1, ParkTest DEF CallEnds
<1>4. QED  BY <1>1, <1>2, <1>3 DEF Requests, Ops

LEMMA TransportFailsTest ==
  ASSUME McpIInv, TestInv, NEW r \in Requests, TransportFails(r) \/ Rejected(r)
  PROVE  TestInv'
<1>1. UNCHANGED <<session, stored, server>> /\ trial' \in {trial, "disturbed"}
  BY DEF TransportFails, Rejected
<1>2. CASE RequestFails(r)
  BY <1>1, <1>2, RequestFailsTest
<1>3. CASE Wire({}, To({r}, "sleeping")) /\ test' = test /\ trial' = "disturbed"
  BY <1>1, <1>3, ParkTest
<1>4. QED  BY <1>2, <1>3 DEF TransportFails, Rejected

LEMMA RetryTest ==
  ASSUME McpIInv, TestInv, NEW r \in Requests, Retry(r)
  PROVE  TestInv'
<1> USE NamesDiffer
<1>1. /\ stage[r] = "sleeping"
      /\ stage' = [stage EXCEPT ![r] = "posted"] /\ header' = [header EXCEPT ![r] = session]
      /\ UNCHANGED <<session, stored, test, answer, server, trial>>
  BY DEF Retry, clientVars
<1>2. /\ stage'[r] = "posted" /\ header'[r] = session
      /\ \A q \in Requests : q # r => stage'[q] = stage[q] /\ header'[q] = header[q]
  BY <1>1 DEF McpIInv, McpInv, McpTypeOK
<1>3. AnswersAreKept'
  BY <1>1, <1>2 DEF TestInv, AnswersAreKept
<1>4. ASSUME Tested'
      PROVE  HandshakeIsCurrent' /\ ListIsCurrent'
  <2>1. HandshakeIsCurrent /\ ListIsCurrent /\ Known' = Known /\ ServerCard' = ServerCard
    BY <1>1, <1>4 DEF Tested, TestInv, TestIsCurrent, Known, ServerCard
  <2>2. HandshakeIsCurrent'
    BY <1>1, <1>2, <2>1 DEF HandshakeIsCurrent
  <2>3. ListIsCurrent'
    BY <1>1, <1>2, <2>1 DEF ListIsCurrent
  <2>4. QED  BY <2>2, <2>3
<1>5. QED  BY <1>3, <1>4 DEF TestInv, TestIsCurrent

LEMMA HeadersArriveTest ==
  ASSUME McpIInv, TestInv, NEW r \in Requests, HeadersArrive(r)
  PROVE  TestInv'
<1> USE NamesDiffer
<1>1. /\ stage[r] = "posted"
      /\ stage' = [stage EXCEPT ![r] = "reading"]
      /\ UNCHANGED <<session, stored, test, header, answer, server, trial>>
  BY DEF HeadersArrive, clientVars
<1>2. stage'[r] = "reading" /\ \A q \in Requests : q # r => stage'[q] = stage[q]
  BY <1>1 DEF McpIInv, McpInv, McpTypeOK
<1>3. AnswersAreKept'
  BY <1>1, <1>2 DEF TestInv, AnswersAreKept
<1>4. ASSUME Tested'
      PROVE  HandshakeIsCurrent' /\ ListIsCurrent'
  <2>1. HandshakeIsCurrent /\ ListIsCurrent /\ Known' = Known /\ ServerCard' = ServerCard
    BY <1>1, <1>4 DEF Tested, TestInv, TestIsCurrent, Known, ServerCard
  <2>2. HandshakeIsCurrent'
    BY <1>1, <1>2, <2>1 DEF HandshakeIsCurrent
  <2>3. ListIsCurrent'
    BY <1>1, <1>2, <2>1 DEF ListIsCurrent
  <2>4. QED  BY <2>2, <2>3
<1>5. QED  BY <1>3, <1>4 DEF TestInv, TestIsCurrent

LEMMA ReceiveTest ==
  ASSUME McpIInv, TestInv, NEW r \in Requests, Receive(r)
  PROVE  TestInv'
<1> USE NamesDiffer
<1>1. /\ stage[r] = "reading" /\ answer[r] # None /\ UNCHANGED <<server, trial>>
      /\ session' = IF answer[r].session = None THEN session ELSE answer[r].session
      /\ stored'.card = stored.card
  BY DEF Receive, Persist, McpIInv, McpInv, McpTypeOK, RequestsAreConsistent
<1>2. session' # session => session' # None /\ (Tested => session' = server.epoch)
  BY <1>1 DEF TestInv, TestIsCurrent, HandshakeIsCurrent, Known
<1>3. CASE r \in Calls
  <2>1. CallEnds(r)
    BY <1>3 DEF Receive
  <2>2. QED  BY <1>1, <1>2, <1>3, <2>1, ParkTest DEF CallEnds
<1>4. CASE r \in {"list", "initialize"}
  <2>1. PICK s \in {"session-stored", "capturing"} :
          /\ stage' = [stage EXCEPT ![r] = s] /\ UNCHANGED <<test, header, answer>>
          /\ s = "capturing" <=> r = "initialize"
    <3>1. CASE r = "list"
      BY <3>1 DEF Receive
    <3>2. CASE r = "initialize"
      BY <3>2 DEF Receive
    <3>3. QED  BY <1>4, <3>1, <3>2
  <2>2. stage'[r] = s /\ \A q \in Requests : q # r => stage'[q] = stage[q]
    BY <2>1 DEF McpIInv, McpInv, McpTypeOK
  <2>3. AnswersAreKept'
    BY <1>1, <1>2, <1>4, <2>1, <2>2 DEF TestInv, AnswersAreKept
  <2>4. ASSUME Tested'
        PROVE  HandshakeIsCurrent' /\ ListIsCurrent'
    <3>1. /\ Tested /\ HandshakeIsCurrent /\ ListIsCurrent /\ Known' = Known
          /\ ServerCard' = ServerCard
      BY <1>1, <2>1, <2>4 DEF Tested, TestInv, TestIsCurrent, Known, ServerCard
    <3>2. session' \in Known /\ (session = server.epoch => session' = server.epoch)
      BY <1>2, <3>1 DEF HandshakeIsCurrent, Known
    <3>3. HandshakeIsCurrent'
      BY <1>1, <1>4, <2>1, <2>2, <3>1, <3>2 DEF HandshakeIsCurrent
    <3>4. ListIsCurrent'
      BY <1>1, <1>4, <2>1, <2>2, <3>1, <3>2 DEF ListIsCurrent
    <3>5. QED  BY <3>3, <3>4
  <2>5. QED  BY <2>3, <2>4 DEF TestInv, TestIsCurrent
<1>5. QED  BY <1>3, <1>4 DEF Requests, Ops

LEMMA ListEndsTest ==
  ASSUME McpIInv, TestInv, ListEnds
  PROVE  TestInv'
<1>1. Wire({}, To({"list"}, "idle")) /\ test' = "idle" /\ UNCHANGED <<session, stored, server, trial>>
  BY DEF ListEnds, ListFails
<1>2. QED  BY <1>1, NamesDiffer, ParkTest

\* A step of the handshake that awaits its next storage.
LEMMA CaptureTest ==
  ASSUME McpIInv, TestInv, StoreCard \/ StoreCardUnread \/ DropSession
  PROVE  TestInv'
<1> USE NamesDiffer
<1>1. PICK s \in {"card-stored", "session-dropped"} :
        /\ stage' = [stage EXCEPT !["initialize"] = s]
        /\ UNCHANGED <<session, test, header, answer, server>>
        /\ trial' \in {trial, "disturbed"}
        /\ \/ stage["initialize"] = "capturing" /\ s = "card-stored"
           \/ stage["initialize"] = "card-stored" /\ s = "session-dropped"
              /\ stored.card = "incompatible" /\ stored'.card = stored.card
  BY DEF StoreCard, StoreCardUnread, Capturing, DropSession, McpIInv, McpInv, McpTypeOK
<1>2. stage'["initialize"] = s /\ \A q \in Requests : q # "initialize" => stage'[q] = stage[q]
  BY <1>1 DEF McpIInv, McpInv, McpTypeOK
<1>3. AnswersAreKept'
  <2>1. answer["initialize"] # None
    BY <1>1 DEF TestInv, AnswersAreKept
  <2>2. QED  BY <1>1, <1>2, <2>1 DEF TestInv, AnswersAreKept
<1>4. ASSUME Tested'
      PROVE  HandshakeIsCurrent' /\ ListIsCurrent'
  <2>1. HandshakeIsCurrent /\ ListIsCurrent /\ Known' = Known /\ ServerCard' = ServerCard
    BY <1>1, <1>4 DEF Tested, TestInv, TestIsCurrent, Known, ServerCard
  <2>2. stored'.card = ServerCard
    <3>1. CASE stage["initialize"] = "capturing"
      <4>1. answer["initialize"].version = server.version /\ server.version \in Compat
        BY <2>1, <3>1 DEF HandshakeIsCurrent, TestInv, AnswersAreKept, McpIInv, McpInv, McpTypeOK,
                          Servers
      <4>2. CASE StoreCard
        BY <4>1, <4>2 DEF StoreCard, ServerCard, McpIInv, McpInv, McpTypeOK
      <4>3. CASE StoreCardUnread
        <5>1. server.wellKnown = "ok" => server.version = "ok"
          BY <1>4, <4>1, <4>3 DEF StoreCardUnread, Tested
        <5>2. QED
          BY <4>1, <4>3, <5>1 DEF StoreCardUnread, ServerCard, CardFrom, McpIInv, McpInv, McpTypeOK
      <4>4. QED  BY <3>1, <4>2, <4>3 DEF DropSession
    <3>2. CASE stage["initialize"] = "card-stored"
      BY <1>1, <2>1, <3>2 DEF HandshakeIsCurrent
    <3>3. QED  BY <1>1, <3>1, <3>2
  <2>3. HandshakeIsCurrent'
    BY <1>1, <1>2, <2>1, <2>2 DEF HandshakeIsCurrent
  <2>4. ListIsCurrent'
    BY <1>1, <1>2, <2>1 DEF ListIsCurrent
  <2>5. QED  BY <2>3, <2>4
<1>5. QED  BY <1>3, <1>4 DEF TestInv, TestIsCurrent

\* The session the test's tools/list goes out with is the running server's, and the
\* server is compatible: it has just said so.
LEMMA HandshakeSucceedsTest ==
  ASSUME McpIInv, TestInv, HandshakeSucceeds
  PROVE  TestInv'
<1> USE NamesDiffer
<1> DEFINE again == test = "initializing" /\ session = None
           S == Waiting \union
                  (IF again THEN {"initialize"}
                   ELSE IF test = "initializing" THEN {"list"} ELSE {})
           T == [r \in {"initialize"} \union (IF again THEN {"list"} ELSE {}) |->
                   IF r = "list" THEN "waiting" ELSE "idle"]
<1>1. /\ stage["initialize"] = "card-stored" /\ stored.card = "ok"
      /\ UNCHANGED <<session, stored, server, trial>>
      /\ test' = IF test = "initializing" THEN "listing" ELSE test
      /\ Wire(S, T)
  BY DEF HandshakeSucceeds
<1>2. /\ "initialize" \in DOMAIN T /\ T["initialize"] = "idle"
      /\ "list" \in DOMAIN T <=> again
      /\ again => T["list"] = "waiting"
      /\ again => "initialize" \in S
      /\ "initialize" \in S => again
      /\ again => stage["list"] = "idle" /\ "list" \notin S
      /\ "list" \in S => ~again /\ (test = "initializing" \/ stage["list"] = "waiting")
      /\ "list" \notin S => test # "initializing" \/ again
      /\ stage["list"] = "waiting" => "list" \in S
  BY DEF Waiting, McpIInv, McpInv, WaitersHaveHandshake
<1> HIDE DEF S, T
<1>3. /\ "initialize" \in S => /\ stage'["initialize"] = "posted"
                              /\ header'["initialize"] = session'
      /\ "initialize" \notin S => stage'["initialize"] = "idle"
      /\ answer'["initialize"] = None
  BY <1>1, <1>2, WireAll
<1>4. /\ "list" \in S => stage'["list"] = "posted" /\ header'["list"] = session'
                         /\ answer'["list"] = None
      /\ "list" \notin S /\ again => stage'["list"] = "waiting" /\ answer'["list"] = None
      /\ "list" \notin S /\ ~again => stage'["list"] = stage["list"]
                                      /\ answer'["list"] = answer["list"]
      /\ "list" \notin S => header'["list"] = header["list"]
  BY <1>1, <1>2, WireAll
<1>5. AnswersAreKept'
  BY <1>3, <1>4 DEF TestInv, AnswersAreKept
<1>6. ASSUME Tested'
      PROVE  HandshakeIsCurrent' /\ ListIsCurrent'
  <2>1. /\ Tested /\ HandshakeIsCurrent /\ ListIsCurrent /\ Known' = Known
        /\ ServerCard' = ServerCard
    BY <1>1, <1>6 DEF Tested, TestInv, TestIsCurrent, Known, ServerCard
  <2>2. ASSUME NEW r \in Requests, answer'[r] # None
        PROVE  answer'[r].session \in Known
    <3>1. answer'[r] = answer[r]
      BY <1>1, <2>2, WireAll
    <3>2. QED  BY <2>1, <2>2, <3>1 DEF HandshakeIsCurrent
  <2>3. HandshakeIsCurrent'
    BY <1>1, <1>3, <2>1, <2>2 DEF HandshakeIsCurrent
  <2>4. ServerCard = "ok"
    BY <1>1, <2>1 DEF HandshakeIsCurrent, TestInv, AnswersAreKept
  <2>5. "list" \in S /\ server.stateful => session = server.epoch
    <3> SUFFICES ASSUME "list" \in S, server.stateful
                 PROVE  session = server.epoch
      OBVIOUS
    <3>1. CASE test = "initializing"
      BY <1>2, <2>1, <3>1 DEF HandshakeIsCurrent, Known
    <3>2. CASE stage["list"] = "waiting"
      <4>1. answer["initialize"] # None /\ (answer["initialize"].session # None => session # None)
        BY <1>1 DEF TestInv, AnswersAreKept
      <4>2. answer["initialize"].session = server.epoch
        BY <2>1, <3>2, <4>1 DEF ListIsCurrent
      <4>3. server.epoch # None
        BY McpAssumption DEF McpIInv, McpInv, McpTypeOK, Servers, Epochs
      <4>4. QED  BY <2>1, <4>1, <4>2, <4>3 DEF HandshakeIsCurrent, Known
    <3>3. QED  BY <1>2, <3>1, <3>2
  <2>6. ListIsCurrent'
    <3>1. answer'["list"] # None => answer'["list"].outcome = "result"
      BY <1>4, <2>1 DEF ListIsCurrent
    <3>2. CASE "list" \in S
      BY <1>1, <1>4, <2>1, <2>4, <2>5, <3>1, <3>2 DEF ListIsCurrent
    <3>3. CASE "list" \notin S /\ again
      BY <1>1, <1>3, <1>4, <2>1, <2>4, <3>1, <3>3 DEF ListIsCurrent
    <3>4. CASE "list" \notin S /\ ~again
      BY <1>1, <1>2, <1>3, <1>4, <2>1, <2>4, <3>1, <3>4 DEF ListIsCurrent
    <3>5. QED  BY <3>2, <3>3, <3>4
  <2>7. QED  BY <2>3, <2>6
<1>7. QED  BY <1>5, <1>6 DEF TestInv, TestIsCurrent

\* An incompatible server has no list asked of it.
LEMMA HandshakeBlocksTest ==
  ASSUME McpIInv, TestInv, HandshakeBlocks
  PROVE  TestInv'
<1> USE NamesDiffer
<1>1. PICK T : T = [r \in Waiting \union {"initialize"} |-> IF r \in Calls THEN "done" ELSE "idle"]
  OBVIOUS
<1>2. /\ stage["initialize"] = "session-dropped" /\ session' = None
      /\ UNCHANGED <<stored, server, trial>>
      /\ Wire({}, T)
      /\ test' = IF test = "initializing" \/ "list" \in Waiting THEN "idle" ELSE test
  BY <1>1 DEF HandshakeBlocks
<1>3. /\ "initialize" \in DOMAIN T /\ T["initialize"] = "idle"
      /\ "list" \in DOMAIN T => T["list"] = "idle"
  BY <1>1
<1>4. /\ stage'["initialize"] = "idle" /\ answer'["initialize"] = None
      /\ "list" \in DOMAIN T => stage'["list"] = "idle" /\ answer'["list"] = None
      /\ "list" \notin DOMAIN T => stage'["list"] = stage["list"] /\ answer'["list"] = answer["list"]
  BY <1>2, <1>3, WireAll
<1>5. AnswersAreKept'
  BY <1>4 DEF TestInv, AnswersAreKept
<1>6. ASSUME Tested'
      PROVE  HandshakeIsCurrent' /\ ListIsCurrent'
  <2>1. /\ Tested /\ HandshakeIsCurrent /\ ListIsCurrent /\ Known' = Known
        /\ ServerCard' = ServerCard
    BY <1>2, <1>6 DEF Tested, TestInv, TestIsCurrent, Known, ServerCard
  <2>2. ASSUME NEW r \in Requests, answer'[r] # None
        PROVE  answer'[r].session \in Known
    <3>1. answer'[r] = answer[r]
      BY <1>2, <2>2, WireAll
    <3>2. QED  BY <2>1, <2>2, <3>1 DEF HandshakeIsCurrent
  <2>3. HandshakeIsCurrent'
    BY <1>2, <1>4, <2>1, <2>2 DEF HandshakeIsCurrent, Known
  <2>4. ServerCard = "incompatible"
    BY <1>2, <2>1 DEF HandshakeIsCurrent, TestInv, AnswersAreKept
  <2>5. test # "listing" /\ test' # "listing"
    BY <1>2, <2>1, <2>4 DEF ListIsCurrent
  <2>6. stage["list"] = "idle" /\ stage'["list"] = "idle"
    BY <1>4, <2>5 DEF McpIInv, McpInv, WaitersHaveHandshake
  <2>7. answer'["list"] # None => answer'["list"].outcome = "result"
    BY <1>4, <2>1 DEF ListIsCurrent
  <2>8. ListIsCurrent'
    BY <2>5, <2>6, <2>7 DEF ListIsCurrent
  <2>9. QED  BY <2>3, <2>8
<1>7. QED  BY <1>5, <1>6 DEF TestInv, TestIsCurrent

\* A server knows its own sessions, and gives one to whoever has none.
LEMMA HandleTest ==
  ASSUME McpIInv, TestInv, NEW r \in Requests, NEW outcome \in Outcomes, Handle(r, outcome)
  PROVE  TestInv'
<1> USE NamesDiffer
<1>1. PICK a : a = ServerAnswer(r, outcome)
  OBVIOUS
<1>2. /\ stage[r] = "posted" /\ answer[r] = None
      /\ answer' = [answer EXCEPT ![r] = a]
      /\ trial' = IF outcome = "result" THEN trial ELSE "disturbed"
      /\ UNCHANGED <<session, stored, test, stage, header, server>>
  BY <1>1 DEF Handle, clientVars
<1>3. answer'[r] = a /\ \A q \in Requests : q # r => answer'[q] = answer[q]
  BY <1>2 DEF McpIInv, McpInv, McpTypeOK
<1>4. AnswersAreKept'
  BY <1>2, <1>3 DEF TestInv, AnswersAreKept
<1>5. ASSUME Tested'
      PROVE  HandshakeIsCurrent' /\ ListIsCurrent'
  <2>1. /\ Tested /\ HandshakeIsCurrent /\ ListIsCurrent /\ Known' = Known
        /\ ServerCard' = ServerCard /\ outcome = "result"
    BY <1>2, <1>5 DEF Tested, TestInv, TestIsCurrent, Known, ServerCard
  <2>2. /\ a.session \in Known /\ a.version = server.version
        /\ ~server.stateful => a.outcome = "result"
        /\ header[r] = server.epoch \/ (r = "initialize" /\ header[r] = None) =>
             a.outcome = "result" /\ (server.stateful => a.session = server.epoch)
    BY <1>1, <2>1 DEF ServerAnswer, Known
  <2>3. r = "initialize" => a.outcome = "result" /\ (server.stateful => a.session = server.epoch)
    BY <1>2, <2>1, <2>2 DEF HandshakeIsCurrent, Known
  <2>4. r = "list" => a.outcome = "result"
    BY <1>2, <2>1, <2>2 DEF ListIsCurrent
  <2>5. HandshakeIsCurrent'
    BY <1>2, <1>3, <2>1, <2>2, <2>3 DEF HandshakeIsCurrent
  <2>6. ListIsCurrent'
    BY <1>2, <1>3, <2>1, <2>3, <2>4 DEF ListIsCurrent
  <2>7. QED  BY <2>5, <2>6
<1>6. QED  BY <1>4, <1>5 DEF TestInv, TestIsCurrent

LEMMA StartTestTest ==
  ASSUME McpIInv, TestInv, StartTest
  PROVE  TestInv'
<1> USE NamesDiffer
<1>1. /\ UNCHANGED <<session, stored, stage, header, answer, server>>
      /\ test = "idle" /\ test' = "detecting"
      /\ trial' = "clean" => WireIsCurrent /\ session \in Known
  BY DEF StartTest, wireVars
<1>2. AnswersAreKept'
  BY <1>1 DEF TestInv, AnswersAreKept
<1>3. ASSUME Tested'
      PROVE  HandshakeIsCurrent' /\ ListIsCurrent'
  <2>1. WireIsCurrent /\ session \in Known /\ Known' = Known /\ ServerCard' = ServerCard
    BY <1>1, <1>3 DEF Tested, Known, ServerCard
  <2>2. HandshakeIsCurrent'
    BY <1>1, <2>1 DEF HandshakeIsCurrent, WireIsCurrent
  <2>3. stage["list"] = "idle"
    BY <1>1 DEF McpIInv, McpInv, WaitersHaveHandshake
  <2>4. ListIsCurrent'
    BY <1>1, <2>1, <2>3 DEF ListIsCurrent, WireIsCurrent
  <2>5. QED  BY <2>2, <2>4
<1>4. QED  BY <1>2, <1>3 DEF TestInv, TestIsCurrent

LEMMA OthersTest ==
  ASSUME McpIInv, TestInv,
         \/ UNCHANGED mcpVars \/ Reload
         \/ \E next \in Servers : Replace(next)
  PROVE  TestInv'
<1> USE NamesDiffer
<1>1. CASE UNCHANGED mcpVars
  BY <1>1 DEF mcpVars, clientVars, wireVars, TestInv, AnswersAreKept, TestIsCurrent, Tested,
              HandshakeIsCurrent, ListIsCurrent, Known, ServerCard
<1>2. CASE Reload
  <2>1. trial' = "disturbed" /\ stage'["initialize"] = "idle" /\ stage'["list"] = "idle"
    BY <1>2 DEF Reload
  <2>2. QED  BY <2>1 DEF TestInv, AnswersAreKept, TestIsCurrent, Tested
<1>3. CASE \E next \in Servers : Replace(next)
  <2>1. trial' = "disturbed" /\ UNCHANGED <<session, stored, stage, answer>>
    BY <1>3 DEF Replace, clientVars, wireVars
  <2>2. QED  BY <2>1 DEF TestInv, AnswersAreKept, TestIsCurrent, Tested
<1>4. QED  BY <1>1, <1>2, <1>3

\* A test ends well only after the running server has answered all it asked.
LEMMA EndedTestTells ==
  ASSUME McpIInv, TestInv, McpNext, test # "idle", test' = "idle", trial' = "clean"
  PROVE  kind' = IF ServerCard = "ok" THEN "Connected" ELSE "Incompatible"
<1> USE NamesDiffer
<1> USE DEF TestInv
<1>1. ASSUME trial = "clean"
      PROVE  HandshakeIsCurrent /\ ListIsCurrent
  BY <1>1 DEF TestIsCurrent, Tested
<1>2. ASSUME ListEnds
      PROVE  kind' = "Connected" /\ ServerCard = "ok"
  <2>1. trial = "clean" /\ stage["list"] = "session-stored"
    BY <1>2 DEF ListEnds
  <2>2. answer["list"].outcome = "result" /\ test = "listing"
    BY <1>1, <2>1 DEF ListIsCurrent, AnswersAreKept, McpIInv, McpInv, WaitersHaveHandshake
  <2>3. QED  BY <1>1, <1>2, <2>1, <2>2 DEF ListEnds, ListIsCurrent
<1>3. ASSUME HandshakeRefused
      PROVE  FALSE
  BY <1>1, <1>3 DEF HandshakeRefused, AnswersAreKept, HandshakeIsCurrent
<1>4. ASSUME NEW r \in Requests, Rejected(r)
      PROVE  FALSE
  <2>1. trial = "clean" /\ answer[r] # None /\ answer[r].outcome = "rejected" /\ RequestFails(r)
    BY <1>4 DEF Rejected
  <2>2. r \notin {"initialize", "list"}
    BY <1>1, <2>1 DEF HandshakeIsCurrent, ListIsCurrent
  <2>3. CallEnds(r)
    BY <2>1, <2>2 DEF RequestFails
  <2>4. QED  BY <2>3 DEF CallEnds
<1>5. ASSUME HandshakeBlocks
      PROVE  kind' = "Incompatible" /\ ServerCard = "incompatible"
  <2>1. trial = "clean" /\ stage["initialize"] = "session-dropped"
        /\ kind' \in IF "list" \in Waiting THEN FailedTest("Incompatible") ELSE {"Incompatible"}
    BY <1>5 DEF HandshakeBlocks
  <2>2. ServerCard = "incompatible"
    BY <1>1, <2>1 DEF HandshakeIsCurrent, AnswersAreKept
  <2>3. "list" \notin Waiting
    BY <1>1, <2>1, <2>2 DEF ListIsCurrent, Waiting, McpIInv, McpInv, WaitersHaveHandshake
  <2>4. QED  BY <2>1, <2>2, <2>3
<1>6. ASSUME HandshakeSucceeds
      PROVE  FALSE
  BY <1>6 DEF HandshakeSucceeds
<1>7. ASSUME NEW r \in Requests,
             \/ HeadersArrive(r) \/ TransportFails(r) \/ Retry(r) \/ Receive(r)
             \/ StoreCard \/ StoreCardUnread \/ DropSession
      PROVE  FALSE
  <2>1. CASE TransportFails(r)
    BY <2>1 DEF TransportFails
  <2>2. CASE HeadersArrive(r) \/ Retry(r) \/ StoreCard \/ StoreCardUnread \/ DropSession
    BY <2>2 DEF HeadersArrive, Retry, StoreCard, StoreCardUnread, DropSession, clientVars
  <2>3. CASE Receive(r)
    <3>1. r \in Calls \/ r = "list" \/ r = "initialize"
      BY DEF Requests, Ops
    <3>2. test' = test
      BY <2>3, <3>1 DEF Receive, CallEnds
    <3>3. QED  BY <3>2
  <2>4. QED  BY <1>7, <2>1, <2>2, <2>3
<1>8. ASSUME NEW r \in Requests, Progress(r)
      PROVE  kind' = IF ServerCard = "ok" THEN "Connected" ELSE "Incompatible"
  BY <1>2, <1>3, <1>4, <1>5, <1>6, <1>7, <1>8 DEF Progress
<1>9. ASSUME \/ \E c \in Calls : StartCall(c)
             \/ StartTest \/ InstallDetected \/ Reload
             \/ \E r \in Requests, outcome \in Outcomes : Handle(r, outcome)
             \/ \E next \in Servers : Replace(next)
      PROVE  FALSE
  BY <1>9 DEF StartCall, StartTest, InstallDetected, Reload, Handle, Replace, clientVars
<1>10. QED  BY <1>8, <1>9 DEF McpNext

LEMMA TestInvariant == McpSpec => [](McpIInv /\ TestInv)
<1>1. McpInit => McpIInv /\ TestInv
  BY McpInitInv, NamesDiffer
     DEF McpInit, TestInv, AnswersAreKept, TestIsCurrent, Tested
<1>2. McpIInv /\ TestInv /\ [McpNext]_mcpVars => McpIInv' /\ TestInv'
  <2> SUFFICES ASSUME McpIInv, TestInv, [McpNext]_mcpVars
               PROVE  TestInv'
    BY McpNextInv
  <2>1. CASE UNCHANGED mcpVars
    BY <2>1, OthersTest
  <2>2. ASSUME NEW c \in Calls, StartCall(c)
        PROVE  TestInv'
    BY <2>2, StartCallTest
  <2>3. CASE StartTest
    BY <2>3, StartTestTest
  <2>4. CASE InstallDetected
    BY <2>4, InstallDetectedTest
  <2>5. ASSUME NEW r \in Requests, NEW outcome \in Outcomes, Handle(r, outcome)
        PROVE  TestInv'
    BY <2>5, HandleTest
  <2>6. CASE \E next \in Servers : Replace(next)
    BY <2>6, OthersTest
  <2>7. CASE Reload
    BY <2>7, OthersTest
  <2>8. ASSUME NEW r \in Requests, Progress(r)
        PROVE  TestInv'
    <3>1. CASE TransportFails(r) \/ Rejected(r)
      BY <3>1, TransportFailsTest
    <3>2. CASE Retry(r) \/ HeadersArrive(r)
      BY <3>2, RetryTest, HeadersArriveTest
    <3>3. CASE Receive(r)
      BY <3>3, ReceiveTest
    <3>4. CASE ListEnds
      BY <3>4, ListEndsTest
    <3>5. CASE HandshakeRefused
      <4>1. HandshakeFails /\ UNCHANGED <<session, stored, server, trial>>
        BY <3>5 DEF HandshakeRefused
      <4>2. RequestFails("initialize")
        BY <4>1, NamesDiffer DEF RequestFails
      <4>3. QED  BY <4>1, <4>2, NamesDiffer, RequestFailsTest
    <3>6. CASE StoreCard \/ StoreCardUnread \/ DropSession
      BY <3>6, CaptureTest
    <3>7. CASE HandshakeSucceeds
      BY <3>7, HandshakeSucceedsTest
    <3>8. CASE HandshakeBlocks
      BY <3>8, HandshakeBlocksTest
    <3>9. QED
      BY <2>8, <3>1, <3>2, <3>3, <3>4, <3>5, <3>6, <3>7, <3>8 DEF Progress
  <2>9. QED
    BY <2>1, <2>2, <2>3, <2>4, <2>5, <2>6, <2>7, <2>8 DEF McpNext
<1>3. QED  BY <1>1, <1>2, PTL DEF McpSpec

\* A connection test that nothing disturbed says what the server is, whatever calls
\* run beside it and whichever handshake, session and retries they share with it.
THEOREM TestsTellTheServer == McpSpec => TestTellsTheServer
<1> DEFINE Tells == test # "idle" /\ test' = "idle" /\ trial' = "clean" =>
                      kind' = IF ServerCard = "ok" THEN "Connected" ELSE "Incompatible"
<1>1. McpIInv /\ TestInv /\ [McpNext]_mcpVars => [Tells]_mcpVars
  BY EndedTestTells
<1>2. McpSpec => [][Tells]_mcpVars
  BY <1>1, TestInvariant, PTL DEF McpSpec
<1>3. QED  BY <1>2 DEF TestTellsTheServer

-----------------------------------------------------------------------------
(***************************************************************************)
(* The quality gates.                                                      *)
(***************************************************************************)

\* The type of a run.
RunType ==
  [kind : RunKinds, gate : Gates, asked : SUBSET Tools, report : Reports \union {<< >>},
   got : [Tools -> 0 .. MaxDesign], met : BOOLEAN]

\* A run asks its tools and holds an answer of each that has answered.
RunIsConsistent ==
  \A s \in Slots : LET run == runs[s] IN
    IF Free(s) THEN run = Off ELSE
      /\ run.asked \subseteq Asks(run.kind, run.gate)
      /\ \A t \in Asks(run.kind, run.gate) \ run.asked :
           run.got[t] # 0 /\ (t = "project" => run.report \in Reports)

\* Nothing shows, or has answered, what the design has not been.
NothingIsAhead ==
  /\ \A g \in Gates : gates[g] <= design
  /\ \A s \in Slots, t \in Tools : runs[s].got[t] <= design

\* A run that has met no other's end holds nothing older than what is shown.
UnmetRunIsNewer ==
  \A s \in Slots : ~runs[s].met =>
    \A t \in Tools, g \in Gates : runs[s].got[t] # 0 => gates[g] <= runs[s].got[t]

\* The gates' inductive invariant.
GatesInv == GatesTypeOK /\ RunIsConsistent /\ NothingIsAhead /\ UnmetRunIsNewer

\* The gates by their names.
LEMMA GateNames == Gates = {"schematic", "connectivity", "placement", "transfer",
                            "manufacturing", "project"}
<1>1. Range(Default) = {Default[1], Default[2], Default[3], Default[4], Default[5]}
  BY DEF Range, Default
<1> QED
  BY <1>1 DEF Gates, Default

\* What a run shows at its end is typed, no newer than the design, and comes from
\* its own answers.
LEMMA OutcomeIsAnswers ==
  ASSUME GatesTypeOK, RunIsConsistent, NEW s \in Slots, ~Free(s), runs[s].asked = {}
  PROVE  /\ Outcome(runs[s]) \in [Gates -> 0 .. MaxDesign]
         /\ \A g \in Gates : Outcome(runs[s])[g] # gates[g] =>
              /\ g \in Scope(runs[s])
              /\ \/ Outcome(runs[s])[g] = 0 /\ runs[s].got["project"] # 0
                 \/ \E t \in Tools : /\ Outcome(runs[s])[g] = runs[s].got[t]
                                     /\ runs[s].got[t] # 0
<1> DEFINE run == runs[s]
<1> USE DEF GatesTypeOK, Tools, Single
<1>1. /\ run \in [kind : RunKinds, gate : Gates, asked : SUBSET Tools,
                  report : Reports \union {<< >>},
                  got : [Tools -> 0 .. MaxDesign], met : BOOLEAN]
      /\ run.kind \in {"all", "one", "drc"}
  BY DEF Free, RunKinds
<1>2. \A t \in Asks(run.kind, run.gate) :
        run.got[t] # 0 /\ (t = "project" => run.report \in Reports)
  BY DEF RunIsConsistent
<1>3. CASE run.kind = "all"
  <2>1. run.got["project"] # 0 /\ \A t \in Single : run.got[t] # 0
    BY <1>2, <1>3 DEF Asks
  <2>2. Outcome(run) = [g \in Gates |-> IF g \in Single THEN run.got[g]
                          ELSE IF g \in Range(run.report) THEN run.got["project"] ELSE 0]
    BY <1>3 DEF Outcome
  <2>3. Scope(run) = Gates
    BY <1>3 DEF Scope
  <2>4. Outcome(run) \in [Gates -> 0 .. MaxDesign]
    BY <1>1, <2>2, GatesAssumption
  <2>5. ASSUME NEW g \in Gates
        PROVE  \/ Outcome(run)[g] = 0
               \/ \E t \in Tools : Outcome(run)[g] = run.got[t] /\ run.got[t] # 0
    BY <2>1, <2>2
  <2> QED
    BY <2>1, <2>3, <2>4, <2>5
<1>4. CASE run.kind = "drc"
  <2>1. run.got["placement"] # 0 /\ run.got["transfer"] # 0
    BY <1>2, <1>4 DEF Asks
  <2>2. Outcome(run) = [g \in Gates |-> IF g \in {"placement", "transfer"}
                                          THEN run.got[g] ELSE gates[g]]
    BY <1>4 DEF Outcome, AfterDrc
  <2>3. Scope(run) = {"placement", "transfer"}
    BY <1>4 DEF Scope
  <2> QED
    BY <1>1, <2>1, <2>2, <2>3
<1>5. CASE run.kind = "one"
  <2> DEFINE tool == ToolOf(run.gate)
             name == NameOfResult(run)
             v == run.got[tool]
  <2>1. tool \in Tools /\ v # 0 /\ v \in 0 .. MaxDesign
    BY <1>1, <1>2, <1>5 DEF Asks, ToolOf
  <2>2. name \in Gates /\ name \in Scope(run) /\ run.gate \in Scope(run)
    <3>1. CASE run.gate \in Single
      BY <1>1, <1>5, <3>1 DEF NameOfResult, ToolOf, Scope
    <3>2. CASE run.gate \notin Single
      <4>1. run.report \in Reports
        BY <1>2, <1>5, <3>2 DEF Asks, ToolOf
      <4>2. Head(run.report) \in Gates
        BY <4>1, GatesAssumption
      <4> QED
        BY <1>1, <1>5, <3>2, <4>2 DEF NameOfResult, ToolOf, Scope
    <3> QED
      BY <3>1, <3>2
  <2>3. name # run.gate => tool = "project"
    BY DEF NameOfResult
  <2>4. Outcome(run) = ReplaceItem(run.gate, name, v)
    BY <1>5 DEF Outcome
  <2>5. CASE run.gate = "project" /\ gates[run.gate] = 0
    BY <2>4, <2>5 DEF ReplaceItem
  <2>6. CASE ~(run.gate = "project" /\ gates[run.gate] = 0)
    <3>1. Outcome(run) = [x \in Gates |->
            IF x = name THEN (IF Shadowed(run.gate, name) THEN gates[name] ELSE v)
            ELSE IF x = run.gate THEN 0 ELSE gates[x]]
      BY <2>4, <2>6 DEF ReplaceItem
    <3>2. Outcome(run) \in [Gates -> 0 .. MaxDesign]
      BY <2>1, <2>2, <3>1, GatesAssumption
    <3>3. ASSUME NEW g \in Gates, Outcome(run)[g] # gates[g]
          PROVE  g \in {name, run.gate} /\ (Outcome(run)[g] = v \/
                   (Outcome(run)[g] = 0 /\ name # run.gate))
      BY <3>1, <3>3
    <3> HIDE DEF v, name
    <3> QED
      BY <2>1, <2>2, <2>3, <3>2, <3>3 DEF v
  <2> QED
    BY <2>5, <2>6
<1> QED
  BY <1>1, <1>3, <1>4, <1>5

\* A place without a run is typed, and has no answers.
LEMMA OffIsTyped ==
  /\ Off \in RunType /\ Off.kind = "off" /\ \A t \in Tools : Off.got[t] = 0
  /\ Off.got \in [Tools -> 0 .. MaxDesign] /\ Off.report = << >> /\ Off.met = FALSE
<1>1. [t \in Tools |-> 0] \in [Tools -> 0 .. MaxDesign]
  BY GatesAssumption
<1>2. Off.got = [t \in Tools |-> 0]
  BY DEF Off
<1> HIDE DEF Tools
<1>3. Off \in RunType
  BY <1>1, GateNames DEF Off, RunType, RunKinds
<1> QED
  BY <1>1, <1>2, <1>3 DEF Off

\* A run asks some of the server's tools.
LEMMA AsksTools ==
  ASSUME NEW what \in RunKinds, NEW g \in Gates, what # "off"
  PROVE  Asks(what, g) \in SUBSET Tools
<1>1. what \in {"all", "one", "drc"}
  BY DEF RunKinds
<1>2. ToolOf(g) \in Tools
  BY DEF ToolOf, Tools
<1> QED
  BY <1>1, <1>2 DEF Asks, Tools, Single

\* A run that begins has nothing to be consistent with yet.
LEMMA BeginKeepsGatesInv ==
  ASSUME GatesInv, NEW s \in Slots, NEW what \in RunKinds \ {"off"}, NEW g \in Gates,
         Begin(s, what, g), drcTimer' \in BOOLEAN, UNCHANGED <<gates, design, due, lostDrc>>
  PROVE  GatesInv'
<1> DEFINE new == [Off EXCEPT !.kind = what, !.gate = g, !.asked = Asks(what, g)]
<1>1. Asks(what, g) \in SUBSET Tools
  BY AsksTools
<1>2. /\ new \in RunType /\ \A t \in Tools : new.got[t] = 0
      /\ new.kind = what /\ new.gate = g /\ new.asked = Asks(what, g)
  BY <1>1, OffIsTyped DEF RunType
<1>3. runs \in [Slots -> RunType]
  BY DEF GatesInv, GatesTypeOK, RunType
<1>4. runs' = [runs EXCEPT ![s] = new]
  BY DEF Begin
<1> HIDE DEF new
<1>5. \A o \in Slots : runs'[o] = IF o = s THEN new ELSE runs[o]
  BY <1>3, <1>4
<1>6. GatesTypeOK'
  <2>1. runs' \in [Slots -> RunType]
    BY <1>2, <1>3, <1>4
  <2> QED
    BY <2>1 DEF RunType, GatesInv, GatesTypeOK
<1>7. RunIsConsistent'
  BY <1>2, <1>5 DEF RunIsConsistent, Free, GatesInv
<1>8. NothingIsAhead'
  <2>1. \A o \in Slots, t \in Tools : runs'[o].got[t] = 0 \/ runs'[o].got[t] = runs[o].got[t]
    BY <1>2, <1>5
  <2>2. 0 <= design
    BY GatesAssumption DEF GatesInv, GatesTypeOK
  <2> QED
    BY <2>1, <2>2 DEF NothingIsAhead, GatesInv
<1>9. UnmetRunIsNewer'
  BY <1>2, <1>5 DEF UnmetRunIsNewer, GatesInv
<1> QED
  BY <1>6, <1>7, <1>8, <1>9 DEF GatesInv

\* A run is over and the others have met its end.
LEMMA ReleaseKeepsRuns ==
  ASSUME GatesInv, NEW s \in Slots, Release(s), design' = design
  PROVE  /\ runs' \in [Slots -> RunType]
         /\ runs'[s].kind = "off"
         /\ RunIsConsistent'
         /\ \A o \in Slots, t \in Tools : runs'[o].got[t] <= design
         /\ \A o \in Slots, t \in Tools : runs'[o].got[t] # 0 => runs'[o].met
<1>1. /\ runs \in [Slots -> RunType]
      /\ \A o \in Slots : runs'[o] = IF o = s THEN Off ELSE IF Free(o) THEN runs[o]
                                                     ELSE [runs[o] EXCEPT !.met = TRUE]
  BY DEF GatesInv, GatesTypeOK, RunType, Release
<1>2. ASSUME NEW o \in Slots
      PROVE  \/ runs'[o] = Off
             \/ /\ runs'[o] \in RunType /\ ~Free(o) /\ runs'[o].met
                /\ \A x \in {"kind", "gate", "asked", "report", "got"} : runs'[o][x] = runs[o][x]
  <2>1. CASE o = s \/ Free(o)
    BY <1>1, <2>1 DEF RunIsConsistent, GatesInv
  <2>2. CASE o # s /\ ~Free(o)
    BY <1>1, <2>2 DEF RunType
  <2> QED
    BY <2>1, <2>2
<1>3. runs' \in [Slots -> RunType]
  <2>1. \A o \in Slots : runs'[o] \in RunType
    BY <1>2, OffIsTyped
  <2> QED
    BY <2>1 DEF Release
<1>4. RunIsConsistent'
  BY <1>2, OffIsTyped DEF RunIsConsistent, Free, GatesInv
<1>5. ASSUME NEW o \in Slots, NEW t \in Tools
      PROVE  runs'[o].got[t] <= design /\ (runs'[o].got[t] # 0 => runs'[o].met)
  <2>1. 0 <= design
    BY GatesAssumption DEF GatesInv, GatesTypeOK
  <2> QED
    BY <1>2, <2>1, OffIsTyped DEF NothingIsAhead, GatesInv
<1> QED
  BY <1>1, <1>3, <1>4, <1>5, OffIsTyped

\* Every step of the gates keeps their invariant.
LEMMA GatesStepKeepsInv ==
  ASSUME GatesInv, GatesStep
  PROVE  GatesInv'
<1>1. ASSUME NEW s \in Slots, RunAll(s)
      PROVE  GatesInv'
  BY <1>1, BeginKeepsGatesInv, GateNames DEF RunAll, RunKinds, GatesInv, GatesTypeOK
<1>2. ASSUME NEW s \in Slots, DrcTimerFires(s)
      PROVE  GatesInv'
  BY <1>2, BeginKeepsGatesInv, GateNames DEF DrcTimerFires, RunKinds
<1>3. ASSUME NEW s \in Slots, NEW g \in Gates, RunGate(s, g)
      PROVE  GatesInv'
  BY <1>3, BeginKeepsGatesInv DEF RunGate, RunKinds, GatesInv, GatesTypeOK
<1>4. ASSUME NEW s \in Slots, RunEnds(s)
      PROVE  GatesInv'
  <2>1. gates' = Outcome(runs[s]) /\ Release(s) /\ UNCHANGED <<drcTimer, design, lostDrc>>
    BY <1>4 DEF RunEnds
  <2>2. /\ gates' \in [Gates -> 0 .. MaxDesign]
        /\ \A g \in Gates : \/ gates'[g] = gates[g] \/ gates'[g] = 0
                           \/ \E t \in Tools : gates'[g] = runs[s].got[t]
    BY <1>4, <2>1, OutcomeIsAnswers DEF RunEnds, GatesInv
  <2>3. /\ runs' \in [Slots -> RunType] /\ RunIsConsistent'
        /\ \A o \in Slots, t \in Tools : runs'[o].got[t] <= design
        /\ \A o \in Slots, t \in Tools : runs'[o].got[t] # 0 => runs'[o].met
    BY <2>1, ReleaseKeepsRuns
  <2>4. GatesTypeOK'
    BY <1>4, <2>1, <2>2, <2>3 DEF RunEnds, GatesInv, GatesTypeOK, RunType
  <2>5. NothingIsAhead'
    <3>1. 0 <= design
      BY GatesAssumption DEF GatesInv, GatesTypeOK
    <3>2. \A g \in Gates : gates'[g] <= design
      BY <2>2, <3>1 DEF NothingIsAhead, GatesInv
    <3> QED
      BY <2>1, <2>3, <3>2 DEF NothingIsAhead
  <2>6. UnmetRunIsNewer'
    BY <2>3 DEF UnmetRunIsNewer
  <2> QED
    BY <2>3, <2>4, <2>5, <2>6 DEF GatesInv
<1>5. ASSUME NEW s \in Slots, RunFails(s)
      PROVE  GatesInv'
  <2>1. Release(s) /\ UNCHANGED <<gates, drcTimer, design, due>>
    BY <1>5 DEF RunFails
  <2>2. /\ runs' \in [Slots -> RunType] /\ RunIsConsistent'
        /\ \A o \in Slots, t \in Tools : runs'[o].got[t] <= design
        /\ \A o \in Slots, t \in Tools : runs'[o].got[t] # 0 => runs'[o].met
    BY <2>1, ReleaseKeepsRuns
  <2>3. GatesTypeOK'
    BY <1>5, <2>1, <2>2 DEF RunFails, GatesInv, GatesTypeOK, RunType
  <2>4. NothingIsAhead'
    BY <2>1, <2>2 DEF NothingIsAhead, GatesInv
  <2>5. UnmetRunIsNewer'
    BY <2>2 DEF UnmetRunIsNewer
  <2> QED
    BY <2>2, <2>3, <2>4, <2>5 DEF GatesInv
<1>6. ASSUME NEW s \in Slots, NEW t \in Tools, NEW r \in Reports \union {<< >>},
             Answered(s, t, r)
      PROVE  GatesInv'
  <2> DEFINE new == [runs[s] EXCEPT !.asked = @ \ {t}, !.got[t] = design,
                                    !.report = IF t = "project" THEN r ELSE @]
  <2>1. /\ t \in runs[s].asked /\ (t = "project") = (r # << >>)
        /\ UNCHANGED <<gates, drcTimer, design, due, lostDrc>>
        /\ runs' = [runs EXCEPT ![s] = new]
    BY <1>6 DEF Answered
  <2>2. runs \in [Slots -> RunType] /\ design \in 1 .. MaxDesign /\ design \in Nat
    BY GatesAssumption DEF GatesInv, GatesTypeOK, RunType
  <2>3. new \in RunType
    <3>1. runs[s].got \in [Tools -> 0 .. MaxDesign] /\ design \in 0 .. MaxDesign
      BY <2>2 DEF RunType
    <3>2. [runs[s].got EXCEPT ![t] = design] \in [Tools -> 0 .. MaxDesign]
      BY <3>1
    <3> QED
      BY <2>2, <3>2 DEF RunType
  <2>4. /\ new.kind = runs[s].kind /\ new.gate = runs[s].gate /\ new.met = runs[s].met
        /\ new.asked = runs[s].asked \ {t}
        /\ new.report = IF t = "project" THEN r ELSE runs[s].report
        /\ \A u \in Tools : new.got[u] = IF u = t THEN design ELSE runs[s].got[u]
    BY <2>2 DEF RunType
  <2> HIDE DEF new
  <2>5. \A o \in Slots : runs'[o] = IF o = s THEN new ELSE runs[o]
    BY <2>1, <2>2
  <2>6. ~Free(s)
    BY <2>1 DEF RunIsConsistent, GatesInv, Off
  <2>7. GatesTypeOK'
    <3>1. runs' \in [Slots -> RunType]
      BY <2>1, <2>2, <2>3
    <3> QED
      BY <2>1, <3>1 DEF GatesInv, GatesTypeOK, RunType
  <2>8. RunIsConsistent'
    <3>1. /\ new.asked \subseteq Asks(new.kind, new.gate)
          /\ \A u \in Asks(new.kind, new.gate) \ new.asked :
               new.got[u] # 0 /\ (u = "project" => new.report \in Reports)
      <4>1. /\ runs[s].asked \subseteq Asks(new.kind, new.gate)
            /\ \A u \in Asks(new.kind, new.gate) \ runs[s].asked :
                 runs[s].got[u] # 0 /\ (u = "project" => runs[s].report \in Reports)
        BY <2>4, <2>6 DEF RunIsConsistent, GatesInv
      <4>2. Asks(new.kind, new.gate) \subseteq Tools
        BY <2>3, <2>4, <2>6, AsksTools DEF RunType, Free
      <4>3. t = "project" => r \in Reports
        BY <2>1
      <4>4. design # 0
        BY <2>2
      <4> QED
        BY <2>1, <2>4, <4>1, <4>2, <4>3, <4>4
    <3>2. new.kind # "off"
      BY <2>4, <2>6 DEF Free
    <3> QED
      BY <2>5, <3>1, <3>2 DEF RunIsConsistent, Free, GatesInv
  <2>9. NothingIsAhead'
    BY <2>1, <2>2, <2>4, <2>5 DEF NothingIsAhead, GatesInv
  <2>10. UnmetRunIsNewer'
    BY <2>1, <2>2, <2>4, <2>5 DEF UnmetRunIsNewer, NothingIsAhead, GatesInv
  <2> QED
    BY <2>7, <2>8, <2>9, <2>10 DEF GatesInv
<1>7. CASE ScheduleDrcRefresh
  BY <1>7 DEF ScheduleDrcRefresh, GatesInv, GatesTypeOK, RunIsConsistent, Free, NothingIsAhead,
              UnmetRunIsNewer
<1>8. CASE DesignChanges
  BY <1>8, GatesAssumption DEF DesignChanges, GatesInv, GatesTypeOK, RunIsConsistent, Free,
              NothingIsAhead, UnmetRunIsNewer
<1> QED
  BY <1>1, <1>2, <1>3, <1>4, <1>5, <1>6, <1>7, <1>8 DEF GatesStep

\* Of the steps of the gates only the end of a run changes what they show.
LEMMA OnlyRunsEnd ==
  ASSUME GatesStep \/ UNCHANGED gvars \/ GatesReload, gates' # gates
  PROVE  \E s \in Slots : RunEnds(s)
BY DEF GatesStep, GatesReload, RunAll, RunGate, DrcTimerFires, Answered, RunFails,
       ScheduleDrcRefresh, DesignChanges, gvars

\* A gate changes only when a run that covers it ends.
LEMMA GateChanges ==
  ASSUME GatesInv, GatesStep \/ UNCHANGED gvars \/ GatesReload,
         NEW g \in Gates, gates'[g] # gates[g]
  PROVE  \E s \in Slots : Ended(s) /\ runs[s].asked = {} /\ g \in Scope(runs[s])
<1>1. PICK s \in Slots : RunEnds(s)
  BY OnlyRunsEnd
<1>2. Ended(s) /\ runs[s].asked = {} /\ gates' = Outcome(runs[s])
  BY <1>1, ReleaseKeepsRuns DEF RunEnds, Ended
<1>3. g \in Scope(runs[s])
  BY <1>1, <1>2, OutcomeIsAnswers DEF RunEnds, GatesInv
<1> QED
  BY <1>2, <1>3

\* A newer result is replaced by an older one only by a run that met another's end,
\* and is reset only by a report of the project.
LEMMA NewerIsReplaced ==
  ASSUME GatesInv, GatesStep \/ UNCHANGED gvars \/ GatesReload,
         NEW g \in Gates, gates'[g] < gates[g]
  PROVE  \E s \in Slots : /\ Ended(s)
                         /\ IF gates'[g] = 0 THEN runs[s].got["project"] # 0
                                             ELSE runs[s].met
<1>0. gates[g] \in Nat /\ \A s \in Slots, t \in Tools : runs[s].got[t] \in Nat
  BY GatesAssumption DEF GatesInv, GatesTypeOK
<1>1. gates'[g] # gates[g]
  BY <1>0
<1>2. PICK s \in Slots : RunEnds(s)
  BY <1>1, OnlyRunsEnd
<1>3. Ended(s) /\ gates' = Outcome(runs[s])
  BY <1>2, ReleaseKeepsRuns DEF RunEnds, Ended
<1>4. \/ gates'[g] = 0 /\ runs[s].got["project"] # 0
      \/ \E t \in Tools : gates'[g] = runs[s].got[t] /\ runs[s].got[t] # 0
  BY <1>1, <1>2, <1>3, OutcomeIsAnswers DEF RunEnds, GatesInv
<1>5. ASSUME NEW t \in Tools, gates'[g] = runs[s].got[t], runs[s].got[t] # 0
      PROVE  gates'[g] # 0 /\ runs[s].met
  BY <1>0, <1>5 DEF UnmetRunIsNewer, GatesInv
<1> QED
  BY <1>3, <1>4, <1>5

\* The invariant of the gates holds of the views.
LEMMA GatesInvariant == McpViewsSpec => []GatesInv
<1>1. McpViewsInit => GatesInv
  <2> SUFFICES ASSUME McpAvailabilityInit, GatesInit
               PROVE  GatesInv
    BY DEF McpViewsInit
  <2> USE GatesAssumption DEF GatesInit
  <2>1. runs \in [Slots -> RunType] /\ \A s \in Slots : runs[s] = Off
    BY OffIsTyped
  <2>2. GatesTypeOK
    <3>1. gates \in [Gates -> 0 .. MaxDesign]
      OBVIOUS
    <3>2. design \in 1 .. MaxDesign /\ due \in 0 .. design
      OBVIOUS
    <3>3. drcTimer \in BOOLEAN /\ lostDrc \in BOOLEAN
      OBVIOUS
    <3> QED
      BY <2>1, <3>1, <3>2, <3>3 DEF GatesTypeOK, RunType
  <2>3. RunIsConsistent
    BY <2>1, OffIsTyped DEF RunIsConsistent, Free
  <2>4. NothingIsAhead /\ UnmetRunIsNewer
    BY <2>1, OffIsTyped DEF NothingIsAhead, UnmetRunIsNewer
  <2> QED
    BY <2>2, <2>3, <2>4 DEF GatesInv
<1>2. GatesInv /\ [McpViewsNext]_vvars => GatesInv'
  <2> SUFFICES ASSUME GatesInv, [McpViewsNext]_vvars
               PROVE  GatesInv'
    OBVIOUS
  <2>1. CASE GatesStep
    BY <2>1, GatesStepKeepsInv
  <2>2. CASE UNCHANGED gvars
    BY <2>2 DEF gvars, GatesInv, GatesTypeOK, RunIsConsistent, Free, NothingIsAhead,
                UnmetRunIsNewer
  <2>3. CASE GatesReload
    <3>1. runs' \in [Slots -> RunType] /\ \A s \in Slots : runs'[s] = Off
      BY <2>3, OffIsTyped DEF GatesReload
    <3>2. GatesTypeOK'
      BY <2>3, <3>1 DEF GatesReload, GatesTypeOK, RunType, GatesInv
    <3>3. RunIsConsistent'
      BY <3>1, OffIsTyped DEF RunIsConsistent, Free
    <3>4. 0 <= design
      BY GatesAssumption DEF GatesInv, GatesTypeOK
    <3>5. NothingIsAhead' /\ UnmetRunIsNewer'
      BY <2>3, <3>1, <3>4, OffIsTyped DEF GatesReload, NothingIsAhead, UnmetRunIsNewer, GatesInv
    <3> QED
      BY <3>2, <3>3, <3>5 DEF GatesInv
  <2> QED
    BY <2>1, <2>2, <2>3 DEF McpViewsNext, ViewsReload, vvars
<1> QED
  BY <1>1, <1>2, PTL DEF McpViewsSpec

\* Runs in flight together lose none of each other's results.
THEOREM OnlyARunOfTheGateChangesIt == McpViewsSpec => OnlyRunGatesChange
<1>1. GatesInv /\ [McpViewsNext]_vvars =>
        [\A g \in Gates : gates'[g] # gates[g] =>
           \E s \in Slots : Ended(s) /\ runs[s].asked = {} /\ g \in Scope(runs[s])]_<<gates, runs>>
  BY GateChanges DEF McpViewsNext, ViewsReload, vvars
<1> QED
  BY <1>1, GatesInvariant, PTL DEF McpViewsSpec, OnlyRunGatesChange

\* An older result takes the place of a newer one only through a run that was
\* in flight when another ended.
THEOREM NewerResultsAreReplacedByMetRuns == McpViewsSpec => NewerResultsStay
<1>1. GatesInv /\ [McpViewsNext]_vvars =>
     [\A g \in Gates : gates'[g] < gates[g] =>
       \E s \in Slots : /\ Ended(s)
                        /\ IF gates'[g] = 0 THEN runs[s].got["project"] # 0
                                            ELSE runs[s].met]_<<gates, runs>>
  BY NewerIsReplaced DEF McpViewsNext, ViewsReload, vvars
<1>2. McpViewsSpec => []
     [\A g \in Gates : gates'[g] < gates[g] =>
       \E s \in Slots : /\ Ended(s)
                        /\ IF gates'[g] = 0 THEN runs[s].got["project"] # 0
                                            ELSE runs[s].met]_<<gates, runs>>
  BY <1>1, GatesInvariant, PTL DEF McpViewsSpec
<1> QED
  BY <1>2, PTL DEF NewerResultsStay

-----------------------------------------------------------------------------
\* A refresh that brings the gates a DRC calls for up to version d.
Carries(run, d) ==
  run.kind = "drc" /\ \A t \in {"placement", "transfer"} : t \in run.asked \/ run.got[t] >= d

\* A run that begins takes a free place, which carried nothing.
LEMMA BegunCarries ==
  ASSUME GatesInv, NEW s \in Slots, NEW what \in RunKinds \ {"off"}, NEW g \in Gates,
         Begin(s, what, g)
  PROVE  /\ \A o \in Slots, d \in Nat : Carries(runs[o], d) => Carries(runs'[o], d)
         /\ what = "drc" => \A d \in Nat : Carries(runs'[s], d)
<1>1. runs \in [Slots -> RunType] /\ Asks(what, g) \in SUBSET Tools /\ runs[s].kind = "off"
  BY AsksTools DEF GatesInv, GatesTypeOK, RunType, Begin, Free
<1>2. \A o \in Slots \ {s} : runs'[o] = runs[o]
  BY <1>1 DEF Begin
<1>3. runs'[s].kind = what /\ runs'[s].asked = Asks(what, g)
  <2>1. runs'[s] = [Off EXCEPT !.kind = what, !.gate = g, !.asked = Asks(what, g)]
    BY <1>1 DEF Begin
  <2> QED
    BY <2>1, OffIsTyped DEF RunType
<1>4. ASSUME NEW o \in Slots, NEW d \in Nat, Carries(runs[o], d)
      PROVE  Carries(runs'[o], d)
  BY <1>1, <1>2, <1>4 DEF Carries
<1>5. what = "drc" => Asks(what, g) = {"placement", "transfer"}
  BY DEF Asks
<1> QED
  BY <1>3, <1>4, <1>5 DEF Carries

\* The other runs carry what they did when one is over.
LEMMA ReleasedCarry ==
  ASSUME GatesInv, NEW s \in Slots, Release(s),
         NEW o \in Slots \ {s}, NEW d \in Nat, Carries(runs[o], d)
  PROVE  Carries(runs'[o], d)
<1>1. runs[o] \in RunType
  BY DEF GatesInv, GatesTypeOK, RunType
<1>2. runs'[o] = runs[o] \/ runs'[o] = [runs[o] EXCEPT !.met = TRUE]
  BY DEF Release
<1> QED
  BY <1>1, <1>2 DEF Carries, RunType

\* DrcIsUnderWay is kept by every step of the gates.
LEMMA GatesStepKeepsDrc ==
  ASSUME GatesInv, DrcIsUnderWay, GatesStep
  PROVE  DrcIsUnderWay'
<1>0. /\ due \in Nat /\ design \in Nat /\ due <= design /\ design # 0
      /\ runs \in [Slots -> RunType]
      /\ lostDrc \in BOOLEAN /\ drcTimer \in BOOLEAN
  BY GatesAssumption DEF GatesInv, GatesTypeOK, RunType
<1>01. due # 0 => lostDrc \/ drcTimer \/ \E s \in Slots : Carries(runs[s], due)
  BY Zenon DEF DrcIsUnderWay, Carries
<1> SUFFICES (due' # 0 => lostDrc' \/ drcTimer' \/ \E s \in Slots : Carries(runs'[s], due'))
  BY Zenon DEF DrcIsUnderWay, Carries
<1>1. ASSUME NEW s \in Slots, RunAll(s)
      PROVE  due' # 0 => lostDrc' \/ drcTimer' \/ \E o \in Slots : Carries(runs'[o], due')
  BY <1>0, <1>01, <1>1, BegunCarries, GateNames DEF RunAll, RunKinds
<1>2. ASSUME NEW s \in Slots, DrcTimerFires(s)
      PROVE  due' # 0 => lostDrc' \/ drcTimer' \/ \E o \in Slots : Carries(runs'[o], due')
  <2>1. Carries(runs'[s], due)
    BY <1>0, <1>2, BegunCarries, GateNames DEF DrcTimerFires, RunKinds
  <2> QED
    BY <1>2, <2>1 DEF DrcTimerFires
<1>3. ASSUME NEW s \in Slots, NEW g \in Gates, RunGate(s, g)
      PROVE  due' # 0 => lostDrc' \/ drcTimer' \/ \E o \in Slots : Carries(runs'[o], due')
  BY <1>0, <1>01, <1>3, BegunCarries DEF RunGate, RunKinds
<1>4. ASSUME NEW s \in Slots, RunEnds(s)
      PROVE  due' # 0 => lostDrc' \/ drcTimer' \/ \E o \in Slots : Carries(runs'[o], due')
  <2>1. /\ gates' = Outcome(runs[s]) /\ runs[s].asked = {} /\ Release(s)
        /\ due' = IF gates'["placement"] >= due /\ gates'["transfer"] >= due THEN 0 ELSE due
        /\ UNCHANGED <<drcTimer, lostDrc>>
    BY <1>4 DEF RunEnds
  <2>2. ASSUME due # 0, Carries(runs[s], due)
        PROVE  due' = 0
    <3>1. /\ gates' = AfterDrc(runs[s])
          /\ runs[s].got["placement"] >= due /\ runs[s].got["transfer"] >= due
      BY <2>1, <2>2 DEF Carries, Outcome
    <3>2. gates'["placement"] = runs[s].got["placement"]
          /\ gates'["transfer"] = runs[s].got["transfer"]
      BY <3>1, GateNames DEF AfterDrc
    <3> QED
      BY <2>1, <3>1, <3>2
  <2>3. ASSUME NEW o \in Slots, o # s, due # 0, Carries(runs[o], due)
        PROVE  Carries(runs'[o], due)
    BY <1>0, <2>1, <2>3, ReleasedCarry
  <2> QED
    BY <1>01, <2>1, <2>2, <2>3
<1>5. ASSUME NEW s \in Slots, RunFails(s)
      PROVE  due' # 0 => lostDrc' \/ drcTimer' \/ \E o \in Slots : Carries(runs'[o], due')
  <2>1. Release(s) /\ UNCHANGED <<drcTimer, due>>
    BY <1>5 DEF RunFails
  <2>2. lostDrc' = (lostDrc \/ runs[s].kind = "drc")
    BY <1>5, Zenon DEF RunFails
  <2>3. CASE runs[s].kind = "drc"
    BY <2>2, <2>3, Zenon
  <2>4. CASE runs[s].kind # "drc"
    <3>1. ASSUME NEW o \in Slots, due # 0, Carries(runs[o], due)
          PROVE  Carries(runs'[o], due)
      <4>1. o # s
        BY <2>4, <3>1 DEF Carries
      <4> QED
        BY <1>0, <2>1, <3>1, <4>1, ReleasedCarry
    <3>2. lostDrc' = lostDrc
      BY <1>0, <2>2, <2>4, Zenon
    <3> QED
      BY <1>01, <2>1, <3>1, <3>2
  <2> QED
    BY <2>3, <2>4
<1>6. ASSUME NEW s \in Slots, NEW t \in Tools, NEW r \in Reports \union {<< >>},
             Answered(s, t, r)
      PROVE  due' # 0 => lostDrc' \/ drcTimer' \/ \E o \in Slots : Carries(runs'[o], due')
  <2>1. UNCHANGED <<due, lostDrc, drcTimer>>
    BY <1>6 DEF Answered
  <2>2. ASSUME NEW o \in Slots, due # 0, Carries(runs[o], due)
        PROVE  Carries(runs'[o], due)
    <3>1. \A x \in Slots \ {s} : runs'[x] = runs[x]
      BY <1>0, <1>6 DEF Answered
    <3>2. /\ runs'[s].kind = runs[s].kind /\ runs'[s].asked = runs[s].asked \ {t}
          /\ \A u \in Tools : runs'[s].got[u] = IF u = t THEN design ELSE runs[s].got[u]
      <4> DEFINE new == [runs[s] EXCEPT !.asked = @ \ {t}, !.got[t] = design,
                                        !.report = IF t = "project" THEN r ELSE @]
      <4>1. runs' = [runs EXCEPT ![s] = new]
        BY <1>6 DEF Answered
      <4>2. runs[s] \in RunType
        BY <1>0
      <4>3. /\ new.kind = runs[s].kind /\ new.asked = runs[s].asked \ {t}
            /\ \A u \in Tools : new.got[u] = IF u = t THEN design ELSE runs[s].got[u]
        BY <4>2 DEF RunType
      <4> HIDE DEF new
      <4> QED
        BY <1>0, <4>1, <4>3
    <3>3. {"placement", "transfer"} \subseteq Tools
      BY DEF Tools, Single
    <3>4. CASE o = s
      BY <1>0, <2>2, <3>2, <3>3, <3>4 DEF Carries
    <3>5. CASE o # s
      BY <2>2, <3>1, <3>5
    <3> QED
      BY <3>4, <3>5
  <2> QED
    BY <1>01, <2>1, <2>2
<1>7. CASE ScheduleDrcRefresh
  BY <1>7 DEF ScheduleDrcRefresh
<1>8. CASE DesignChanges
  BY <1>01, <1>8 DEF DesignChanges
<1> QED
  BY <1>1, <1>2, <1>3, <1>4, <1>5, <1>6, <1>7, <1>8 DEF GatesStep

\* DrcIsUnderWay, for any number of runs in flight: from the end of a DRC until its
\* gates show its design, a timer is set or a refresh is in flight that will see it,
\* unless a refresh failed or the window was reloaded.
THEOREM DrcIsNotForgotten == McpViewsSpec => []DrcIsUnderWay
<1>1. McpViewsInit => DrcIsUnderWay
  BY DEF McpViewsInit, GatesInit, DrcIsUnderWay
<1>2. GatesInv /\ DrcIsUnderWay /\ [McpViewsNext]_vvars => DrcIsUnderWay'
  <2> SUFFICES ASSUME GatesInv, DrcIsUnderWay, [McpViewsNext]_vvars
               PROVE  DrcIsUnderWay'
    OBVIOUS
  <2>1. CASE GatesStep
    BY <2>1, GatesStepKeepsDrc
  <2>2. CASE UNCHANGED gvars
    BY <2>2 DEF gvars, DrcIsUnderWay
  <2>3. CASE GatesReload
    BY <2>3 DEF GatesReload, DrcIsUnderWay
  <2> QED
    BY <2>1, <2>2, <2>3 DEF McpViewsNext, ViewsReload, vvars
<1> QED
  BY <1>1, <1>2, GatesInvariant, PTL DEF McpViewsSpec

-----------------------------------------------------------------------------
(***************************************************************************)
(* The fix queue.                                                          *)
(***************************************************************************)

\* Where an operation has a fix at hand.
Working == {"previewing", "confirming", "posting", "executed", "refused", "declined"}

\* The type of an operation.
OpRecord ==
  [kind : OpKinds, at : OpStates, fix : Fixes \union {NoFix}, todo : SUBSET Fixes,
   of : 0 .. MaxLists, read : SUBSET Fixes, locked : SUBSET Fixes]

\* Where an operation of a kind may be, and what it then has at hand.
Consistent(op) ==
  /\ op.at \in {"fetching", "listing"} => op.kind = "refresh"
  /\ op.at \in {"asking", "next"} => op.kind = "all"
  /\ op.at = "confirming" => op.kind = "one"
  /\ op.at = "previewing" => op.kind \in {"one", "all"}
  /\ op.at \in {"posting", "executed", "refused", "declined"} => op.kind # "refresh"
  /\ op.at \in Working => op.fix \in Fixes \ op.todo
  /\ op.kind # "all" => op.todo = {}

OpIsConsistent == \A o \in Places : Consistent(ops[o])

\* What an operation took from a list that is still shown is on it.
Taken(op) ==
  /\ op.of <= list
  /\ op.of = list /\ op.kind # "byId" =>
       op.todo \subseteq items /\ (op.at \in Working => op.fix \in items)

TakenFromList == \A o \in Places : Taken(ops[o])

\* An operation has a result only once the server has applied the fix or declined to.
ResultsAreAnswers ==
  \A o \in Places : /\ ops[o].at = "executed" => applied[ops[o].fix] > 0
                    /\ ops[o].at = "declined" => ops[o].fix \in declined

\* A fix that was never offered gets into an operation only by its id.
WasOffered(op) ==
  /\ op.todo \subseteq offered
  /\ op.at \in Working => IF op.kind = "byId" THEN unlisted[op.fix] > 0
                                              ELSE op.fix \in offered

ReadOnlyOnlyById == \A o \in Places : WasOffered(ops[o])

\* An operation may have f applied once more: the user has confirmed it, or it
\* went by its id, and the server has not answered yet.
MayApply(op, f) ==
  \/ op.at = "posting" /\ op.fix = f
  \/ /\ op.kind = "all"
     /\ \/ op.at \in {"next"} \union Working /\ f \in op.todo
        \/ op.at = "previewing" /\ op.fix = f

Licences(f) == Cardinality({o \in Places : MayApply(ops[o], f)})

\* Every application was paid for, and so is every one that may still come.
LicencesArePaid ==
  \A f \in Fixes : applied[f] + Licences(f) <= confirmed[f] + unlisted[f] + reposted[f]

-----------------------------------------------------------------------------
\* FixTypeOK in parts, with what operations have at hand.
OpsOK == ops \in [Places -> OpRecord] /\ OpIsConsistent /\ TakenFromList

ListOK ==
  /\ items \subseteq Fixes /\ done \subseteq items /\ failed \subseteq items \ done
  /\ readOnly \subseteq items /\ items \ readOnly \subseteq offered /\ offered \subseteq Fixes
  /\ list \in 0 .. MaxLists

CountsOK ==
  /\ queue \subseteq Fixes /\ declined \subseteq Fixes
  /\ applied \in [Fixes -> Nat] /\ confirmed \in [Fixes -> Nat]
  /\ unlisted \in [Fixes -> Nat] /\ reposted \in [Fixes -> Nat]

FixBase == OpsOK /\ ListOK /\ CountsOK

\* A free place is typed and has nothing at hand.
LEMMA OffOpIsTyped ==
  /\ OffOp \in OpRecord /\ Consistent(OffOp)
  /\ OffOp.of = 0 /\ OffOp.todo = {} /\ OffOp.at = "off" /\ OffOp.kind = "refresh"
BY FixAssumption DEF OffOp, OpRecord, OpKinds, OpStates, Consistent, Working

\* A new operation holds what it was given.
LEMMA NewOpIsTyped ==
  ASSUME NEW what \in OpKinds, NEW at \in OpStates, NEW f \in Fixes \union {NoFix},
         NEW todo \in SUBSET Fixes, list \in 0 .. MaxLists
  PROVE  LET op == NewOp(what, at, f, todo)
         IN  /\ op \in OpRecord
             /\ op.kind = what /\ op.at = at /\ op.fix = f /\ op.todo = todo /\ op.of = list
BY DEF NewOp, OpRecord

\* One operation becomes op, and the list stays or is replaced.
LEMMA OneOpChanges ==
  ASSUME FixBase, NEW o \in Places, NEW op \in OpRecord, Consistent(op),
         ops' = [ops EXCEPT ![o] = op],
         \/ UNCHANGED <<items, list>> /\ Taken(op)
         \/ list' = list + 1 /\ op.of <= list
  PROVE  OpsOK'
<1>1. /\ ops \in [Places -> OpRecord]
      /\ list \in Nat /\ \A p \in Places : ops[p].of \in Nat
  BY FixAssumption DEF FixBase, OpsOK, ListOK, OpRecord
<1>2. op.of \in Nat
  BY FixAssumption DEF OpRecord
<1>3. \A p \in Places : ops'[p] = IF p = o THEN op ELSE ops[p]
  BY <1>1
<1>4. ops' \in [Places -> OpRecord]
  BY <1>1
<1>5. OpIsConsistent'
  BY <1>3 DEF OpIsConsistent, FixBase, OpsOK
<1>6. TakenFromList'
  BY <1>1, <1>2, <1>3 DEF TakenFromList, Taken, FixBase, OpsOK
<1> QED
  BY <1>4, <1>5, <1>6 DEF OpsOK

\* An operation goes on with what it has at hand.
LEMMA OpGoes ==
  ASSUME FixBase, NEW o \in Places, NEW at \in OpStates, Goes(o, at),
         at \in Working => ops[o].at \in Working,
         Consistent([ops[o] EXCEPT !.at = at]), UNCHANGED <<items, list>>
  PROVE  OpsOK'
<1> DEFINE op == [ops[o] EXCEPT !.at = at]
<1>1. ops[o] \in OpRecord
  BY DEF FixBase, OpsOK, ListOK, OpRecord
<1>2. op \in OpRecord /\ op.at = at /\ op.kind = ops[o].kind /\ op.of = ops[o].of
      /\ op.todo = ops[o].todo /\ op.fix = ops[o].fix
  BY <1>1 DEF OpRecord
<1>3. ops' = [ops EXCEPT ![o] = op]
  BY DEF Goes
<1> HIDE DEF op
<1>4. Taken(op)
  BY <1>2 DEF Taken, TakenFromList, FixBase, OpsOK
<1> QED
  BY <1>2, <1>3, <1>4, OneOpChanges DEF op

\* An operation is over.
LEMMA OpEnds ==
  ASSUME FixBase, NEW o \in Places, Ends(o),
         UNCHANGED <<items, list>> \/ list' = list + 1
  PROVE  OpsOK'
<1>1. 0 <= list
  BY FixAssumption DEF FixBase, ListOK
<1>2. Taken(OffOp)
  BY <1>1, OffOpIsTyped DEF Taken, Working
<1> QED
  BY <1>1, <1>2, OffOpIsTyped, OneOpChanges DEF Ends

\* An operation begins with fixes of the list that is shown, or by id.
LEMMA OpBegins ==
  ASSUME FixBase, NEW o \in Places, NEW what, NEW at, NEW f, NEW todo,
         what \in OpKinds, at \in OpStates, f \in Fixes \union {NoFix}, todo \in SUBSET Fixes,
         ops' = [ops EXCEPT ![o] = NewOp(what, at, f, todo)],
         Consistent(NewOp(what, at, f, todo)),
         what # "byId" => todo \subseteq items /\ (at \in Working => f \in items),
         UNCHANGED <<items, list>>
  PROVE  OpsOK'
<1>1. list \in 0 .. MaxLists /\ list \in Nat
  BY FixAssumption DEF FixBase, ListOK
<1> DEFINE op == NewOp(what, at, f, todo)
<1>2. op \in OpRecord /\ op.kind = what /\ op.at = at /\ op.fix = f /\ op.todo = todo /\ op.of = list
  BY <1>1, NewOpIsTyped
<1> HIDE DEF op
<1>3. Taken(op)
  BY <1>1, <1>2 DEF Taken
<1> QED
  BY <1>2, <1>3, OneOpChanges DEF op



\* A refresh begins: the list is kept, or empty where there is no server.
LEMMA RefreshBegins ==
  ASSUME FixBase, NEW o \in Places, NEW reachable \in BOOLEAN, list < MaxLists,
         BeginRefresh(o, reachable)
  PROVE  OpsOK' /\ ListOK'
<1> USE FixAssumption DEF BeginRefresh
<1>1. CASE reachable
  <2>1. Consistent(NewOp("refresh", "fetching", NoFix, {}))
    BY NewOpIsTyped DEF Consistent, OpKinds, OpStates, Working, FixBase, ListOK
  <2>2. UNCHANGED lvars /\ ops' = [ops EXCEPT ![o] = NewOp("refresh", "fetching", NoFix, {})]
    BY <1>1
  <2>3. /\ "refresh" \in OpKinds /\ "fetching" \in OpStates /\ "fetching" \notin Working
        /\ NoFix \in Fixes \union {NoFix} /\ {} \in SUBSET Fixes /\ {} \subseteq items
    BY DEF OpKinds, OpStates, Working
  <2>4. UNCHANGED <<items, list>>
    BY <2>2 DEF lvars
  <2>5. OpsOK'
    BY <2>1, <2>2, <2>3, <2>4, OpBegins
  <2> QED
    BY <2>2, <2>5 DEF lvars, FixBase, ListOK
<1>2. CASE ~reachable
  <2>1. SetItems({}, {}) /\ Ends(o)
    BY <1>2
  <2> QED
    BY <2>1, OpEnds DEF SetItems, FixBase, ListOK
<1> QED
  BY <1>1, <1>2

\* An item that is listed is at hand from its preview on.
LEMMA ItemBegins ==
  ASSUME FixBase, NEW o \in Places, NEW f \in items, BeginItem(o, "one", f, {}), UNCHANGED lvars
  PROVE  OpsOK' /\ ListOK'
<1>1. f \in Fixes /\ list \in 0 .. MaxLists
  BY DEF FixBase, ListOK
<1>2. Consistent(NewOp("one", "previewing", f, {}))
  BY <1>1, NewOpIsTyped DEF Consistent, OpKinds, OpStates, Working
<1>3. /\ "one" \in OpKinds /\ "previewing" \in OpStates
      /\ f \in Fixes \union {NoFix} /\ {} \in SUBSET Fixes /\ {} \subseteq items
  BY <1>1 DEF OpKinds, OpStates
<1>4. UNCHANGED <<items, list>> /\ ops' = [ops EXCEPT ![o] = NewOp("one", "previewing", f, {})]
  BY DEF BeginItem, lvars
<1>5. OpsOK'
  BY <1>2, <1>3, <1>4, OpBegins
<1> QED
  BY <1>5 DEF lvars, FixBase, ListOK

\* Every step of the fix queue keeps the types and the operations in order.
LEMMA FixStepKeepsBase ==
  ASSUME FixBase, McpAvailabilityTypeOK, FixStep
  PROVE  FixBase'
<1>1. ASSUME UNCHANGED lvars
      PROVE  ListOK'
  BY <1>1 DEF lvars, FixBase, ListOK
<1>2. ASSUME UNCHANGED <<queue, applied, declined, hvars>>
      PROVE  CountsOK'
  BY <1>2 DEF hvars, FixBase, CountsOK
<1>3. ASSUME NEW o \in Places
      PROVE  /\ ops[o] \in OpRecord /\ Consistent(ops[o]) /\ Taken(ops[o])
             /\ ops[o].fix \in Fixes \union {NoFix} /\ ops[o].todo \subseteq Fixes
             /\ ops[o].read \subseteq Fixes
  BY DEF FixBase, OpsOK, OpIsConsistent, TakenFromList, OpRecord
<1>4. ASSUME NEW o \in Places, NEW at
      PROVE  LET op == [ops[o] EXCEPT !.at = at]
             IN  /\ op.kind = ops[o].kind /\ op.at = at /\ op.fix = ops[o].fix
                 /\ op.todo = ops[o].todo
  BY <1>3 DEF OpRecord
<1>5. ASSUME NEW o \in Places, RefreshQueue(o)
      PROVE  FixBase'
  BY <1>5, <1>2, RefreshBegins DEF RefreshQueue, FixBase, McpAvailabilityTypeOK
<1>6. ASSUME NEW o \in Places, NEW a \in BOOLEAN, McpStateChanges(o, a)
      PROVE  FixBase'
  BY <1>6, <1>2, RefreshBegins DEF McpStateChanges, FixBase
<1>7. ASSUME NEW o \in Places, ServerReads(o)
      PROVE  FixBase'
  <2>0. PICK locked \in SUBSET queue :
          ops' = [ops EXCEPT ![o].at = "listing", ![o].read = queue, ![o].locked = locked]
    BY <1>7 DEF ServerReads
  <2> DEFINE op == [ops[o] EXCEPT !.at = "listing", !.read = queue, !.locked = locked]
  <2>1. /\ ops[o].at = "fetching" /\ ops' = [ops EXCEPT ![o] = op]
        /\ UNCHANGED <<lvars, queue, applied, declined, hvars>>
    BY <1>7, <2>0 DEF ServerReads
  <2>2. op \in OpRecord /\ op.kind = ops[o].kind /\ op.at = "listing" /\ op.fix = ops[o].fix
        /\ op.todo = ops[o].todo /\ op.of = ops[o].of
    BY <1>3 DEF OpRecord, FixBase, CountsOK, OpStates
  <2> HIDE DEF op
  <2>3. Consistent(op) /\ Taken(op)
    BY <1>3, <2>1, <2>2 DEF Consistent, Taken, Working
  <2>4. OpsOK'
    BY <2>1, <2>2, <2>3, OneOpChanges DEF lvars
  <2> QED
    BY <1>1, <1>2, <2>1, <2>4 DEF FixBase
<1>8. ASSUME NEW o \in Places, ListArrives(o)
      PROVE  FixBase'
  <2>1. SetItems(ops[o].read, ops[o].locked) /\ list < MaxLists /\ Ends(o) /\ UNCHANGED <<queue, applied, declined, hvars>>
    BY <1>8 DEF ListArrives
  <2>2. OpsOK'
    BY <2>1, OpEnds DEF SetItems
  <2>3. ListOK'
    BY <1>3, <2>1, FixAssumption DEF SetItems, FixBase, ListOK
  <2> QED
    BY <1>2, <2>1, <2>2, <2>3 DEF FixBase
<1>9. ASSUME NEW o \in Places, FetchFails(o)
      PROVE  FixBase'
  <2>1. /\ SetItems({}, {}) \/ UNCHANGED lvars
        /\ list < MaxLists /\ Ends(o) /\ UNCHANGED <<queue, applied, declined, hvars>>
    BY <1>9 DEF FetchFails
  <2>2. OpsOK'
    BY <2>1, OpEnds DEF SetItems, lvars
  <2>3. ListOK'
    BY <1>1, <2>1, FixAssumption DEF SetItems, FixBase, ListOK
  <2> QED
    BY <1>2, <2>1, <2>2, <2>3 DEF FixBase
<1>10. ASSUME NEW o \in Places, NEW f \in Fixes, ApplyFix(o, f)
       PROVE  FixBase'
  BY <1>10, <1>2, ItemBegins DEF ApplyFix, FixBase
<1>11. ASSUME NEW o \in Places, NEW f \in Fixes, ApplyFixById(o, f)
       PROVE  FixBase'
  <2>1. UNCHANGED <<lvars, queue, applied, declined, confirmed, reposted>>
    BY <1>11 DEF ApplyFixById
  <2>2. CASE f \in items /\ BeginItem(o, "one", f, {}) /\ UNCHANGED unlisted
    BY <1>2, <2>1, <2>2, ItemBegins DEF FixBase, hvars
  <2>3. CASE /\ ops' = [ops EXCEPT ![o] = NewOp("byId", "posting", f, {})]
             /\ unlisted' = [unlisted EXCEPT ![f] = @ + 1]
    <3>1. Consistent(NewOp("byId", "posting", f, {}))
      BY NewOpIsTyped DEF Consistent, OpKinds, OpStates, Working, FixBase, ListOK
    <3>2. /\ "byId" \in OpKinds /\ "posting" \in OpStates
          /\ f \in Fixes \union {NoFix} /\ {} \in SUBSET Fixes /\ UNCHANGED <<items, list>>
      BY <2>1 DEF OpKinds, OpStates, lvars
    <3>3. OpsOK'
      BY <2>3, <3>1, <3>2, OpBegins
    <3>4. CountsOK'
      BY <2>1, <2>3 DEF FixBase, CountsOK
    <3> QED
      BY <1>1, <2>1, <3>3, <3>4 DEF FixBase
  <2> QED
    BY <1>11, <2>2, <2>3 DEF ApplyFixById
<1>12. ASSUME NEW o \in Places, ApplyAll(o)
       PROVE  FixBase'
  <2> DEFINE pending == items \ (done \union failed \union readOnly)
  <2>1. /\ ops' = [ops EXCEPT ![o] = NewOp("all", "asking", NoFix, pending)]
        /\ UNCHANGED <<lvars, queue, applied, declined, hvars>>
    BY <1>12 DEF ApplyAll
  <2>2. pending \in SUBSET Fixes /\ pending \subseteq items
    BY DEF FixBase, ListOK
  <2> HIDE DEF pending
  <2>3. Consistent(NewOp("all", "asking", NoFix, pending))
    BY <2>2, NewOpIsTyped DEF Consistent, OpKinds, OpStates, Working, FixBase, ListOK
  <2>4. /\ "all" \in OpKinds /\ "asking" \in OpStates /\ "asking" \notin Working
        /\ NoFix \in Fixes \union {NoFix} /\ UNCHANGED <<items, list>>
    BY <2>1 DEF OpKinds, OpStates, Working, lvars
  <2>5. OpsOK'
    BY <2>1, <2>2, <2>3, <2>4, OpBegins
  <2> QED
    BY <1>1, <1>2, <2>1, <2>5 DEF FixBase
<1>13. ASSUME NEW o \in Places, ConfirmAll(o)
       PROVE  FixBase'
  <2>1. /\ ops[o].at = "asking" /\ Goes(o, "next")
        /\ confirmed' = [f \in Fixes |-> confirmed[f] + (IF f \in ops[o].todo THEN 1 ELSE 0)]
        /\ UNCHANGED <<lvars, queue, applied, declined, unlisted, reposted>>
    BY <1>13 DEF ConfirmAll
  <2>2. CountsOK'
    BY <2>1 DEF FixBase, CountsOK
  <2>3. Consistent([ops[o] EXCEPT !.at = "next"])
    BY <1>3, <1>4, <2>1 DEF Consistent, Working
  <2>4. OpsOK'
    BY <2>1, <2>3, OpGoes DEF Working, OpStates, lvars
  <2> QED
    BY <1>1, <2>1, <2>2, <2>4 DEF FixBase
<1>14. ASSUME NEW o \in Places, NextItem(o)
       PROVE  FixBase'
  <2>1. ops[o].at = "next" /\ UNCHANGED <<lvars, queue, applied, declined, hvars>>
    BY <1>14 DEF NextItem
  <2>2. ASSUME NEW f \in ops[o].todo,
               ops' = [ops EXCEPT ![o].at = "previewing", ![o].fix = f, ![o].todo = @ \ {f}]
        PROVE  OpsOK'
    <3> DEFINE op == [ops[o] EXCEPT !.at = "previewing", !.fix = f, !.todo = @ \ {f}]
    <3>1. op \in OpRecord /\ op.at = "previewing" /\ op.kind = ops[o].kind /\ op.fix = f
          /\ op.todo = ops[o].todo \ {f} /\ op.of = ops[o].of
      BY <1>3 DEF OpRecord, OpStates
    <3>2. ops' = [ops EXCEPT ![o] = op]
      BY <2>2
    <3> HIDE DEF op
    <3>3. Consistent(op) /\ Taken(op)
      BY <1>3, <2>1, <3>1 DEF Consistent, Taken, Working
    <3> QED
      BY <2>1, <3>1, <3>2, <3>3, OneOpChanges DEF lvars
  <2>3. ASSUME Ends(o)
        PROVE  OpsOK'
    BY <2>1, <2>3, OpEnds DEF lvars
  <2> QED
    BY <1>1, <1>2, <1>14, <2>1, <2>2, <2>3 DEF NextItem, FixBase
<1>15. ASSUME NEW o \in Places, Previewed(o)
       PROVE  FixBase'
  <2> DEFINE at == IF ops[o].kind = "all" THEN "posting" ELSE "confirming"
  <2>1. /\ ops[o].at = "previewing" /\ Goes(o, at)
        /\ UNCHANGED <<lvars, queue, applied, declined, hvars>>
    BY <1>15 DEF Previewed
  <2>2. Consistent([ops[o] EXCEPT !.at = at])
    BY <1>3, <1>4, <2>1 DEF Consistent, Working
  <2>3. OpsOK'
    BY <2>1, <2>2, OpGoes DEF Working, OpStates, lvars
  <2> QED
    BY <1>1, <1>2, <2>1, <2>3 DEF FixBase
<1>16. ASSUME NEW o \in Places, Confirm(o)
       PROVE  FixBase'
  <2>1. /\ ops[o].at = "confirming" /\ Goes(o, "posting")
        /\ confirmed' = [confirmed EXCEPT ![ops[o].fix] = @ + 1]
        /\ UNCHANGED <<lvars, queue, applied, declined, unlisted, reposted>>
    BY <1>16 DEF Confirm
  <2>2. Consistent([ops[o] EXCEPT !.at = "posting"])
    BY <1>3, <1>4, <2>1 DEF Consistent, Working
  <2>3. OpsOK'
    BY <2>1, <2>2, OpGoes DEF Working, OpStates, lvars
  <2>4. CountsOK'
    <3>1. ops[o].fix \in Fixes
      BY <1>3, <2>1 DEF Consistent, Working
    <3> QED
      BY <2>1, <3>1 DEF FixBase, CountsOK
  <2> QED
    BY <1>1, <2>1, <2>3, <2>4 DEF FixBase
<1>17. ASSUME NEW o \in Places, Cancel(o)
       PROVE  FixBase'
  BY <1>1, <1>2, <1>17, OpEnds DEF Cancel, FixBase, lvars
<1>18. ASSUME NEW o \in Places, ServerApplies(o)
       PROVE  FixBase'
  <2>1. /\ ops[o].at = "posting" /\ Goes(o, "executed")
        /\ applied' = [applied EXCEPT ![ops[o].fix] = @ + 1]
        /\ queue' = queue \ {ops[o].fix}
        /\ UNCHANGED <<lvars, declined, hvars>>
    BY <1>18 DEF ServerApplies
  <2>2. Consistent([ops[o] EXCEPT !.at = "executed"])
    BY <1>3, <1>4, <2>1 DEF Consistent, Working
  <2>3. OpsOK'
    BY <2>1, <2>2, OpGoes DEF Working, OpStates, lvars
  <2>4. CountsOK'
    <3>1. ops[o].fix \in Fixes
      BY <1>3, <2>1 DEF Consistent, Working
    <3> QED
      BY <2>1, <3>1 DEF FixBase, CountsOK, hvars
  <2> QED
    BY <1>1, <2>1, <2>3, <2>4 DEF FixBase
<1>19. ASSUME NEW o \in Places, ServerRefuses(o)
       PROVE  FixBase'
  <2>1. PICK at \in {"refused", "declined"} :
          /\ ops[o].at = "posting" /\ Goes(o, at)
          /\ declined' \in {declined, declined \union {ops[o].fix}}
          /\ UNCHANGED <<lvars, queue, applied, hvars>>
    BY <1>19 DEF ServerRefuses
  <2>2. Consistent([ops[o] EXCEPT !.at = at])
    BY <1>3, <1>4, <2>1 DEF Consistent, Working
  <2>3. OpsOK'
    BY <2>1, <2>2, OpGoes DEF Working, OpStates, lvars
  <2>4. CountsOK'
    <3>1. ops[o].fix \in Fixes
      BY <1>3, <2>1 DEF Consistent, Working
    <3> QED
      BY <2>1, <3>1 DEF FixBase, CountsOK, hvars
  <2> QED
    BY <1>1, <2>1, <2>3, <2>4 DEF FixBase
<1>20. ASSUME NEW o \in Places, PostedAgain(o)
       PROVE  FixBase'
  <2>1. /\ ops[o].at \in {"executed", "refused", "declined"} /\ Goes(o, "posting")
        /\ reposted' = [reposted EXCEPT ![ops[o].fix] = @ + 1]
        /\ UNCHANGED <<lvars, queue, applied, declined, confirmed, unlisted>>
    BY <1>20 DEF PostedAgain
  <2>2. Consistent([ops[o] EXCEPT !.at = "posting"])
    BY <1>3, <1>4, <2>1 DEF Consistent, Working
  <2>3. OpsOK'
    BY <2>1, <2>2, OpGoes DEF Working, OpStates, lvars
  <2>4. CountsOK'
    <3>1. ops[o].fix \in Fixes
      BY <1>3, <2>1 DEF Consistent, Working
    <3> QED
      BY <2>1, <3>1 DEF FixBase, CountsOK
  <2> QED
    BY <1>1, <2>1, <2>3, <2>4 DEF FixBase
<1>21. ASSUME NEW o \in Places, Applied(o)
       PROVE  FixBase'
  <2>1. ops[o].at \in {"executed", "declined"} /\ UNCHANGED <<queue, applied, declined, hvars>>
    BY <1>21 DEF Applied
  <2>2. CASE ops[o].kind = "byId"
    BY <1>2, <1>21, <2>1, <2>2, RefreshBegins DEF Applied, FixBase, McpAvailabilityTypeOK
  <2>3. CASE ops[o].kind # "byId"
    <3>1. /\ IF ops[o].kind = "all" THEN Goes(o, "next") ELSE Ends(o)
          /\ done' = Mark(o, done) /\ failed' = failed \ done'
          /\ UNCHANGED <<items, readOnly, offered, list>>
      BY <1>21, <2>3 DEF Applied
    <3>2. OpsOK'
      <4>1. CASE ops[o].kind = "all"
        <5>1. Consistent([ops[o] EXCEPT !.at = "next"])
          BY <1>3, <1>4, <2>1, <4>1 DEF Consistent, Working
        <5> QED
          BY <3>1, <4>1, <5>1, OpGoes DEF Working, OpStates
      <4>2. CASE ops[o].kind # "all"
        BY <3>1, <4>2, OpEnds
      <4> QED
        BY <4>1, <4>2
    <3>3. ListOK'
      BY <1>3, <2>1, <2>3, <3>1 DEF Mark, Taken, Working, FixBase, ListOK
    <3> QED
      BY <1>2, <2>1, <3>2, <3>3 DEF FixBase
  <2> QED
    BY <2>2, <2>3
<1>22. ASSUME NEW o \in Places, ApplyFails(o)
       PROVE  FixBase'
  <2>1. /\ ops[o].at \in {"refused", "posting", "executed", "declined"} /\ Ends(o)
        /\ UNCHANGED <<items, readOnly, offered, list, queue, applied, declined, hvars>>
        /\ IF ops[o].kind = "all"
             THEN failed' = Mark(o, failed) /\ done' = done \ failed'
             ELSE UNCHANGED <<done, failed>>
    BY <1>22 DEF ApplyFails
  <2>2. OpsOK'
    BY <2>1, OpEnds
  <2>3. ListOK'
    BY <1>3, <2>1 DEF Mark, Taken, Working, FixBase, ListOK
  <2> QED
    BY <1>2, <2>1, <2>2, <2>3 DEF FixBase
<1> QED
  BY <1>5, <1>6, <1>7, <1>8, <1>9, <1>10, <1>11, <1>12, <1>13, <1>14, <1>15, <1>16, <1>17,
     <1>18, <1>19, <1>20, <1>21, <1>22 DEF FixStep

-----------------------------------------------------------------------------
\* A step that leaves its operation without a fix at hand, or takes it away.
Quiet(o) ==
  /\ \A p \in Places \ {o} : ops'[p] = ops[p]
  /\ ops'[o].at \in {"off", "fetching", "listing", "asking"}
  /\ ops'[o].todo \subseteq offered'
  /\ UNCHANGED <<applied, hvars>>

\* The steps that neither gain nor use a licence.
LEMMA QuietSteps ==
  ASSUME FixBase, NEW o \in Places,
         \/ RefreshQueue(o) \/ ServerReads(o) \/ ListArrives(o) \/ FetchFails(o)
         \/ \E a \in BOOLEAN : McpStateChanges(o, a)
         \/ ApplyAll(o) \/ Cancel(o) \/ ApplyFails(o)
         \/ NextItem(o) /\ Ends(o)
         \/ Applied(o) /\ ops[o].kind # "all"
  PROVE  Quiet(o)
<1>1. ops \in [Places -> OpRecord] /\ list \in 0 .. MaxLists /\ Consistent(ops[o])
  BY DEF FixBase, OpsOK, OpIsConsistent, ListOK
<1>2. ASSUME Ends(o), UNCHANGED <<applied, hvars>>
      PROVE  Quiet(o)
  BY <1>1, <1>2, OffOpIsTyped DEF Ends, Quiet
<1>3. ASSUME NEW reachable, BeginRefresh(o, reachable), UNCHANGED <<applied, hvars>>
      PROVE  Quiet(o)
  <2>1. CASE reachable
    <3>1. /\ "refresh" \in OpKinds /\ "fetching" \in OpStates
          /\ NoFix \in Fixes \union {NoFix} /\ {} \in SUBSET Fixes
      BY DEF OpKinds, OpStates
    <3>2. LET op == NewOp("refresh", "fetching", NoFix, {})
          IN op.at = "fetching" /\ op.todo = {}
      BY <1>1, <3>1, NewOpIsTyped
    <3> QED
      BY <1>1, <1>3, <2>1, <3>2 DEF BeginRefresh, Quiet
  <2>2. CASE ~reachable
    BY <1>2, <1>3, <2>2 DEF BeginRefresh
  <2> QED
    BY <2>1, <2>2
<1>4. CASE RefreshQueue(o)
  BY <1>3, <1>4 DEF RefreshQueue
<1>5. CASE ServerReads(o)
  <2>1. Consistent(ops[o]) => ops[o].todo = {}
    BY <1>5 DEF ServerReads, Consistent
  <2> QED
    BY <1>1, <1>5, <2>1 DEF ServerReads, Quiet, OpRecord
<1>6. CASE ListArrives(o)
  BY <1>2, <1>6 DEF ListArrives
<1>7. CASE FetchFails(o)
  BY <1>2, <1>7 DEF FetchFails
<1>8. ASSUME NEW a \in BOOLEAN, McpStateChanges(o, a)
      PROVE  Quiet(o)
  BY <1>3, <1>8 DEF McpStateChanges
<1>9. CASE ApplyAll(o)
  <2> DEFINE pending == items \ (done \union failed \union readOnly)
  <2>1. /\ "all" \in OpKinds /\ "asking" \in OpStates /\ NoFix \in Fixes \union {NoFix}
        /\ pending \in SUBSET Fixes /\ pending \subseteq offered
    BY DEF OpKinds, OpStates, FixBase, ListOK
  <2>2. ops' = [ops EXCEPT ![o] = NewOp("all", "asking", NoFix, pending)]
    BY <1>9 DEF ApplyAll
  <2>3. UNCHANGED <<applied, hvars, offered>>
    BY <1>9 DEF ApplyAll, lvars
  <2> HIDE DEF pending
  <2>4. LET op == NewOp("all", "asking", NoFix, pending)
        IN op.at = "asking" /\ op.todo = pending
    BY <1>1, <2>1, NewOpIsTyped
  <2> QED
    BY <1>1, <2>1, <2>2, <2>3, <2>4 DEF Quiet
<1>10. CASE Cancel(o)
  BY <1>2, <1>10 DEF Cancel
<1>11. CASE ApplyFails(o)
  BY <1>2, <1>11 DEF ApplyFails
<1>12. CASE NextItem(o) /\ Ends(o)
  BY <1>2, <1>12 DEF NextItem
<1>13. CASE Applied(o) /\ ops[o].kind # "all"
  BY <1>2, <1>3, <1>13 DEF Applied
<1> QED
  BY <1>4, <1>5, <1>6, <1>7, <1>8, <1>9, <1>10, <1>11, <1>12, <1>13

\* The other steps, and what becomes of the operation.
Advances(o, at) ==
  /\ \A p \in Places \ {o} : ops'[p] = ops[p]
  /\ ops'[o].at = at /\ ops'[o].kind = ops[o].kind
  /\ ops'[o].fix = ops[o].fix /\ ops'[o].todo = ops[o].todo

\* A step from one stage to another keeps what the operation has at hand.
LEMMA GoesAdvances ==
  ASSUME FixBase, NEW o \in Places, NEW at, Goes(o, at)
  PROVE  Advances(o, at)
<1>1. ops \in [Places -> OpRecord]
  BY DEF FixBase, OpsOK
<1> QED
  BY <1>1 DEF Goes, Advances, OpRecord

\* The licences are a number.
LEMMA LicencesAreCounted ==
  ASSUME NEW f
  PROVE  /\ IsFiniteSet({o \in Places : MayApply(ops[o], f)})
         /\ Licences(f) \in Nat
<1>1. IsFiniteSet(Places)
  BY FixAssumption, FS_Interval DEF Places
<1>2. IsFiniteSet({o \in Places : MayApply(ops[o], f)})
  BY <1>1, FS_Subset
<1> QED
  BY <1>2, FS_CardinalityType DEF Licences

\* One operation changes: the licences for a fix change by its own.
LEMMA LicencesChange ==
  ASSUME NEW o \in Places, \A p \in Places \ {o} : ops'[p] = ops[p], NEW f
  PROVE  /\ Licences(f) \in Nat /\ Licences(f)' \in Nat
         /\ Licences(f)' = Licences(f) + (IF MayApply(ops'[o], f) THEN 1 ELSE 0)
                                       - (IF MayApply(ops[o], f) THEN 1 ELSE 0)
<1> DEFINE S == {p \in Places : MayApply(ops[p], f)}
           T == {p \in Places : MayApply(ops'[p], f)}
<1>1. IsFiniteSet(Places)
  BY FixAssumption, FS_Interval DEF Places
<1>2. IsFiniteSet(S) /\ IsFiniteSet(T)
  BY <1>1, FS_Subset
<1>3. S \ {o} = T \ {o}
  OBVIOUS
<1> DEFINE was == IF MayApply(ops[o], f) THEN 1 ELSE 0
           is  == IF MayApply(ops'[o], f) THEN 1 ELSE 0
<1>4. was = (IF o \in S THEN 1 ELSE 0) /\ was \in Int
  OBVIOUS
<1>5. is = (IF o \in T THEN 1 ELSE 0) /\ is \in Int
  OBVIOUS
<1>6. Licences(f) = Cardinality(S) /\ Licences(f)' = Cardinality(T)
  BY DEF Licences
<1> HIDE DEF S, T, was, is
<1>7. Cardinality(S) \in Nat /\ Cardinality(T) \in Nat
  BY <1>2, FS_CardinalityType
<1>8. Cardinality(S \ {o}) = Cardinality(S) - was
  <2>1. Cardinality(S \ {o}) = IF o \in S THEN Cardinality(S) - 1 ELSE Cardinality(S)
    BY <1>2, FS_RemoveElement
  <2> QED
    BY <1>4, <1>7, <2>1
<1>9. Cardinality(T \ {o}) = Cardinality(T) - is
  <2>1. Cardinality(T \ {o}) = IF o \in T THEN Cardinality(T) - 1 ELSE Cardinality(T)
    BY <1>2, FS_RemoveElement
  <2> QED
    BY <1>5, <1>7, <2>1
<1>10. Licences(f)' = Licences(f) + is - was
  BY <1>3, <1>4, <1>5, <1>6, <1>7, <1>8, <1>9
<1>11. Licences(f) \in Nat /\ Licences(f)' \in Nat
  BY <1>6, <1>7
<1> QED
  BY <1>10, <1>11 DEF was, is

\* What is to be kept of the fixes that are applied.
FixInv ==
  /\ FixBase /\ DoneIsAnswered /\ ResultsAreAnswers
  /\ ReadOnlyOnlyById /\ ReadOnlyNeedsUnlistedId /\ LicencesArePaid

\* The licences stay paid when each fix pays for what its operation gains.
LEMMA PaidByStep ==
  ASSUME FixInv, CountsOK', NEW o \in Places, \A p \in Places \ {o} : ops'[p] = ops[p],
         \A f \in Fixes :
           (applied'[f] - applied[f]) + (IF MayApply(ops'[o], f) THEN 1 ELSE 0)
             <= (IF MayApply(ops[o], f) THEN 1 ELSE 0) + (confirmed'[f] - confirmed[f])
                + (unlisted'[f] - unlisted[f]) + (reposted'[f] - reposted[f])
  PROVE  LicencesArePaid'
<1> SUFFICES ASSUME NEW f \in Fixes
             PROVE  applied'[f] + Licences(f)' <= confirmed'[f] + unlisted'[f] + reposted'[f]
  BY DEF LicencesArePaid
<1> DEFINE before == IF MayApply(ops[o], f) THEN 1 ELSE 0
           after  == IF MayApply(ops'[o], f) THEN 1 ELSE 0
<1>1. before \in {0, 1} /\ after \in {0, 1}
  OBVIOUS
<1>2. /\ Licences(f) \in Nat /\ Licences(f)' \in Nat
      /\ Licences(f)' = Licences(f) + after - before
  BY LicencesChange
<1>3. /\ applied[f] \in Nat /\ confirmed[f] \in Nat /\ unlisted[f] \in Nat /\ reposted[f] \in Nat
      /\ applied'[f] \in Nat /\ confirmed'[f] \in Nat /\ unlisted'[f] \in Nat /\ reposted'[f] \in Nat
  BY DEF FixInv, FixBase, CountsOK
<1>4. applied[f] + Licences(f) <= confirmed[f] + unlisted[f] + reposted[f]
  BY DEF FixInv, LicencesArePaid
<1>5. (applied'[f] - applied[f]) + after <= before + (confirmed'[f] - confirmed[f])
                + (unlisted'[f] - unlisted[f]) + (reposted'[f] - reposted[f])
  OBVIOUS
<1> HIDE DEF before, after
<1> QED
  BY <1>1, <1>2, <1>3, <1>4, <1>5

\* Every step pays for the licences it gives, and an application uses one up.
LEMMA FixStepKeepsLicences ==
  ASSUME FixInv, FixBase', FixStep
  PROVE  LicencesArePaid'
<1> USE DEF FixInv
<1>1. CountsOK /\ CountsOK'
  BY DEF FixBase
<1>2. ASSUME NEW o \in Places
      PROVE  /\ ops[o] \in OpRecord /\ Consistent(ops[o])
             /\ ops \in [Places -> OpRecord]
             /\ ops[o].at \in Working => ops[o].fix \in Fixes
  BY DEF FixBase, OpsOK, OpIsConsistent, Consistent
<1>3. ASSUME NEW o \in Places, Quiet(o)
      PROVE  LicencesArePaid'
  <2>1. \A f : ~MayApply(ops'[o], f)
    BY <1>3 DEF Quiet, MayApply, Working
  <2>2. UNCHANGED <<applied, confirmed, unlisted, reposted>>
    BY <1>3 DEF Quiet, hvars
  <2> QED
    BY <1>1, <1>3, <2>1, <2>2, PaidByStep DEF Quiet, CountsOK
<1>4. ASSUME NEW o \in Places, NEW f \in Fixes, BeginItem(o, "one", f, {}),
             UNCHANGED <<applied, confirmed, unlisted, reposted>>
      PROVE  LicencesArePaid'
  <2>1. LET op == NewOp("one", "previewing", f, {}) IN op.at = "previewing" /\ op.kind = "one"
    BY DEF NewOp
  <2>2. /\ \A p \in Places \ {o} : ops'[p] = ops[p]
        /\ \A g : ~MayApply(ops'[o], g)
    BY <1>2, <1>4, <2>1 DEF BeginItem, MayApply
  <2> QED
    BY <1>1, <1>4, <2>2, PaidByStep DEF CountsOK
<1>5. ASSUME NEW o \in Places, NEW f \in Fixes,
             ops' = [ops EXCEPT ![o] = NewOp("byId", "posting", f, {})],
             unlisted' = [unlisted EXCEPT ![f] = @ + 1],
             UNCHANGED <<applied, confirmed, reposted>>
      PROVE  LicencesArePaid'
  <2>1. LET op == NewOp("byId", "posting", f, {})
        IN op.at = "posting" /\ op.kind = "byId" /\ op.fix = f
    BY DEF NewOp
  <2>2. /\ \A p \in Places \ {o} : ops'[p] = ops[p]
        /\ \A g : MayApply(ops'[o], g) => g = f
    BY <1>2, <1>5, <2>1 DEF MayApply
  <2>3. \A g \in Fixes : unlisted'[g] - unlisted[g] = IF g = f THEN 1 ELSE 0
    BY <1>1, <1>5 DEF CountsOK
  <2> QED
    BY <1>1, <1>5, <2>2, <2>3, PaidByStep DEF CountsOK
<1>6. ASSUME NEW o \in Places, ConfirmAll(o)
      PROVE  LicencesArePaid'
  <2>1. Advances(o, "next") /\ UNCHANGED <<applied, unlisted, reposted>>
    BY <1>6, GoesAdvances DEF ConfirmAll
  <2>2. \A g \in Fixes : confirmed'[g] - confirmed[g] = IF g \in ops[o].todo THEN 1 ELSE 0
    BY <1>1, <1>6 DEF ConfirmAll, CountsOK
  <2>3. \A g : MayApply(ops'[o], g) => g \in ops[o].todo
    BY <2>1 DEF Advances, MayApply
  <2>4. \A g \in Fixes :
           (applied'[g] - applied[g]) + (IF MayApply(ops'[o], g) THEN 1 ELSE 0)
             <= (IF MayApply(ops[o], g) THEN 1 ELSE 0) + (confirmed'[g] - confirmed[g])
                + (unlisted'[g] - unlisted[g]) + (reposted'[g] - reposted[g])
    BY <1>1, <2>1, <2>2, <2>3 DEF CountsOK
  <2> QED
    BY <1>1, <2>1, <2>4, PaidByStep DEF Advances
<1>7. ASSUME NEW o \in Places, NEW f \in ops[o].todo, ops[o].at = "next",
             ops' = [ops EXCEPT ![o].at = "previewing", ![o].fix = f, ![o].todo = @ \ {f}],
             UNCHANGED <<applied, confirmed, unlisted, reposted>>
      PROVE  LicencesArePaid'
  <2>1. /\ \A p \in Places \ {o} : ops'[p] = ops[p]
        /\ ops'[o].at = "previewing" /\ ops'[o].fix = f /\ ops'[o].todo = ops[o].todo \ {f}
        /\ ops'[o].kind = ops[o].kind
    BY <1>2, <1>7 DEF OpRecord
  <2>2. \A g : MayApply(ops'[o], g) => MayApply(ops[o], g)
    BY <1>2, <1>7, <2>1 DEF MayApply, Consistent
  <2>3. UNCHANGED <<applied, confirmed, unlisted, reposted>>
    BY <1>7
  <2>4. \A p \in Places \ {o} : ops'[p] = ops[p]
    BY <2>1
  <2> QED
    BY <1>1, <2>2, <2>3, <2>4, PaidByStep DEF CountsOK
<1>8. ASSUME NEW o \in Places, Previewed(o)
      PROVE  LicencesArePaid'
  <2>1. /\ Advances(o, IF ops[o].kind = "all" THEN "posting" ELSE "confirming")
        /\ ops[o].at = "previewing" /\ UNCHANGED <<applied, hvars>>
    BY <1>8, GoesAdvances DEF Previewed
  <2>2. \A g : MayApply(ops'[o], g) => MayApply(ops[o], g)
    BY <2>1 DEF Advances, MayApply, Working
  <2> QED
    BY <1>1, <2>1, <2>2, PaidByStep DEF Advances, CountsOK, hvars
<1>9. ASSUME NEW o \in Places, Confirm(o)
      PROVE  LicencesArePaid'
  <2>1. /\ Advances(o, "posting") /\ UNCHANGED <<applied, unlisted, reposted>>
        /\ ops[o].kind = "one"
    BY <1>2, <1>9, GoesAdvances DEF Confirm, Consistent
  <2>2. \A g \in Fixes : confirmed'[g] - confirmed[g] = IF g = ops[o].fix THEN 1 ELSE 0
    BY <1>1, <1>9 DEF Confirm, CountsOK
  <2>3. \A g : MayApply(ops'[o], g) => g = ops[o].fix
    BY <2>1 DEF Advances, MayApply
  <2>4. \A g \in Fixes :
           (applied'[g] - applied[g]) + (IF MayApply(ops'[o], g) THEN 1 ELSE 0)
             <= (IF MayApply(ops[o], g) THEN 1 ELSE 0) + (confirmed'[g] - confirmed[g])
                + (unlisted'[g] - unlisted[g]) + (reposted'[g] - reposted[g])
    BY <1>1, <2>1, <2>2, <2>3 DEF CountsOK
  <2> QED
    BY <1>1, <2>1, <2>4, PaidByStep DEF Advances
<1>10. ASSUME NEW o \in Places, ServerApplies(o)
       PROVE  LicencesArePaid'
  <2>1. /\ Advances(o, "executed") /\ UNCHANGED <<confirmed, unlisted, reposted>>
        /\ ops[o].at = "posting"
    BY <1>10, GoesAdvances DEF ServerApplies, hvars
  <2>2. \A g \in Fixes : applied'[g] - applied[g] = IF g = ops[o].fix THEN 1 ELSE 0
    BY <1>1, <1>10 DEF ServerApplies, CountsOK
  <2>3. /\ \A g : MayApply(ops'[o], g) => g # ops[o].fix /\ MayApply(ops[o], g)
        /\ MayApply(ops[o], ops[o].fix)
    BY <1>2, <2>1 DEF Advances, MayApply, Working, Consistent
  <2> QED
    BY <1>1, <2>1, <2>2, <2>3, PaidByStep DEF Advances, CountsOK
<1>11. ASSUME NEW o \in Places, ServerRefuses(o)
       PROVE  LicencesArePaid'
  <2>1. /\ Advances(o, "refused") \/ Advances(o, "declined")
        /\ ops[o].at = "posting" /\ UNCHANGED <<applied, hvars>>
    BY <1>11, GoesAdvances DEF ServerRefuses
  <2>2. \A g : MayApply(ops'[o], g) => MayApply(ops[o], g)
    BY <2>1 DEF Advances, MayApply, Working
  <2> QED
    BY <1>1, <2>1, <2>2, PaidByStep DEF Advances, CountsOK, hvars
<1>12. ASSUME NEW o \in Places, PostedAgain(o)
       PROVE  LicencesArePaid'
  <2>1. /\ Advances(o, "posting") /\ UNCHANGED <<applied, confirmed, unlisted>>
        /\ ops[o].at \in {"executed", "refused", "declined"}
    BY <1>12, GoesAdvances DEF PostedAgain
  <2>2. \A g \in Fixes : reposted'[g] - reposted[g] = IF g = ops[o].fix THEN 1 ELSE 0
    BY <1>1, <1>12 DEF PostedAgain, CountsOK
  <2>3. \A g : MayApply(ops'[o], g) => g = ops[o].fix \/ MayApply(ops[o], g)
    BY <2>1 DEF Advances, MayApply, Working
  <2>4. \A g \in Fixes :
           (applied'[g] - applied[g]) + (IF MayApply(ops'[o], g) THEN 1 ELSE 0)
             <= (IF MayApply(ops[o], g) THEN 1 ELSE 0) + (confirmed'[g] - confirmed[g])
                + (unlisted'[g] - unlisted[g]) + (reposted'[g] - reposted[g])
    BY <1>1, <2>1, <2>2, <2>3 DEF CountsOK
  <2> QED
    BY <1>1, <2>1, <2>4, PaidByStep DEF Advances
<1>13. ASSUME NEW o \in Places, Applied(o), ops[o].kind = "all"
       PROVE  LicencesArePaid'
  <2>1. Advances(o, "next") /\ ops[o].at \in {"executed", "declined"} /\ UNCHANGED <<applied, hvars>>
    BY <1>13, GoesAdvances DEF Applied
  <2>2. \A g : MayApply(ops'[o], g) => MayApply(ops[o], g)
    BY <2>1 DEF Advances, MayApply, Working
  <2> QED
    BY <1>1, <2>1, <2>2, PaidByStep DEF Advances, CountsOK, hvars
<1>14. ASSUME NEW o \in Places, NextItem(o)
       PROVE  LicencesArePaid'
  BY <1>3, <1>7, <1>14, QuietSteps DEF NextItem, hvars
<1>15. ASSUME NEW o \in Places, NEW f \in Fixes, ApplyFix(o, f) \/ ApplyFixById(o, f)
       PROVE  LicencesArePaid'
  BY <1>4, <1>5, <1>15 DEF ApplyFix, ApplyFixById, hvars
<1>16. ASSUME NEW o \in Places, Applied(o)
       PROVE  LicencesArePaid'
  BY <1>3, <1>13, <1>16, QuietSteps
<1>17. ASSUME NEW o \in Places, NEW a \in BOOLEAN, McpStateChanges(o, a)
       PROVE  LicencesArePaid'
  BY <1>3, <1>17, QuietSteps
<1>18. ASSUME NEW o \in Places,
              \/ RefreshQueue(o) \/ ServerReads(o) \/ ListArrives(o) \/ FetchFails(o)
              \/ ApplyAll(o) \/ Cancel(o) \/ ApplyFails(o)
       PROVE  LicencesArePaid'
  BY <1>3, <1>18, QuietSteps
<1> QED
  BY <1>6, <1>8, <1>9, <1>10, <1>11, <1>12, <1>14, <1>15, <1>16, <1>17, <1>18 DEF FixStep

\* Only the server's step adds to what has been applied, and an id once sent
\* stays sent.
LEMMA CountsGrow ==
  ASSUME FixBase, FixStep, NEW f \in Fixes
  PROVE  applied'[f] >= applied[f] /\ unlisted'[f] >= unlisted[f]
<1> USE DEF FixBase, CountsOK
<1>1. applied[f] \in Nat /\ unlisted[f] \in Nat
  OBVIOUS
<1>2. CASE UNCHANGED <<applied, unlisted>>
  BY <1>1, <1>2
<1>3. ASSUME NEW o \in Places, ServerApplies(o)
      PROVE  applied'[f] >= applied[f] /\ unlisted'[f] >= unlisted[f]
  BY <1>1, <1>3 DEF ServerApplies, hvars
<1>4. ASSUME NEW o \in Places, NEW g \in Fixes, ApplyFixById(o, g)
      PROVE  applied'[f] >= applied[f] /\ unlisted'[f] >= unlisted[f]
  BY <1>1, <1>4 DEF ApplyFixById
<1>5. ASSUME NEW o \in Places, ~ServerApplies(o), \A g \in Fixes : ~ApplyFixById(o, g),
             \/ RefreshQueue(o) \/ ServerReads(o) \/ ListArrives(o) \/ FetchFails(o)
             \/ \E a \in BOOLEAN : McpStateChanges(o, a)
             \/ \E g \in Fixes : ApplyFix(o, g)
             \/ ApplyAll(o) \/ ConfirmAll(o) \/ NextItem(o)
             \/ Previewed(o) \/ Confirm(o) \/ Cancel(o)
             \/ ServerRefuses(o) \/ PostedAgain(o)
             \/ Applied(o) \/ ApplyFails(o)
      PROVE  UNCHANGED <<applied, unlisted>>
  BY <1>5 DEF RefreshQueue, ServerReads, ListArrives, FetchFails, McpStateChanges, ApplyFix,
              ApplyAll, ConfirmAll, NextItem, Previewed, Confirm, Cancel, ServerRefuses,
              PostedAgain, Applied, ApplyFails, hvars
<1> QED
  BY <1>2, <1>3, <1>4, <1>5 DEF FixStep

\* A fix once declined stays declined, and one once offered stays offered.
LEMMA HistoriesGrow ==
  ASSUME FixStep
  PROVE  declined \subseteq declined' /\ offered \subseteq offered'
<1>1. ASSUME NEW o \in Places,
             \/ \E g \in Fixes : ApplyFix(o, g) \/ ApplyFixById(o, g)
             \/ ApplyAll(o) \/ ConfirmAll(o) \/ NextItem(o)
             \/ Previewed(o) \/ Confirm(o) \/ Cancel(o) \/ ServerApplies(o)
             \/ ServerReads(o) \/ ServerRefuses(o) \/ PostedAgain(o) \/ ApplyFails(o)
      PROVE  declined \subseteq declined' /\ offered \subseteq offered'
  BY <1>1 DEF ServerReads, ApplyFix, ApplyFixById, ApplyAll, ConfirmAll, NextItem, Previewed,
              Confirm, Cancel, ServerApplies, ServerRefuses, PostedAgain, ApplyFails, lvars
<1>2. ASSUME NEW o \in Places,
             \/ RefreshQueue(o) \/ ListArrives(o) \/ FetchFails(o) \/ Applied(o)
             \/ \E a \in BOOLEAN : McpStateChanges(o, a)
      PROVE  declined \subseteq declined' /\ offered \subseteq offered'
  <2>1. UNCHANGED declined
    BY <1>2 DEF RefreshQueue, ListArrives, FetchFails, McpStateChanges, Applied
  <2>2. offered \subseteq offered'
    BY <1>2 DEF RefreshQueue, ListArrives, FetchFails, McpStateChanges, Applied, BeginRefresh,
                SetItems, lvars
  <2> QED
    BY <2>1, <2>2
<1> QED
  BY <1>1, <1>2 DEF FixStep

\* What is done, or has a result, has been applied or declined.
LEMMA FixStepKeepsApplied ==
  ASSUME FixInv, FixBase', FixStep
  PROVE  DoneIsAnswered' /\ ResultsAreAnswers'
<1> USE DEF FixInv
<1>1. /\ items \subseteq Fixes /\ done \subseteq items /\ CountsOK /\ CountsOK'
      /\ \A o \in Places : Consistent(ops[o])
  BY DEF FixBase, ListOK, OpsOK, OpIsConsistent
<1>2. declined \subseteq declined' /\ \A f \in Fixes : applied[f] > 0 => applied'[f] > 0
  BY <1>1, CountsGrow, HistoriesGrow DEF CountsOK
<1>3. ASSUME NEW o \in Places, \A p \in Places \ {o} : ops'[p] = ops[p],
             ops'[o].at = "executed" => applied'[ops'[o].fix] > 0,
             ops'[o].at = "declined" => ops'[o].fix \in declined'
      PROVE  ResultsAreAnswers'
  <2>1. ASSUME NEW p \in Places \ {o}, ops[p].at \in {"executed", "declined"}
        PROVE  ops[p].fix \in Fixes
    BY <1>1, <2>1 DEF Consistent, Working
  <2> QED
    BY <1>2, <1>3, <2>1 DEF ResultsAreAnswers
<1>4. ASSUME done' \subseteq done
      PROVE  DoneIsAnswered'
  BY <1>1, <1>2, <1>4 DEF DoneIsAnswered
<1>5. ASSUME NEW o \in Places, Quiet(o)
      PROVE  ResultsAreAnswers'
  BY <1>3, <1>5 DEF Quiet
<1>6. ASSUME NEW o \in Places, NEW at, Advances(o, at), at \notin {"executed", "declined"}
      PROVE  ResultsAreAnswers'
  BY <1>3, <1>6 DEF Advances
<1>7. ASSUME NEW o \in Places,
             \/ RefreshQueue(o) \/ ServerReads(o) \/ ListArrives(o) \/ FetchFails(o)
             \/ \E a \in BOOLEAN : McpStateChanges(o, a)
             \/ ApplyAll(o) \/ Cancel(o)
      PROVE  DoneIsAnswered' /\ ResultsAreAnswers'
  <2>1. done' \subseteq done
    BY <1>7 DEF RefreshQueue, ServerReads, ListArrives, FetchFails, McpStateChanges,
                BeginRefresh, SetItems, ApplyAll, Cancel, lvars
  <2> QED
    BY <1>4, <1>5, <1>7, <2>1, QuietSteps
<1>8. ASSUME NEW o \in Places, NEW f \in Fixes, ApplyFix(o, f) \/ ApplyFixById(o, f)
      PROVE  DoneIsAnswered' /\ ResultsAreAnswers'
  <2>1. done' \subseteq done
    BY <1>8 DEF ApplyFix, ApplyFixById, lvars
  <2>2. PICK what \in {"one", "byId"}, at \in {"previewing", "posting"} :
          ops' = [ops EXCEPT ![o] = NewOp(what, at, f, {})]
    BY <1>8 DEF ApplyFix, ApplyFixById, BeginItem
  <2>3. NewOp(what, at, f, {}).at \notin {"executed", "declined"}
    BY DEF NewOp
  <2>4. (\A p \in Places \ {o} : ops'[p] = ops[p]) /\ ops'[o].at \notin {"executed", "declined"}
    BY <2>2, <2>3 DEF FixBase, OpsOK
  <2> QED
    BY <1>3, <1>4, <2>1, <2>4
<1>9. ASSUME NEW o \in Places, ConfirmAll(o) \/ Previewed(o) \/ Confirm(o) \/ PostedAgain(o)
      PROVE  DoneIsAnswered' /\ ResultsAreAnswers'
  <2>1. done' \subseteq done
    BY <1>9 DEF ConfirmAll, Previewed, Confirm, PostedAgain, lvars
  <2>2. \E at \in {"next", "posting", "confirming"} : Advances(o, at)
    BY <1>9, GoesAdvances DEF ConfirmAll, Previewed, Confirm, PostedAgain
  <2> QED
    BY <1>4, <1>6, <2>1, <2>2
<1>10. ASSUME NEW o \in Places, NextItem(o)
       PROVE  DoneIsAnswered' /\ ResultsAreAnswers'
  <2>1. done' \subseteq done
    BY <1>10 DEF NextItem, lvars
  <2>2. ASSUME NEW f \in ops[o].todo,
               ops' = [ops EXCEPT ![o].at = "previewing", ![o].fix = f, ![o].todo = @ \ {f}]
        PROVE  ResultsAreAnswers'
    <3>1. (\A p \in Places \ {o} : ops'[p] = ops[p]) /\ ops'[o].at = "previewing"
      BY <2>2 DEF FixBase, OpsOK, OpRecord
    <3> QED
      BY <1>3, <3>1
  <2> QED
    BY <1>4, <1>5, <1>10, <2>1, <2>2, QuietSteps DEF NextItem
<1>11. ASSUME NEW o \in Places, ServerApplies(o)
       PROVE  DoneIsAnswered' /\ ResultsAreAnswers'
  <2>1. done' \subseteq done
    BY <1>11 DEF ServerApplies, lvars
  <2>2. Advances(o, "executed")
    BY <1>11, GoesAdvances DEF ServerApplies
  <2>3. ops[o].fix \in Fixes
    BY <1>1, <1>11 DEF ServerApplies, Consistent, Working
  <2>4. applied'[ops[o].fix] > 0
    BY <1>1, <1>11, <2>3 DEF ServerApplies, CountsOK
  <2> QED
    BY <1>3, <1>4, <2>1, <2>2, <2>4 DEF Advances
<1>12. ASSUME NEW o \in Places, Applied(o)
       PROVE  DoneIsAnswered' /\ ResultsAreAnswers'
  <2>1. ops[o].at \in {"executed", "declined"} /\ UNCHANGED <<applied, declined>>
    BY <1>12 DEF Applied
  <2>2. ResultsAreAnswers'
    <3>1. CASE ops[o].kind = "all"
      BY <1>6, <1>12, <3>1, GoesAdvances DEF Applied
    <3>2. CASE ops[o].kind # "all"
      BY <1>5, <1>12, <3>2, QuietSteps
    <3> QED
      BY <3>1, <3>2
  <2>3. done' \subseteq done \union {ops[o].fix}
    BY <1>12 DEF Applied, Mark, BeginRefresh, SetItems, lvars
  <2>4. applied[ops[o].fix] > 0 \/ ops[o].fix \in declined
    BY <2>1 DEF ResultsAreAnswers
  <2> QED
    BY <2>1, <2>2, <2>3, <2>4 DEF DoneIsAnswered
<1>13. ASSUME NEW o \in Places, ApplyFails(o)
       PROVE  DoneIsAnswered' /\ ResultsAreAnswers'
  <2>1. done' \subseteq done
    BY <1>13 DEF ApplyFails
  <2> QED
    BY <1>4, <1>5, <1>13, <2>1, QuietSteps
<1>14. ASSUME NEW o \in Places, ServerRefuses(o)
       PROVE  DoneIsAnswered' /\ ResultsAreAnswers'
  <2>1. done' \subseteq done
    BY <1>14 DEF ServerRefuses, lvars
  <2>2. CASE Goes(o, "refused")
    BY <1>4, <1>6, <2>1, <2>2, GoesAdvances
  <2>3. CASE Goes(o, "declined") /\ declined' = declined \union {ops[o].fix}
    BY <1>3, <1>4, <2>1, <2>3, GoesAdvances DEF Advances
  <2> QED
    BY <1>14, <2>2, <2>3 DEF ServerRefuses
<1> QED
  BY <1>7, <1>8, <1>9, <1>10, <1>11, <1>12, <1>13, <1>14 DEF FixStep

\* Fixes that no list has offered are in no operation but those by id.
LEMMA FixStepKeepsReadOnly ==
  ASSUME FixInv, FixBase', FixStep
  PROVE  ReadOnlyOnlyById' /\ ReadOnlyNeedsUnlistedId'
<1> USE DEF FixInv
<1>1. /\ CountsOK /\ CountsOK' /\ ops \in [Places -> OpRecord]
      /\ \A o \in Places : Consistent(ops[o]) /\ WasOffered(ops[o])
      /\ items \ readOnly \subseteq offered /\ offered \subseteq Fixes
  BY DEF FixBase, OpsOK, ListOK, OpIsConsistent, ReadOnlyOnlyById
<1>2. offered \subseteq offered' /\ \A f \in Fixes : unlisted[f] > 0 => unlisted'[f] > 0
  BY <1>1, CountsGrow, HistoriesGrow DEF CountsOK
<1>3. ASSUME NEW o \in Places, \A p \in Places \ {o} : ops'[p] = ops[p],
             ops'[o].todo \subseteq offered',
             ops'[o].at \in Working => IF ops'[o].kind = "byId" THEN unlisted'[ops'[o].fix] > 0
                                                            ELSE ops'[o].fix \in offered'
      PROVE  ReadOnlyOnlyById'
  <2>1. ASSUME NEW p \in Places \ {o}, ops[p].at \in Working
        PROVE  ops[p].fix \in Fixes
    BY <1>1, <2>1 DEF Consistent
  <2>2. ASSUME NEW p \in Places \ {o}
        PROVE  /\ ops'[p].todo \subseteq offered'
               /\ ops'[p].at \in Working =>
                    IF ops'[p].kind = "byId" THEN unlisted'[ops'[p].fix] > 0
                                             ELSE ops'[p].fix \in offered'
    BY <1>1, <1>2, <1>3, <2>1, <2>2 DEF WasOffered
  <2> QED
    BY <1>3, <2>2 DEF ReadOnlyOnlyById, WasOffered
<1>4. ASSUME UNCHANGED <<applied, confirmed>>
      PROVE  ReadOnlyNeedsUnlistedId'
  BY <1>1, <1>2, <1>4, FixAssumption DEF ReadOnlyNeedsUnlistedId
<1>5. ASSUME NEW o \in Places, Quiet(o)
      PROVE  ReadOnlyOnlyById' /\ ReadOnlyNeedsUnlistedId'
  BY <1>3, <1>4, <1>5 DEF Quiet, Working, hvars
<1>6. ASSUME NEW o \in Places, NEW at, Advances(o, at),
             at \in Working => ops[o].at \in Working
      PROVE  ReadOnlyOnlyById'
  <2>1. /\ \A p \in Places \ {o} : ops'[p] = ops[p]
        /\ ops'[o].at = at /\ ops'[o].kind = ops[o].kind
        /\ ops'[o].fix = ops[o].fix /\ ops'[o].todo = ops[o].todo
    BY <1>6 DEF Advances
  <2>2. WasOffered(ops[o]) /\ (ops[o].at \in Working => ops[o].fix \in Fixes)
    BY <1>1 DEF Consistent
  <2>3. ops'[o].todo \subseteq offered'
    BY <1>2, <2>1, <2>2 DEF WasOffered
  <2>4. ops'[o].at \in Working => IF ops'[o].kind = "byId" THEN unlisted'[ops'[o].fix] > 0
                                                       ELSE ops'[o].fix \in offered'
    BY <1>2, <1>6, <2>1, <2>2 DEF WasOffered
  <2> QED
    BY <1>3, <2>1, <2>3, <2>4
<1>7. ASSUME NEW o \in Places,
             \/ RefreshQueue(o) \/ ServerReads(o) \/ ListArrives(o) \/ FetchFails(o)
             \/ \E a \in BOOLEAN : McpStateChanges(o, a)
             \/ ApplyAll(o) \/ Cancel(o) \/ ApplyFails(o)
      PROVE  ReadOnlyOnlyById' /\ ReadOnlyNeedsUnlistedId'
  BY <1>5, <1>7, QuietSteps
<1>8. ASSUME NEW o \in Places, NEW f \in items, BeginItem(o, "one", f, {}),
             UNCHANGED <<applied, confirmed>>
      PROVE  ReadOnlyOnlyById' /\ ReadOnlyNeedsUnlistedId'
  <2>1. LET op == NewOp("one", "previewing", f, {})
        IN op.kind = "one" /\ op.fix = f /\ op.todo = {}
    BY DEF NewOp
  <2>2. /\ \A p \in Places \ {o} : ops'[p] = ops[p]
        /\ ops'[o].kind = "one" /\ ops'[o].fix \in offered' /\ ops'[o].todo = {}
    BY <1>1, <1>2, <1>8, <2>1 DEF BeginItem
  <2> QED
    BY <1>3, <1>4, <1>8, <2>2
<1>9. ASSUME NEW o \in Places, NEW f \in Fixes,
             ops' = [ops EXCEPT ![o] = NewOp("byId", "posting", f, {})],
             unlisted' = [unlisted EXCEPT ![f] = @ + 1], UNCHANGED <<applied, confirmed>>
      PROVE  ReadOnlyOnlyById' /\ ReadOnlyNeedsUnlistedId'
  <2>1. LET op == NewOp("byId", "posting", f, {})
        IN op.kind = "byId" /\ op.fix = f /\ op.todo = {}
    BY DEF NewOp
  <2>2. /\ \A p \in Places \ {o} : ops'[p] = ops[p]
        /\ ops'[o].kind = "byId" /\ ops'[o].fix = f /\ ops'[o].todo = {}
    BY <1>1, <1>9, <2>1
  <2>3. unlisted'[f] > 0
    BY <1>1, <1>9 DEF CountsOK
  <2> QED
    BY <1>3, <1>4, <1>9, <2>2, <2>3
<1>10. ASSUME NEW o \in Places, NEW f \in Fixes, ApplyFix(o, f) \/ ApplyFixById(o, f)
       PROVE  ReadOnlyOnlyById' /\ ReadOnlyNeedsUnlistedId'
  BY <1>8, <1>9, <1>10 DEF ApplyFix, ApplyFixById, hvars
<1>11. ASSUME NEW o \in Places, ConfirmAll(o)
       PROVE  ReadOnlyOnlyById' /\ ReadOnlyNeedsUnlistedId'
  <2>1. Advances(o, "next") /\ UNCHANGED <<applied, unlisted>>
    BY <1>11, GoesAdvances DEF ConfirmAll
  <2>2. ASSUME NEW f \in Fixes \ offered'
        PROVE  confirmed'[f] = confirmed[f]
    <3>1. f \in Fixes /\ f \notin ops[o].todo
      BY <1>1, <1>2, <2>2 DEF WasOffered
    <3> QED
      BY <1>1, <1>11, <3>1 DEF ConfirmAll, CountsOK
  <2> QED
    BY <1>2, <1>6, <2>1, <2>2 DEF ReadOnlyNeedsUnlistedId, Working
<1>12. ASSUME NEW o \in Places, NEW f \in ops[o].todo,
              ops' = [ops EXCEPT ![o].at = "previewing", ![o].fix = f, ![o].todo = @ \ {f}],
              UNCHANGED <<applied, confirmed>>, ops[o].at = "next"
       PROVE  ReadOnlyOnlyById' /\ ReadOnlyNeedsUnlistedId'
  <2>1. /\ \A p \in Places \ {o} : ops'[p] = ops[p]
        /\ ops'[o].fix = f /\ ops'[o].todo = ops[o].todo \ {f}
        /\ ops'[o].kind = ops[o].kind
    BY <1>1, <1>12 DEF OpRecord
  <2>2. ops[o].todo \subseteq offered /\ ops[o].kind = "all"
    BY <1>1, <1>12 DEF WasOffered, Consistent
  <2> QED
    BY <1>2, <1>3, <1>4, <1>12, <2>1, <2>2
<1>13. ASSUME NEW o \in Places, NextItem(o)
       PROVE  ReadOnlyOnlyById' /\ ReadOnlyNeedsUnlistedId'
  BY <1>5, <1>12, <1>13, QuietSteps DEF NextItem, hvars
<1>14. ASSUME NEW o \in Places, Previewed(o) \/ ServerRefuses(o) \/ PostedAgain(o)
       PROVE  ReadOnlyOnlyById' /\ ReadOnlyNeedsUnlistedId'
  <2>1. /\ \E at \in {"posting", "confirming", "refused", "declined"} : Advances(o, at)
        /\ ops[o].at \in Working /\ UNCHANGED <<applied, confirmed>>
    BY <1>14, GoesAdvances DEF Previewed, ServerRefuses, PostedAgain, Working, hvars
  <2> QED
    BY <1>4, <1>6, <2>1
<1>15. ASSUME NEW o \in Places, Confirm(o)
       PROVE  ReadOnlyOnlyById' /\ ReadOnlyNeedsUnlistedId'
  <2>1. /\ Advances(o, "posting") /\ UNCHANGED <<applied, unlisted>>
        /\ ops[o].at = "confirming"
    BY <1>15, GoesAdvances DEF Confirm
  <2>2. ops[o].fix \in offered
    BY <1>1, <2>1 DEF WasOffered, Consistent, Working
  <2>3. ASSUME NEW f \in Fixes \ offered'
        PROVE  confirmed'[f] = confirmed[f]
    BY <1>1, <1>2, <1>15, <2>2, <2>3 DEF Confirm, CountsOK
  <2> QED
    BY <1>2, <1>6, <2>1, <2>3 DEF ReadOnlyNeedsUnlistedId, Working
<1>16. ASSUME NEW o \in Places, ServerApplies(o)
       PROVE  ReadOnlyOnlyById' /\ ReadOnlyNeedsUnlistedId'
  <2>1. /\ Advances(o, "executed") /\ UNCHANGED <<confirmed, unlisted>>
        /\ ops[o].at = "posting"
        /\ applied' = [applied EXCEPT ![ops[o].fix] = @ + 1]
    BY <1>16, GoesAdvances DEF ServerApplies, hvars
  <2>2. ASSUME NEW f \in Fixes \ offered', applied'[f] > 0
        PROVE  applied[f] > 0 \/ unlisted[f] > 0
    <3>1. CASE f = ops[o].fix
      BY <1>1, <1>2, <2>1, <2>2, <3>1 DEF WasOffered, Working
    <3>2. CASE f # ops[o].fix
      BY <1>1, <2>1, <2>2, <3>2, FixAssumption DEF CountsOK
    <3> QED
      BY <3>1, <3>2
  <2> QED
    BY <1>2, <1>6, <2>1, <2>2 DEF ReadOnlyNeedsUnlistedId, Working
<1>17. ASSUME NEW o \in Places, Applied(o)
       PROVE  ReadOnlyOnlyById' /\ ReadOnlyNeedsUnlistedId'
  <2>1. ops[o].kind = "all" => Advances(o, "next") /\ UNCHANGED <<applied, confirmed>>
    BY <1>17, GoesAdvances DEF Applied, hvars
  <2>2. ops[o].kind # "all" => Quiet(o)
    BY <1>17, QuietSteps
  <2> QED
    BY <1>4, <1>5, <1>6, <2>1, <2>2 DEF Working
<1> QED
  BY <1>7, <1>10, <1>11, <1>13, <1>14, <1>15, <1>16, <1>17 DEF FixStep

-----------------------------------------------------------------------------
\* Where no operation is in flight nothing is owed.
LEMMA NothingInFlight ==
  list \in Nat /\ ops = [o \in Places |-> OffOp] =>
    OpsOK /\ ResultsAreAnswers /\ ReadOnlyOnlyById /\ \A f : Licences(f) = 0
<1> SUFFICES ASSUME list \in Nat, ops = [o \in Places |-> OffOp]
             PROVE  OpsOK /\ ResultsAreAnswers /\ ReadOnlyOnlyById /\ \A f : Licences(f) = 0
  OBVIOUS
<1>1. \A o \in Places : ops[o] = OffOp
  OBVIOUS
<1>2. OpsOK
  <2>1. ops \in [Places -> OpRecord]
    BY OffOpIsTyped
  <2>2. Taken(OffOp)
    BY OffOpIsTyped DEF Taken, Working
  <2> QED
    BY <1>1, <2>1, <2>2, OffOpIsTyped DEF OpsOK, OpIsConsistent, TakenFromList
<1>3. ResultsAreAnswers /\ ReadOnlyOnlyById
  BY <1>1, OffOpIsTyped DEF ResultsAreAnswers, ReadOnlyOnlyById, WasOffered, Working
<1>4. ASSUME NEW f
      PROVE  Licences(f) = 0
  <2>1. ~MayApply(OffOp, f)
    BY OffOpIsTyped DEF MayApply
  <2>2. {o \in Places : MayApply(ops[o], f)} = {}
    BY <1>1, <2>1
  <2> QED
    BY <2>2, FS_EmptySet DEF Licences
<1> QED
  BY <1>2, <1>3, <1>4

\* A reload forgets the operations and the list, and takes nothing back.
LEMMA FixReloadKeepsInv ==
  ASSUME FixInv, FixReload
  PROVE  FixInv'
<1> USE FixAssumption DEF FixReload
<1>1. OpsOK' /\ ResultsAreAnswers' /\ ReadOnlyOnlyById' /\ \A f : Licences(f)' = 0
  <2>1. list' \in Nat /\ ops' = [o \in Places |-> OffOp]
    OBVIOUS
  <2>2. (list \in Nat /\ ops = [o \in Places |-> OffOp] =>
           OpsOK /\ ResultsAreAnswers /\ ReadOnlyOnlyById /\ \A f : Licences(f) = 0)'
    BY NothingInFlight, PTL
  <2> QED
    BY <2>1, <2>2
<1>2. ListOK' /\ CountsOK' /\ DoneIsAnswered'
  BY DEF FixInv, FixBase, ListOK, CountsOK, DoneIsAnswered, hvars
<1>3. ReadOnlyNeedsUnlistedId'
  BY DEF FixInv, ReadOnlyNeedsUnlistedId, hvars
<1>4. LicencesArePaid'
  <2> SUFFICES ASSUME NEW f \in Fixes
               PROVE  applied[f] + 0 <= confirmed[f] + unlisted[f] + reposted[f]
    BY <1>1 DEF LicencesArePaid, hvars
  <2>1. Licences(f) \in Nat
    BY LicencesAreCounted
  <2> QED
    BY <2>1 DEF FixInv, FixBase, CountsOK, LicencesArePaid
<1> QED
  BY <1>1, <1>2, <1>3, <1>4 DEF FixInv, FixBase

\* The invariant of the fix queue holds of the views.
LEMMA FixInvariant == McpViewsSpec => [](McpAvailabilityTypeOK /\ FixInv)
<1>1. McpViewsInit => McpAvailabilityTypeOK /\ FixInv
  <2> SUFFICES ASSUME McpAvailabilityInit, FixInit
               PROVE  McpAvailabilityTypeOK /\ FixInv
    BY DEF McpViewsInit
  <2> USE FixAssumption DEF FixInit, Zero
  <2>1. OpsOK /\ ResultsAreAnswers /\ ReadOnlyOnlyById /\ \A f : Licences(f) = 0
    BY NothingInFlight
  <2>2. ListOK /\ CountsOK /\ DoneIsAnswered /\ ReadOnlyNeedsUnlistedId
    BY DEF ListOK, CountsOK, DoneIsAnswered, ReadOnlyNeedsUnlistedId
  <2>3. LicencesArePaid
    BY <2>1 DEF LicencesArePaid
  <2>4. McpAvailabilityTypeOK
    BY McpAvailabilityAssumption DEF McpAvailabilityInit, McpAvailabilityTypeOK
  <2> QED
    BY <2>1, <2>2, <2>3, <2>4 DEF FixInv, FixBase
<1>2. McpAvailabilityTypeOK /\ FixInv /\ [McpViewsNext]_vvars => FixInv'
  <2> SUFFICES ASSUME McpAvailabilityTypeOK, FixInv, [McpViewsNext]_vvars
               PROVE  FixInv'
    OBVIOUS
  <2>1. CASE FixStep
    <3>1. FixBase'
      BY <2>1, FixStepKeepsBase DEF FixInv
    <3> QED
      BY <2>1, <3>1, FixStepKeepsApplied, FixStepKeepsReadOnly, FixStepKeepsLicences DEF FixInv
  <2>2. CASE UNCHANGED fvars
    BY <2>2 DEF fvars, lvars, hvars, FixInv, FixBase, OpsOK, OpIsConsistent, TakenFromList, Taken,
                ListOK, CountsOK, DoneIsAnswered, ResultsAreAnswers, ReadOnlyOnlyById, WasOffered,
                ReadOnlyNeedsUnlistedId, LicencesArePaid, Licences
  <2>3. CASE FixReload
    BY <2>3, FixReloadKeepsInv
  <2> QED
    BY <2>1, <2>2, <2>3 DEF McpViewsNext, ViewsReload, vvars
<1>3. McpAvailabilityTypeOK /\ [McpViewsNext]_vvars => McpAvailabilityTypeOK'
  <2> SUFFICES ASSUME McpAvailabilityTypeOK, [McpViewsNext]_vvars
               PROVE  McpAvailabilityTypeOK'
    OBVIOUS
  <2>1. (UNCHANGED events \/ McpEvent) /\ (UNCHANGED available \/ available' \in BOOLEAN)
    <3>1. CASE GatesStep
      BY <3>1 DEF GatesStep, RunAll, RunGate, DrcTimerFires, Answered, RunEnds, RunFails,
                  ScheduleDrcRefresh, DesignChanges, mcpvars
    <3>2. ASSUME NEW o \in Places, NEW a \in BOOLEAN, McpStateChanges(o, a)
          PROVE  McpEvent /\ available' \in BOOLEAN
      BY <3>2 DEF McpStateChanges
    <3>3. ASSUME NEW o \in Places,
             \/ RefreshQueue(o) \/ ServerReads(o) \/ ListArrives(o) \/ FetchFails(o)
             \/ \E g \in Fixes : ApplyFix(o, g) \/ ApplyFixById(o, g)
             \/ ApplyAll(o) \/ ConfirmAll(o) \/ NextItem(o)
             \/ Previewed(o) \/ Confirm(o) \/ Cancel(o)
             \/ ServerApplies(o) \/ ServerRefuses(o) \/ PostedAgain(o)
             \/ Applied(o) \/ ApplyFails(o)
          PROVE  (UNCHANGED events \/ McpEvent) /\ UNCHANGED available
      BY <3>3 DEF RefreshQueue, ServerReads, ListArrives, FetchFails, ApplyFix, ApplyFixById,
                  ApplyAll, ConfirmAll, NextItem, Previewed, Confirm, Cancel, ServerApplies,
                  ServerRefuses, PostedAgain, Applied, ApplyFails, mcpvars
    <3>4. CASE ViewsReload \/ UNCHANGED vvars
      BY <3>4 DEF ViewsReload, vvars, mcpvars
    <3> QED
      BY <3>1, <3>2, <3>3, <3>4 DEF McpViewsNext, FixStep
  <2> QED
    BY <2>1, McpAvailabilityAssumption DEF McpEvent, McpAvailabilityTypeOK
<1> QED
  BY <1>1, <1>2, <1>3, PTL DEF McpViewsSpec

\* Types, and: an item that is shown as done is one the server has applied, or
\* declined by a result, however the list is replaced while fixes are being applied.
THEOREM DoneItemsAreAnswered == McpViewsSpec => []McpViewsInv
<1>1. GatesInv /\ McpAvailabilityTypeOK /\ FixInv => McpViewsInv
  BY DEF GatesInv, FixInv, FixBase, OpsOK, OpRecord, ListOK, CountsOK, FixTypeOK,
         McpViewsTypeOK, McpViewsInv
<1> QED
  BY <1>1, GatesInvariant, FixInvariant, PTL

\* Each confirmation, or id sent, lets a fix be applied once, and so does each
\* time its call was posted again.
THEOREM ApplicationsArePaid == McpViewsSpec => []EachConfirmationAppliesOnce
<1>1. FixInv => EachConfirmationAppliesOnce
  <2> SUFFICES ASSUME FixInv, NEW f \in Fixes
               PROVE  applied[f] <= confirmed[f] + unlisted[f] + reposted[f]
    BY DEF EachConfirmationAppliesOnce
  <2>1. Licences(f) \in Nat
    BY LicencesAreCounted
  <2> QED
    BY <2>1 DEF FixInv, FixBase, CountsOK, LicencesArePaid
<1> QED
  BY <1>1, FixInvariant, PTL

\* No dialog confirms a fix that every list has had as read-only, and nothing but
\* the id of a fix that is not listed has it applied.
THEOREM ReadOnlyFixesAreSafe == McpViewsSpec => []ReadOnlyNeedsUnlistedId
<1>1. FixInv => ReadOnlyNeedsUnlistedId
  BY DEF FixInv
<1> QED
  BY <1>1, FixInvariant, PTL
=============================================================================
