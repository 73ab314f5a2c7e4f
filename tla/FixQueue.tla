------------------------------ MODULE FixQueue ------------------------------
(***************************************************************************)
(* FixQueueProvider (mcp/fixQueueProvider.ts), the commands on it          *)
(* (commands/mcpCommands.ts, providers/kicadCodeActionProvider.ts), and    *)
(* the server they reach through McpToolAdapter and McpClient.             *)
(*                                                                         *)
(* An operation is a command or a refresh in flight.  The list may be      *)
(* replaced while an operation waits for a dialog or for the server; the   *)
(* operation goes on with the items it took from the older list.  The      *)
(* client posts a request again when its answer does not arrive.           *)
(*                                                                         *)
(* A fix that the server has applied leaves the server's queue.  Each item *)
(* that is listed may come with a disabledReason, of the server's choice   *)
(* or, from a file-backed queue, always: it is read-only.                  *)
(***************************************************************************)
EXTENDS Integers, FiniteSets, McpAvailability

CONSTANTS
  Fixes, NoFix,
  MaxOps,   \* bound on the operations in flight
  MaxLists  \* bound on the lists fetched

ASSUME FixAssumption ==
  /\ NoFix \notin Fixes
  /\ MaxOps \in Nat /\ MaxLists \in Nat

Places == 1 .. MaxOps

VARIABLES
  items,      \* this.items: the fixes listed
  readOnly,   \* those of them that have a disabledReason
  list,       \* which list it is: a counter
  done,       \* the items with status 'done'
  failed,     \* the items with status 'failed'
  ops,        \* the operations in flight
  queue,      \* the server's queue
  applied,    \* history: how often the server has applied a fix
  declined,   \* history: the fixes refused by a result, not by an error
  offered,    \* history: the fixes that some list has had without a disabledReason
  confirmed,  \* history: how often the user has confirmed it
  unlisted,   \* history: ... how often it was sent by id, not being listed
  reposted    \* history: how often its call was posted again

lvars == <<items, readOnly, offered, list, done, failed>>
hvars == <<confirmed, unlisted, reposted>>
fvars == <<lvars, ops, queue, applied, declined, hvars>>

\* A refresh: "fetching" until the server has read its queue, then "listing".
\* applyAll: "asking", then item by item.  An item: "previewing", "confirming",
\* "posting", and then "executed" by the server or not: "refused" by an error (of
\* HTTP, JSON-RPC, or a structured one), "declined" by a result that is no
\* structured error.
OpStates == {"off", "fetching", "listing", "asking", "next", "previewing", "confirming",
             "posting", "executed", "refused", "declined"}
OpKinds  == {"refresh", "one", "all", "byId"}

\* fix: the item at hand; todo: those after it; of: the list they were taken
\* from; read, locked: the server's answer to a refresh, and what of it is read-only.
OffOp == [kind |-> "refresh", at |-> "off", fix |-> NoFix, todo |-> {}, of |-> 0,
          read |-> {}, locked |-> {}]

NewOp(kind, at, fix, todo) ==
  [kind |-> kind, at |-> at, fix |-> fix, todo |-> todo, of |-> list, read |-> {}, locked |-> {}]

FixTypeOK ==
  /\ items \subseteq Fixes /\ readOnly \subseteq items /\ done \subseteq items /\ failed \subseteq items \ done
  /\ list \in 0 .. MaxLists
  /\ ops \in [Places -> [kind : OpKinds, at : OpStates, fix : Fixes \union {NoFix},
                      todo : SUBSET Fixes, of : 0 .. MaxLists, read : SUBSET Fixes,
                      locked : SUBSET Fixes]]
  /\ queue \subseteq Fixes /\ declined \subseteq Fixes /\ offered \subseteq Fixes
  /\ {applied, confirmed, unlisted, reposted} \subseteq [Fixes -> Nat]

Zero == [f \in Fixes |-> 0]

FixInit ==
  /\ items = {} /\ readOnly = {} /\ list = 0 /\ done = {} /\ failed = {}
  /\ ops = [o \in Places |-> OffOp]
  /\ queue = Fixes
  /\ declined = {} /\ offered = {}
  /\ applied = Zero /\ confirmed = Zero /\ unlisted = Zero /\ reposted = Zero

\* Operations have no identity: a new one takes the first free place.
Idle(o) == ops[o].at = "off" /\ \A p \in 1 .. o - 1 : ops[p].at # "off"

Goes(o, at) == ops' = [ops EXCEPT ![o].at = at]
Ends(o)     == ops' = [ops EXCEPT ![o] = OffOp]

-----------------------------------------------------------------------------
(***************************************************************************)
(* refresh.                                                                *)
(***************************************************************************)
SetItems(S, locked) ==
  /\ items' = S /\ readOnly' = S \intersect locked /\ list' = list + 1
  /\ offered' = offered \union (S \ locked)
  /\ done' = {} /\ failed' = {}

\* A refresh that finds the server unavailable clears the list at once.
BeginRefresh(o, reachable) ==
  IF reachable
    THEN /\ ops' = [ops EXCEPT ![o] = NewOp("refresh", "fetching", NoFix, {})]
         /\ UNCHANGED lvars
    ELSE SetItems({}, {}) /\ Ends(o)

\* The command.
RefreshQueue(o) ==
  /\ McpEvent /\ Idle(o) /\ list < MaxLists
  /\ BeginRefresh(o, available)
  /\ UNCHANGED <<available, queue, applied, declined, hvars>>

\* Any update of the state: extension.ts refreshes the queue.
McpStateChanges(o, a) ==
  /\ McpEvent /\ Idle(o) /\ list < MaxLists
  /\ available' = a
  /\ BeginRefresh(o, a)
  /\ UNCHANGED <<queue, applied, declined, hvars>>

ServerReads(o) ==
  /\ ops[o].at = "fetching"
  /\ \E locked \in SUBSET queue :
       ops' = [ops EXCEPT ![o].at = "listing", ![o].read = queue, ![o].locked = locked]
  /\ UNCHANGED <<mcpvars, lvars, queue, applied, declined, hvars>>

\* The items of the answer replace the list, whatever became of the state.
ListArrives(o) ==
  /\ ops[o].at = "listing" /\ list < MaxLists
  /\ SetItems(ops[o].read, ops[o].locked)
  /\ Ends(o)
  /\ UNCHANGED <<mcpvars, queue, applied, declined, hvars>>

\* An error of the network, a timeout or stdio clears the list; others are thrown.
FetchFails(o) ==
  /\ McpEvent /\ ops[o].at \in {"fetching", "listing"} /\ list < MaxLists
  /\ SetItems({}, {}) \/ UNCHANGED lvars
  /\ Ends(o)
  /\ UNCHANGED <<available, queue, applied, declined, hvars>>

-----------------------------------------------------------------------------
(***************************************************************************)
(* applyFix, applyAll, applyFixById.                                       *)
(***************************************************************************)

\* Mutant of BeginItem: only the view keeps read-only items from being applied.
BeginAnyItem(o, kind, f, todo) == ops' = [ops EXCEPT ![o] = NewOp(kind, "previewing", f, todo)]

\* applyFixInternal begins: an item that has a disabledReason is not applied.  What
\* a later list says of it is not looked at any more.
BeginItem(o, kind, f, todo) ==
  /\ f \notin readOnly
  /\ ops' = [ops EXCEPT ![o] = NewOp(kind, "previewing", f, todo)]

ApplyFix(o, f) ==
  /\ McpEvent /\ Idle(o) /\ f \in items
  /\ BeginItem(o, "one", f, {})
  /\ UNCHANGED <<available, lvars, queue, applied, declined, hvars>>

\* A code action holds the id of a fix that may have left the list since.  Then
\* the id goes to the server, without a dialog.
ApplyFixById(o, f) ==
  /\ McpEvent /\ Idle(o) /\ list > 0
  /\ \/ f \in items /\ BeginItem(o, "one", f, {}) /\ UNCHANGED unlisted
     \/ /\ f \notin items
        /\ ops' = [ops EXCEPT ![o] = NewOp("byId", "posting", f, {})]
        /\ unlisted' = [unlisted EXCEPT ![f] = @ + 1]
  /\ UNCHANGED <<available, lvars, queue, applied, declined, confirmed, reposted>>

\* applyAll: the items are taken before the modal dialog.
ApplyAll(o) ==
  /\ McpEvent /\ Idle(o)
  /\ LET pending == items \ (done \union failed \union readOnly)
     IN  /\ pending # {}
         /\ ops' = [ops EXCEPT ![o] = NewOp("all", "asking", NoFix, pending)]
  /\ UNCHANGED <<available, lvars, queue, applied, declined, hvars>>

\* 'Apply All' confirms every item that was taken.
ConfirmAll(o) ==
  /\ ops[o].at = "asking"
  /\ confirmed' = [f \in Fixes |-> confirmed[f] + (IF f \in ops[o].todo THEN 1 ELSE 0)]
  /\ Goes(o, "next")
  /\ UNCHANGED <<mcpvars, lvars, queue, applied, declined, unlisted, reposted>>

\* The loop goes on, whatever became of the item meanwhile, or is over.
NextItem(o) ==
  /\ ops[o].at = "next"
  /\ \/ \E f \in ops[o].todo :
          ops' = [ops EXCEPT ![o].at = "previewing", ![o].fix = f, ![o].todo = @ \ {f}]
     \/ ops[o].todo = {} /\ Ends(o)
  /\ UNCHANGED <<mcpvars, lvars, queue, applied, declined, hvars>>

\* The preview came with the item or is asked of the server.  Without a dialog
\* the call follows.
Previewed(o) ==
  /\ ops[o].at = "previewing"
  /\ Goes(o, IF ops[o].kind = "all" THEN "posting" ELSE "confirming")
  /\ UNCHANGED <<mcpvars, lvars, queue, applied, declined, hvars>>

Confirm(o) ==
  /\ ops[o].at = "confirming"
  /\ confirmed' = [confirmed EXCEPT ![ops[o].fix] = @ + 1]
  /\ Goes(o, "posting")
  /\ UNCHANGED <<mcpvars, lvars, queue, applied, declined, unlisted, reposted>>

\* Mutant of Cancel: the choice is not looked at.
CancelIgnored(o) ==
  /\ ops[o].at = "confirming"
  /\ Goes(o, "posting")
  /\ UNCHANGED <<mcpvars, lvars, queue, applied, declined, hvars>>

\* 'Cancel', or the dialog is closed.
Cancel(o) ==
  /\ ops[o].at \in {"asking", "confirming"}
  /\ Ends(o)
  /\ UNCHANGED <<mcpvars, lvars, queue, applied, declined, hvars>>

-----------------------------------------------------------------------------
(***************************************************************************)
(* The tool call and its end.                                              *)
(***************************************************************************)
ServerApplies(o) ==
  /\ ops[o].at = "posting"
  /\ applied' = [applied EXCEPT ![ops[o].fix] = @ + 1]
  /\ queue' = queue \ {ops[o].fix}
  /\ Goes(o, "executed")
  /\ UNCHANGED <<mcpvars, lvars, declined, hvars>>

\* By an error, or by a tool result that says isError or holds plain text.
ServerRefuses(o) ==
  /\ McpEvent /\ ops[o].at = "posting"
  /\ \/ Goes(o, "refused") /\ UNCHANGED declined
     \/ Goes(o, "declined") /\ declined' = declined \union {ops[o].fix}
  /\ UNCHANGED <<available, lvars, queue, applied, hvars>>

\* The answer does not arrive in time: the client posts the request again.
PostedAgain(o) ==
  /\ McpEvent /\ ops[o].at \in {"executed", "refused", "declined"}
  /\ reposted' = [reposted EXCEPT ![ops[o].fix] = @ + 1]
  /\ Goes(o, "posting")
  /\ UNCHANGED <<available, lvars, queue, applied, declined, confirmed, unlisted>>

\* A status is set on the item that was taken; the list may hold another by now.
Mark(o, S) == IF ops[o].of = list THEN S \union {ops[o].fix} ELSE S

\* Mutant of Applied: an answer with an error marks the item, too.
AppliedAnyway(o) ==
  /\ ops[o].at \in {"executed", "refused", "declined"}
  /\ ops[o].kind # "byId"
  /\ IF ops[o].kind = "all" THEN Goes(o, "next") ELSE Ends(o)
  /\ done' = Mark(o, done) /\ failed' = failed \ done'
  /\ UNCHANGED <<mcpvars, items, readOnly, offered, list, queue, applied, declined, hvars>>

\* A result arrives: status 'done', or the refresh that applyFixById ends with.
\* callTool looks at structured errors only: a fix that was declined is done, too.
Applied(o) ==
  /\ ops[o].at \in {"executed", "declined"}
  /\ IF ops[o].kind = "byId"
       THEN list < MaxLists /\ BeginRefresh(o, available)
       ELSE /\ IF ops[o].kind = "all" THEN Goes(o, "next") ELSE Ends(o)
            /\ done' = Mark(o, done) /\ failed' = failed \ done'
            /\ UNCHANGED <<items, readOnly, offered, list>>
  /\ UNCHANGED <<mcpvars, queue, applied, declined, hvars>>

\* An error, or an answer that never arrives.  applyAll marks the item and stops.
ApplyFails(o) ==
  /\ \/ ops[o].at = "refused" /\ UNCHANGED events
     \/ ops[o].at \in {"posting", "executed", "declined"} /\ McpEvent
  /\ Ends(o)
  /\ IF ops[o].kind = "all"
       THEN failed' = Mark(o, failed) /\ done' = done \ failed'
       ELSE UNCHANGED <<done, failed>>
  /\ UNCHANGED <<available, items, readOnly, offered, list, queue, applied, declined, hvars>>

\* A new window: only what the server has done is left.
FixReload ==
  /\ items' = {} /\ readOnly' = {} /\ list' = 0 /\ done' = {} /\ failed' = {}
  /\ ops' = [o \in Places |-> OffOp]
  /\ UNCHANGED <<offered, queue, applied, declined, hvars>>

FixStep ==
  \E o \in Places :
    \/ RefreshQueue(o) \/ ServerReads(o) \/ ListArrives(o) \/ FetchFails(o)
    \/ \E a \in BOOLEAN : McpStateChanges(o, a)
    \/ \E f \in Fixes : ApplyFix(o, f) \/ ApplyFixById(o, f)
    \/ ApplyAll(o) \/ ConfirmAll(o) \/ NextItem(o)
    \/ Previewed(o) \/ Confirm(o) \/ Cancel(o)
    \/ ServerApplies(o) \/ ServerRefuses(o) \/ PostedAgain(o)
    \/ Applied(o) \/ ApplyFails(o)

-----------------------------------------------------------------------------
(***************************************************************************)
(* Properties.                                                             *)
(***************************************************************************)

\* However the list is replaced while fixes are being applied, an item that is
\* shown as done is one the server has applied, or declined by a result: never one
\* whose call failed, and never one that only took the place of another.
DoneIsAnswered == \A f \in done : applied[f] > 0 \/ f \in declined

\* A fix is applied no more often than the user has confirmed it, one by one or
\* as one of all, or sent its id from a stale code action, unless the client
\* posted its call again.
EachConfirmationAppliesOnce ==
  \A f \in Fixes : applied[f] <= confirmed[f] + unlisted[f] + reposted[f]

\* A fix that no list has ever had without a disabledReason is confirmed by no
\* dialog, and applied only by the id of a fix that is not listed, however lists,
\* dialogs and calls overlap.
ReadOnlyNeedsUnlistedId ==
  \A f \in Fixes \ offered : confirmed[f] = 0 /\ (applied[f] > 0 => unlisted[f] > 0)

\* 'renders file-backed queue suggestions as read-only and does not apply them'
\* (test/unit/fixQueueProvider.actions.test.ts:76): no item is sent to the server
\* while it is listed as read-only.
ReadOnlyIsNotSent ==
  [][\A o \in Places :
       ops[o].at \in {"previewing", "confirming"} /\ ops'[o].at = "posting" =>
         ops[o].fix \notin readOnly]_fvars

\* 'applies all pending items and stops on failure'
\* (test/unit/fixQueueProvider.test.ts:229): applyAll does not go on to the next
\* item from one that the server has just refused.
ApplyAllStopsOnFailure ==
  [][\A o \in Places :
       ops[o].at \in {"refused", "declined"} => ops'[o].at # "next"]_fvars
=============================================================================
