------------------------------ MODULE CliRunner ------------------------------
(***************************************************************************)
(* KiCadCliRunner (src/apps/vscode-extension/src/cli/kicadCliRunner.ts):   *)
(* runs kicad-cli child processes on behalf of concurrent calls of         *)
(* runWithProgress, sharing one execution between calls with the same      *)
(* command key, and ends an execution on exit, timeout or cancellation.    *)
(*                                                                         *)
(* The extension host is single threaded: an action is one callback or one *)
(* stretch of code between two awaits.  Child processes run beside it.     *)
(***************************************************************************)
EXTENDS FiniteSets

CONSTANTS
  Calls,   \* calls of runWithProgress, each made once
  Keys,    \* values of buildCommandKey: cwd, cli path and full command
  None     \* no execution registered, no outcome yet

ASSUME CallsAssumption == None \notin Calls

VARIABLES
  key,           \* key[c]: the command key of call c
  pc,            \* pc[c]: where the call is in run()
  owner,         \* owner[c]: the call whose execution c awaits, None before
  outcome,       \* outcome[c]: how the call ended, None before
  running,       \* running[k]: runningCommands.get(k), the executing call
  promise,       \* promise[c]: the promise executeCommand returned to c
  child,         \* child[c]: the kicad-cli process of c's execution
  timer,         \* calls whose CLI_TIMEOUT_MS timer is armed
  controllers,   \* this.controllers, each named by its execution
  aborted,       \* executions whose own controller has been aborted
  cancelled,     \* calls whose progress notification was cancelled
  abortQueued    \* executions spawned with a signal that was already aborted

callVars  == <<key, pc, owner, outcome, running>>
execVars  == <<promise, child, timer, controllers, aborted, abortQueued>>
vars      == <<callVars, execVars, cancelled>>

PC == {"new", "detecting", "asking", "executing", "joined", "returned"}

Reasons == {"exit-code", "spawn-error", "timeout", "cancelled"}

Outcomes == {"ok", "parse-error", "invalid-options", "cli-not-found"}
              \union Reasons

ASSUME OutcomesAssumption == None \notin Outcomes

Promises == {"none", "pending", "resolved"} \union Reasons

ChildStates == {"none", "unborn", "alive", "killed",
                "exited-ok", "exited-bad", "closed"}

TypeOK ==
  /\ key \in [Calls -> Keys]
  /\ pc \in [Calls -> PC]
  /\ owner \in [Calls -> Calls \union {None}]
  /\ outcome \in [Calls -> Outcomes \union {None}]
  /\ running \in [Keys -> Calls \union {None}]
  /\ promise \in [Calls -> Promises]
  /\ child \in [Calls -> ChildStates]
  /\ timer \in SUBSET Calls
  /\ controllers \in SUBSET Calls
  /\ aborted \in SUBSET Calls
  /\ cancelled \in SUBSET Calls
  /\ abortQueued \in SUBSET Calls

Init ==
  /\ key \in [Calls -> Keys]
  /\ pc = [c \in Calls |-> "new"]
  /\ owner = [c \in Calls |-> None]
  /\ outcome = [c \in Calls |-> None]
  /\ running = [k \in Keys |-> None]
  /\ promise = [c \in Calls |-> "none"]
  /\ child = [c \in Calls |-> "none"]
  /\ timer = {}
  /\ controllers = {}
  /\ aborted = {}
  /\ cancelled = {}
  /\ abortQueued = {}

-----------------------------------------------------------------------------
(***************************************************************************)
(* The call: run() and runWithProgress().                                  *)
(***************************************************************************)

Return(c, result) ==
  /\ pc' = [pc EXCEPT ![c] = "returned"]
  /\ outcome' = [outcome EXCEPT ![c] = result]

\* validateRunOptions throws before anything is awaited.
RejectOptions(c) ==
  /\ pc[c] = "new"
  /\ Return(c, "invalid-options")
  /\ UNCHANGED <<key, owner, running, execVars, cancelled>>

\* run() up to "await this.detector.detect(true)".
Start(c) ==
  /\ pc[c] = "new"
  /\ pc' = [pc EXCEPT ![c] = "detecting"]
  /\ UNCHANGED <<key, owner, outcome, running, execVars, cancelled>>

\* No kicad-cli is found: detect(true) shows a message and awaits the answer,
\* which the user need not give.
AskUser(c) ==
  /\ pc[c] = "detecting"
  /\ pc' = [pc EXCEPT ![c] = "asking"]
  /\ UNCHANGED <<key, owner, outcome, running, execVars, cancelled>>

\* Whatever the answer, the call fails.
CliMissing(c) ==
  /\ pc[c] = "asking"
  /\ Return(c, "cli-not-found")
  /\ UNCHANGED <<key, owner, running, execVars, cancelled>>

\* Mutant of Join: the call joins an execution of any command.
JoinAnyKey(c) ==
  /\ pc[c] = "detecting"
  /\ \E k \in Keys : /\ running[k] # None
                     /\ owner' = [owner EXCEPT ![c] = running[k]]
  /\ pc' = [pc EXCEPT ![c] = "joined"]
  /\ UNCHANGED <<key, outcome, running, execVars, cancelled>>

\* An execution with the same key is registered: await its promise.
Join(c) ==
  /\ pc[c] = "detecting"
  /\ running[key[c]] # None
  /\ owner' = [owner EXCEPT ![c] = running[key[c]]]
  /\ pc' = [pc EXCEPT ![c] = "joined"]
  /\ UNCHANGED <<key, outcome, running, execVars, cancelled>>

\* Mutant of Execute: what is registered is not looked up first.
ExecuteUnshared(c, started) ==
  /\ pc[c] = "detecting"
  /\ running' = [running EXCEPT ![key[c]] = c]
  /\ owner' = [owner EXCEPT ![c] = c]
  /\ pc' = [pc EXCEPT ![c] = "executing"]
  /\ promise' = [promise EXCEPT ![c] = "pending"]
  /\ child' = [child EXCEPT ![c] = started]
  /\ timer' = timer \union {c}
  /\ controllers' = controllers \union {c}
  /\ abortQueued' = IF c \in cancelled THEN abortQueued \union {c}
                                       ELSE abortQueued
  /\ UNCHANGED <<key, outcome, aborted, cancelled>>

\* Mutant of Execute: the timeout is not armed.
ExecuteUntimed(c, started) ==
  /\ pc[c] = "detecting"
  /\ running[key[c]] = None
  /\ running' = [running EXCEPT ![key[c]] = c]
  /\ owner' = [owner EXCEPT ![c] = c]
  /\ pc' = [pc EXCEPT ![c] = "executing"]
  /\ promise' = [promise EXCEPT ![c] = "pending"]
  /\ child' = [child EXCEPT ![c] = started]
  /\ controllers' = controllers \union {c}
  /\ abortQueued' = IF c \in cancelled THEN abortQueued \union {c}
                                       ELSE abortQueued
  /\ UNCHANGED <<key, outcome, timer, aborted, cancelled>>

\* Nothing is registered: executeCommand, then runningCommands.set, with no
\* await between.  spawn(2) fails later with an 'error' event ("unborn"), or
\* the process starts.
Execute(c, started) ==
  /\ pc[c] = "detecting"
  /\ running[key[c]] = None
  /\ running' = [running EXCEPT ![key[c]] = c]
  /\ owner' = [owner EXCEPT ![c] = c]
  /\ pc' = [pc EXCEPT ![c] = "executing"]
  /\ promise' = [promise EXCEPT ![c] = "pending"]
  /\ child' = [child EXCEPT ![c] = started]
  /\ timer' = timer \union {c}
  /\ controllers' = controllers \union {c}
  /\ abortQueued' = IF c \in cancelled THEN abortQueued \union {c}
                                       ELSE abortQueued
  /\ UNCHANGED <<key, outcome, aborted, cancelled>>

\* spawn itself throws (an argument list that is too long): the promise
\* executor rejects after controllers.add and before the timer is armed.
ExecuteThrows(c) ==
  /\ pc[c] = "detecting"
  /\ running[key[c]] = None
  /\ running' = [running EXCEPT ![key[c]] = c]
  /\ owner' = [owner EXCEPT ![c] = c]
  /\ pc' = [pc EXCEPT ![c] = "executing"]
  /\ promise' = [promise EXCEPT ![c] = "spawn-error"]
  /\ controllers' = controllers \union {c}
  /\ UNCHANGED <<key, outcome, child, timer, aborted, cancelled, abortQueued>>

\* The continuation of "await this.detector.detect(true)".
Detected(c) ==
  \/ AskUser(c)
  \/ Join(c)
  \/ \E started \in {"alive", "unborn"} : Execute(c, started)
  \/ ExecuteThrows(c)

\* What awaiting a settled promise gives a call: the shared rejection, or the
\* shared output passed through the call's own parseOutput, which may throw.
Results(p) == IF p = "resolved" THEN {"ok", "parse-error"} ELSE {p}

\* "await next" continues, then the finally block deletes the key.
OwnerReturns(c, result) ==
  /\ pc[c] = "executing"
  /\ promise[c] \notin {"none", "pending"}
  /\ result \in Results(promise[c])
  /\ Return(c, result)
  /\ running' = [running EXCEPT ![key[c]] = None]
  /\ UNCHANGED <<key, owner, execVars, cancelled>>

\* "await existing" continues; its reaction was queued after the owner's.
JoinerReturns(c, result) ==
  /\ pc[c] = "joined"
  /\ pc[owner[c]] = "returned"
  /\ result \in Results(promise[owner[c]])
  /\ Return(c, result)
  /\ UNCHANGED <<key, owner, running, execVars, cancelled>>

-----------------------------------------------------------------------------
(***************************************************************************)
(* The execution: settling, aborting, the child process.                   *)
(***************************************************************************)

\* finish() for the executions in S: clear the timer, drop the controller,
\* settle the promise.  A promise settles once.
Finish(S, settled) ==
  /\ timer' = timer \ S
  /\ controllers' = controllers \ S
  /\ promise' = [c \in Calls |->
                   IF c \in S /\ promise[c] = "pending" THEN settled
                                                        ELSE promise[c]]

\* The composed signal of an execution fires at most once, and not at all
\* through a signal that was already aborted when the child was spawned.
SignalArmed(c) == c \notin aborted /\ c \notin cancelled /\ c \notin abortQueued

\* Node kills the child of a firing signal and, when the kill reached a live
\* process, emits 'error' with the signal's reason at once.
Killable(S) == {c \in S : child[c] = "alive"}

Kill(S) ==
  child' = [c \in Calls |-> IF c \in Killable(S) THEN "killed" ELSE child[c]]

\* Mutant of Cancel: the signal of a call that joined reaches the process, too.
CancelShared(c) ==
  /\ pc[c] \in {"detecting", "asking", "executing", "joined"}
  /\ c \notin cancelled
  /\ cancelled' = cancelled \union {c}
  /\ LET fired == {d \in Calls : pc[d] = "executing" /\ owner[c] = d /\ SignalArmed(d)}
     IN  Kill(fired) /\ Finish(Killable(fired), "cancelled")
  /\ UNCHANGED <<callVars, aborted, abortQueued>>

\* The user cancels the progress notification of call c.  Only the signal of
\* the call that executes is attached to a child process.
Cancel(c) ==
  /\ pc[c] \in {"detecting", "asking", "executing", "joined"}
  /\ c \notin cancelled
  /\ cancelled' = cancelled \union {c}
  /\ LET fired == {d \in {c} : pc[d] = "executing" /\ SignalArmed(d)}
     IN  Kill(fired) /\ Finish(Killable(fired), "cancelled")
  /\ UNCHANGED <<callVars, aborted, abortQueued>>

\* The abort listener of an already aborted signal runs on the next tick.
QueuedAbort(c) ==
  /\ c \in abortQueued
  /\ abortQueued' = abortQueued \ {c}
  /\ Kill({c})
  /\ Finish(Killable({c}), "cancelled")
  /\ UNCHANGED <<callVars, aborted, cancelled>>

\* Mutant of Timeout: the promise is rejected and the process left running.
TimeoutWithoutKill(c) ==
  /\ c \in timer
  /\ aborted' = aborted \union {c}
  /\ LET fired == {d \in {c} : SignalArmed(d)}
     IN  /\ controllers' = controllers \ Killable(fired)
         /\ promise' = [promise EXCEPT
                          ![c] = IF c \in Killable(fired) THEN "timeout" ELSE @]
  /\ timer' = timer \ {c}
  /\ UNCHANGED <<callVars, child, cancelled, abortQueued>>

\* CLI_TIMEOUT_MS after the spawn.
Timeout(c) ==
  /\ c \in timer
  /\ aborted' = aborted \union {c}
  /\ LET fired == {d \in {c} : SignalArmed(d)}
     IN  /\ Kill(fired)
         /\ controllers' = controllers \ Killable(fired)
         /\ promise' = [promise EXCEPT
                          ![c] = IF c \in Killable(fired) THEN "timeout" ELSE @]
  /\ timer' = timer \ {c}
  /\ UNCHANGED <<callVars, cancelled, abortQueued>>

\* cancelAll(): abort every controller, then clear the set.
CancelAll ==
  /\ controllers # {}
  /\ aborted' = aborted \union controllers
  /\ LET fired == {c \in controllers : SignalArmed(c)}
     IN  /\ Kill(fired)
         /\ timer' = timer \ Killable(fired)
         /\ promise' = [c \in Calls |-> IF c \in Killable(fired)
                                          THEN "cancelled" ELSE promise[c]]
  /\ controllers' = {}
  /\ UNCHANGED <<callVars, cancelled, abortQueued>>

\* 'error' event of a process that could not be started.
SpawnFails(c) ==
  /\ child[c] = "unborn"
  /\ child' = [child EXCEPT ![c] = "closed"]
  /\ Finish({c}, "spawn-error")
  /\ UNCHANGED <<callVars, aborted, cancelled, abortQueued>>

\* The process ends.  Its standard streams are still to be drained.
ChildExits(c, how) ==
  /\ \/ child[c] = "alive" /\ how \in {"exited-ok", "exited-bad"}
     \/ child[c] = "killed" /\ how = "exited-bad"
  /\ child' = [child EXCEPT ![c] = how]
  /\ UNCHANGED <<callVars, promise, timer, controllers, aborted, cancelled,
                 abortQueued>>

\* 'close' event: resolve, or reject with CliExitError.
ChildCloses(c) ==
  /\ child[c] \in {"exited-ok", "exited-bad"}
  /\ child' = [child EXCEPT ![c] = "closed"]
  /\ Finish({c}, IF child[c] = "exited-ok" THEN "resolved" ELSE "exit-code")
  /\ UNCHANGED <<callVars, aborted, cancelled, abortQueued>>

-----------------------------------------------------------------------------
Step(c) ==
  \/ RejectOptions(c)
  \/ Start(c)
  \/ Detected(c)
  \/ CliMissing(c)
  \/ \E result \in Outcomes : OwnerReturns(c, result)
  \/ \E result \in Outcomes : JoinerReturns(c, result)
  \/ Cancel(c)
  \/ QueuedAbort(c)
  \/ Timeout(c)
  \/ SpawnFails(c)
  \/ \E how \in {"exited-ok", "exited-bad"} : ChildExits(c, how)
  \/ ChildCloses(c)

Next == CancelAll \/ \E c \in Calls : Step(c)

\* The runtime runs every queued callback and every due timer, and detection
\* ends.  Nothing makes a kicad-cli process end by itself; once it has ended
\* its streams are drained.  Users and cancelAll are not fair.
Fairness ==
  \A c \in Calls :
    /\ WF_vars(Detected(c))
    /\ WF_vars(\E result \in Outcomes : OwnerReturns(c, result))
    /\ WF_vars(\E result \in Outcomes : JoinerReturns(c, result))
    /\ WF_vars(QueuedAbort(c))
    /\ WF_vars(Timeout(c))
    /\ WF_vars(SpawnFails(c))
    /\ WF_vars(ChildCloses(c))

Spec == Init /\ [][Next]_vars

-----------------------------------------------------------------------------
(***************************************************************************)
(* Properties.                                                             *)
(***************************************************************************)

\* The entry of a key is exactly the call that executes it: two calls of one
\* key never execute at once, and the delete in run()'s finally block removes
\* the entry of its own execution, never one that a later call registered.
RegisteredIsExecuting ==
  \A k \in Keys, c \in Calls :
    running[k] = c <=> (pc[c] = "executing" /\ key[c] = k)

\* What ties an execution's process, promise, timer, controller and signal
\* together: nothing exists before it starts, only a settled execution may be
\* left by its call, and a live process is unsettled and can still be aborted.
ExecutionIsConsistent ==
  \A c \in Calls :
    /\ pc[c] \in {"new", "detecting"} =>
         /\ promise[c] = "none" /\ child[c] = "none"
         /\ c \notin timer \union controllers \union aborted \union abortQueued
    /\ promise[c] = "pending" => pc[c] = "executing"
    /\ pc[c] = "executing" => owner[c] = c
    /\ child[c] = "alive" =>
         /\ promise[c] = "pending"
         /\ \/ c \in abortQueued
            \/ c \in timer /\ c \in controllers /\ c \notin aborted /\ c \notin cancelled

\* A call only ever waits for an execution of its own command, and the call it
\* waits for really is executing or has just returned (no wait on a wait).
JoinsOwnCommand ==
  \A c \in Calls : pc[c] = "joined" =>
    /\ owner[c] # c
    /\ key[owner[c]] = key[c]
    /\ pc[owner[c]] \in {"executing", "returned"}
    /\ owner[owner[c]] = owner[c]

\* As long as an execution is unsettled and its process alive, something will
\* still end it: its timer is armed and cancelAll reaches it, or the abort of
\* its caller is about to run.
LiveChildIsStoppable ==
  \A c \in Calls :
    promise[c] = "pending" /\ child[c] = "alive" =>
      (c \in timer /\ c \in controllers) \/ c \in abortQueued

\* Two processes of one command are alive together only if the earlier one has
\* been told to stop: a retry after a cancel or a timeout may overlap the
\* process it replaces, nothing else may.
OneUnkilledChildPerKey ==
  \A c, d \in Calls :
    c # d /\ key[c] = key[d] /\ child[c] = "alive" => child[d] # "alive"

\* finish() and the abort paths leave no timer or controller behind for a
\* settled execution, except the controller of a spawn that threw.
NothingLeaks ==
  /\ \A c \in timer : promise[c] = "pending"
  /\ \A c \in controllers : promise[c] = "pending"
                              \/ (promise[c] = "spawn-error" /\ child[c] = "none")

\* Every variable has its type; what the calls, the map of running commands and
\* the executions say of one another is consistent; whatever runs can be stopped,
\* and whatever has settled has left nothing behind.
RunnerInv ==
  /\ TypeOK
  /\ RegisteredIsExecuting
  /\ ExecutionIsConsistent
  /\ LiveChildIsStoppable
  /\ NothingLeaks

\* A process is killed, and the calls that share it are told that it was
\* cancelled or has timed out, only by the call that executes it, its timer or
\* cancelAll: the notification of a call that joined ends it for nobody, whatever
\* was cancelled, retried and joined before.
OnlyTheOwnerCancels ==
  \A c \in Calls :
    /\ child[c] = "killed" => c \in cancelled \union aborted
    /\ outcome[c] = "cancelled" => owner[c] \in cancelled \union aborted
    /\ outcome[c] = "timeout" => owner[c] \in aborted
=============================================================================
