-------------------------- MODULE CheckServiceProofs --------------------------
(***************************************************************************)
(* Proofs about CliRunner, for any number of calls and keys, and about     *)
(* CheckService, for any number of calls, files and milliseconds.  Those   *)
(* about the runner hold whatever its keys are: none of them cites         *)
(* CheckAssumption.  They hold of a check's runs too, since every step of  *)
(* a check is a step of the runner or leaves it alone.                     *)
(***************************************************************************)
EXTENDS CheckService, TLAPS

-----------------------------------------------------------------------------
(***************************************************************************)
(* The runner.                                                             *)
(***************************************************************************)

\* TypeOK holds of the runner, whatever the calls, keys and interleaving.
THEOREM TypeCorrect == Spec => []TypeOK
<1>1. Init => TypeOK
  BY DEF Init, TypeOK, PC, Promises, ChildStates
<1>2. TypeOK /\ [Next]_vars => TypeOK'
  <2> SUFFICES ASSUME TypeOK, [Next]_vars
               PROVE  TypeOK'
    OBVIOUS
  <2> USE DEF TypeOK
  <2>1. CASE UNCHANGED vars
    BY <2>1 DEF vars, callVars, execVars
  <2>2. CASE CancelAll
    BY <2>2 DEF CancelAll, Kill, Killable, SignalArmed, callVars, Promises,
                Reasons, ChildStates
  <2>3. ASSUME NEW c \in Calls, Step(c)
        PROVE  TypeOK'
    <3>1. CASE RejectOptions(c)
      BY <3>1 DEF RejectOptions, Return, execVars, PC, Outcomes
    <3>2. CASE Start(c)
      BY <3>2 DEF Start, execVars, PC
    <3>3. CASE AskUser(c)
      BY <3>3 DEF AskUser, execVars, PC
    <3>4. CASE CliMissing(c)
      BY <3>4 DEF CliMissing, Return, execVars, PC, Outcomes
    <3>5. CASE Join(c)
      BY <3>5 DEF Join, execVars, PC
    <3>6. ASSUME NEW started \in {"alive", "unborn"}, Execute(c, started)
          PROVE  TypeOK'
      BY <3>6 DEF Execute, PC, Promises, ChildStates
    <3>7. CASE ExecuteThrows(c)
      BY <3>7 DEF ExecuteThrows, PC, Promises, Reasons
    <3>8. ASSUME NEW result \in Outcomes, OwnerReturns(c, result)
          PROVE  TypeOK'
      BY <3>8 DEF OwnerReturns, Return, execVars, PC
    <3>9. ASSUME NEW result \in Outcomes, JoinerReturns(c, result)
          PROVE  TypeOK'
      BY <3>9 DEF JoinerReturns, Return, execVars, PC
    <3>10. CASE Cancel(c)
      BY <3>10 DEF Cancel, Kill, Killable, Finish, SignalArmed, callVars,
                  Promises, Reasons, ChildStates
    <3>11. CASE QueuedAbort(c)
      BY <3>11 DEF QueuedAbort, Kill, Killable, Finish, callVars, Promises,
                   Reasons, ChildStates
    <3>12. CASE Timeout(c)
      BY <3>12 DEF Timeout, Kill, Killable, SignalArmed, callVars, Promises,
                   Reasons, ChildStates
    <3>13. CASE SpawnFails(c)
      BY <3>13 DEF SpawnFails, Finish, callVars, Promises, Reasons, ChildStates
    <3>14. ASSUME NEW how \in {"exited-ok", "exited-bad"}, ChildExits(c, how)
           PROVE  TypeOK'
      BY <3>14 DEF ChildExits, callVars, ChildStates
    <3>15. CASE ChildCloses(c)
      BY <3>15 DEF ChildCloses, Finish, callVars, Promises, Reasons, ChildStates
    <3> QED
      BY <2>3, <3>1, <3>2, <3>3, <3>4, <3>5, <3>6, <3>7, <3>8, <3>9,
         <3>10, <3>11, <3>12, <3>13, <3>14, <3>15 DEF Step, Detected
  <2> QED
    BY <2>1, <2>2, <2>3 DEF Next
<1> QED
  BY <1>1, <1>2, PTL DEF Spec

\* The registered execution of a key is the one call executing it: the map is
\* exact for any number of calls and keys.
THEOREM RegisteredInvariant == Spec => []RegisteredIsExecuting
<1>1. Init => RegisteredIsExecuting
  BY CallsAssumption DEF Init, RegisteredIsExecuting
<1>2. TypeOK /\ RegisteredIsExecuting /\ [Next]_vars => RegisteredIsExecuting'
  <2> SUFFICES ASSUME TypeOK, RegisteredIsExecuting, [Next]_vars
               PROVE  RegisteredIsExecuting'
    OBVIOUS
  <2> USE CallsAssumption DEF TypeOK, RegisteredIsExecuting
  <2>1. CASE UNCHANGED vars
    BY <2>1 DEF vars, callVars, execVars
  <2>2. CASE CancelAll
    BY <2>2 DEF CancelAll, Kill, Killable, SignalArmed, callVars
  <2>3. ASSUME NEW c \in Calls, Step(c)
        PROVE  RegisteredIsExecuting'
    <3>1. CASE RejectOptions(c)
      BY <3>1 DEF RejectOptions, Return, execVars
    <3>2. CASE Start(c)
      BY <3>2 DEF Start, execVars
    <3>3. CASE AskUser(c)
      BY <3>3 DEF AskUser, execVars
    <3>4. CASE CliMissing(c)
      BY <3>4 DEF CliMissing, Return, execVars
    <3>5. CASE Join(c)
      BY <3>5 DEF Join, execVars
    <3>6. ASSUME NEW started \in {"alive", "unborn"}, Execute(c, started)
          PROVE  RegisteredIsExecuting'
      BY <3>6 DEF Execute
    <3>7. CASE ExecuteThrows(c)
      BY <3>7 DEF ExecuteThrows
    <3>8. ASSUME NEW result \in Outcomes, OwnerReturns(c, result)
          PROVE  RegisteredIsExecuting'
      BY <3>8 DEF OwnerReturns, Return, execVars
    <3>9. ASSUME NEW result \in Outcomes, JoinerReturns(c, result)
          PROVE  RegisteredIsExecuting'
      BY <3>9 DEF JoinerReturns, Return, execVars
    <3>10. CASE Cancel(c)
      BY <3>10 DEF Cancel, Kill, Killable, Finish, SignalArmed, callVars
    <3>11. CASE QueuedAbort(c)
      BY <3>11 DEF QueuedAbort, Kill, Killable, Finish, callVars
    <3>12. CASE Timeout(c)
      BY <3>12 DEF Timeout, Kill, Killable, SignalArmed, callVars
    <3>13. CASE SpawnFails(c)
      BY <3>13 DEF SpawnFails, Finish, callVars
    <3>14. ASSUME NEW how \in {"exited-ok", "exited-bad"}, ChildExits(c, how)
           PROVE  RegisteredIsExecuting'
      BY <3>14 DEF ChildExits, callVars
    <3>15. CASE ChildCloses(c)
      BY <3>15 DEF ChildCloses, Finish, callVars
    <3> QED
      BY <2>3, <3>1, <3>2, <3>3, <3>4, <3>5, <3>6, <3>7, <3>8, <3>9,
         <3>10, <3>11, <3>12, <3>13, <3>14, <3>15 DEF Step, Detected
  <2> QED
    BY <2>1, <2>2, <2>3 DEF Next
<1> QED
  BY <1>1, <1>2, TypeCorrect, PTL DEF Spec

\* A live process is always unsettled and abortable, and only executing calls
\* have unsettled promises.
THEOREM ExecutionInvariant == Spec => []ExecutionIsConsistent
<1>1. Init => ExecutionIsConsistent
  BY DEF Init, ExecutionIsConsistent
<1>2. TypeOK /\ ExecutionIsConsistent /\ [Next]_vars => ExecutionIsConsistent'
  <2> SUFFICES ASSUME TypeOK, ExecutionIsConsistent, [Next]_vars
               PROVE  ExecutionIsConsistent'
    OBVIOUS
  <2> USE DEF TypeOK, ExecutionIsConsistent
  <2>1. CASE UNCHANGED vars
    BY <2>1 DEF vars, callVars, execVars
  <2>2. CASE CancelAll
    BY <2>2 DEF CancelAll, Kill, Killable, SignalArmed, callVars
  <2>3. ASSUME NEW c \in Calls, Step(c)
        PROVE  ExecutionIsConsistent'
    <3>1. CASE RejectOptions(c)
      BY <3>1 DEF RejectOptions, Return, execVars
    <3>2. CASE Start(c)
      BY <3>2 DEF Start, execVars
    <3>3. CASE AskUser(c)
      BY <3>3 DEF AskUser, execVars
    <3>4. CASE CliMissing(c)
      BY <3>4 DEF CliMissing, Return, execVars
    <3>5. CASE Join(c)
      BY <3>5 DEF Join, execVars
    <3>6. ASSUME NEW started \in {"alive", "unborn"}, Execute(c, started)
          PROVE  ExecutionIsConsistent'
      BY <3>6 DEF Execute
    <3>7. CASE ExecuteThrows(c)
      BY <3>7 DEF ExecuteThrows
    <3>8. ASSUME NEW result \in Outcomes, OwnerReturns(c, result)
          PROVE  ExecutionIsConsistent'
      BY <3>8 DEF OwnerReturns, Return, execVars
    <3>9. ASSUME NEW result \in Outcomes, JoinerReturns(c, result)
          PROVE  ExecutionIsConsistent'
      BY <3>9 DEF JoinerReturns, Return, execVars
    <3>10. CASE Cancel(c)
      BY <3>10 DEF Cancel, Kill, Killable, Finish, SignalArmed, callVars
    <3>11. CASE QueuedAbort(c)
      BY <3>11 DEF QueuedAbort, Kill, Killable, Finish, callVars
    <3>12. CASE Timeout(c)
      BY <3>12 DEF Timeout, Kill, Killable, SignalArmed, callVars
    <3>13. CASE SpawnFails(c)
      BY <3>13 DEF SpawnFails, Finish, callVars
    <3>14. ASSUME NEW how \in {"exited-ok", "exited-bad"}, ChildExits(c, how)
           PROVE  ExecutionIsConsistent'
      BY <3>14 DEF ChildExits, callVars
    <3>15. CASE ChildCloses(c)
      BY <3>15 DEF ChildCloses, Finish, callVars
    <3> QED
      BY <2>3, <3>1, <3>2, <3>3, <3>4, <3>5, <3>6, <3>7, <3>8, <3>9,
         <3>10, <3>11, <3>12, <3>13, <3>14, <3>15 DEF Step, Detected
  <2> QED
    BY <2>1, <2>2, <2>3 DEF Next
<1> QED
  BY <1>1, <1>2, TypeCorrect, PTL DEF Spec

\* A joined call waits for an execution of its own command.
THEOREM JoinInvariant == Spec => []JoinsOwnCommand
<1>1. Init => JoinsOwnCommand
  BY CallsAssumption DEF Init, JoinsOwnCommand
<1>2. TypeOK /\ RegisteredIsExecuting /\ ExecutionIsConsistent /\ JoinsOwnCommand /\ [Next]_vars => JoinsOwnCommand'
  <2> SUFFICES ASSUME TypeOK, RegisteredIsExecuting, ExecutionIsConsistent, JoinsOwnCommand, [Next]_vars
               PROVE  JoinsOwnCommand'
    OBVIOUS
  <2> USE CallsAssumption DEF TypeOK, RegisteredIsExecuting,
          ExecutionIsConsistent, JoinsOwnCommand
  <2>1. CASE UNCHANGED vars
    BY <2>1 DEF vars, callVars, execVars
  <2>2. CASE CancelAll
    BY <2>2 DEF CancelAll, Kill, Killable, SignalArmed, callVars
  <2>3. ASSUME NEW c \in Calls, Step(c)
        PROVE  JoinsOwnCommand'
    <3>1. CASE RejectOptions(c)
      BY <3>1 DEF RejectOptions, Return, execVars
    <3>2. CASE Start(c)
      BY <3>2 DEF Start, execVars
    <3>3. CASE AskUser(c)
      BY <3>3 DEF AskUser, execVars
    <3>4. CASE CliMissing(c)
      BY <3>4 DEF CliMissing, Return, execVars
    <3>5. CASE Join(c)
      BY <3>5 DEF Join, execVars
    <3>6. ASSUME NEW started \in {"alive", "unborn"}, Execute(c, started)
          PROVE  JoinsOwnCommand'
      BY <3>6 DEF Execute
    <3>7. CASE ExecuteThrows(c)
      BY <3>7 DEF ExecuteThrows
    <3>8. ASSUME NEW result \in Outcomes, OwnerReturns(c, result)
          PROVE  JoinsOwnCommand'
      BY <3>8 DEF OwnerReturns, Return, execVars
    <3>9. ASSUME NEW result \in Outcomes, JoinerReturns(c, result)
          PROVE  JoinsOwnCommand'
      BY <3>9 DEF JoinerReturns, Return, execVars
    <3>10. CASE Cancel(c)
      BY <3>10 DEF Cancel, Kill, Killable, Finish, SignalArmed, callVars
    <3>11. CASE QueuedAbort(c)
      BY <3>11 DEF QueuedAbort, Kill, Killable, Finish, callVars
    <3>12. CASE Timeout(c)
      BY <3>12 DEF Timeout, Kill, Killable, SignalArmed, callVars
    <3>13. CASE SpawnFails(c)
      BY <3>13 DEF SpawnFails, Finish, callVars
    <3>14. ASSUME NEW how \in {"exited-ok", "exited-bad"}, ChildExits(c, how)
           PROVE  JoinsOwnCommand'
      BY <3>14 DEF ChildExits, callVars
    <3>15. CASE ChildCloses(c)
      BY <3>15 DEF ChildCloses, Finish, callVars
    <3> QED
      BY <2>3, <3>1, <3>2, <3>3, <3>4, <3>5, <3>6, <3>7, <3>8, <3>9,
         <3>10, <3>11, <3>12, <3>13, <3>14, <3>15 DEF Step, Detected
  <2> QED
    BY <2>1, <2>2, <2>3 DEF Next
<1> QED
  BY <1>1, <1>2, TypeCorrect, RegisteredInvariant, ExecutionInvariant, PTL DEF Spec

\* Settled executions leave no timer or controller behind.
THEOREM NoLeakInvariant == Spec => []NothingLeaks
<1>1. Init => NothingLeaks
  BY DEF Init, NothingLeaks
<1>2. TypeOK /\ ExecutionIsConsistent /\ NothingLeaks /\ [Next]_vars => NothingLeaks'
  <2> SUFFICES ASSUME TypeOK, ExecutionIsConsistent, NothingLeaks, [Next]_vars
               PROVE  NothingLeaks'
    OBVIOUS
  <2> USE DEF TypeOK, ExecutionIsConsistent, NothingLeaks
  <2>1. CASE UNCHANGED vars
    BY <2>1 DEF vars, callVars, execVars
  <2>2. CASE CancelAll
    BY <2>2 DEF CancelAll, Kill, Killable, SignalArmed, callVars
  <2>3. ASSUME NEW c \in Calls, Step(c)
        PROVE  NothingLeaks'
    <3>1. CASE RejectOptions(c)
      BY <3>1 DEF RejectOptions, Return, execVars
    <3>2. CASE Start(c)
      BY <3>2 DEF Start, execVars
    <3>3. CASE AskUser(c)
      BY <3>3 DEF AskUser, execVars
    <3>4. CASE CliMissing(c)
      BY <3>4 DEF CliMissing, Return, execVars
    <3>5. CASE Join(c)
      BY <3>5 DEF Join, execVars
    <3>6. ASSUME NEW started \in {"alive", "unborn"}, Execute(c, started)
          PROVE  NothingLeaks'
      BY <3>6 DEF Execute
    <3>7. CASE ExecuteThrows(c)
      BY <3>7 DEF ExecuteThrows
    <3>8. ASSUME NEW result \in Outcomes, OwnerReturns(c, result)
          PROVE  NothingLeaks'
      BY <3>8 DEF OwnerReturns, Return, execVars
    <3>9. ASSUME NEW result \in Outcomes, JoinerReturns(c, result)
          PROVE  NothingLeaks'
      BY <3>9 DEF JoinerReturns, Return, execVars
    <3>10. CASE Cancel(c)
      BY <3>10 DEF Cancel, Kill, Killable, Finish, SignalArmed, callVars
    <3>11. CASE QueuedAbort(c)
      BY <3>11 DEF QueuedAbort, Kill, Killable, Finish, callVars
    <3>12. CASE Timeout(c)
      BY <3>12 DEF Timeout, Kill, Killable, SignalArmed, callVars
    <3>13. CASE SpawnFails(c)
      BY <3>13 DEF SpawnFails, Finish, callVars
    <3>14. ASSUME NEW how \in {"exited-ok", "exited-bad"}, ChildExits(c, how)
           PROVE  NothingLeaks'
      BY <3>14 DEF ChildExits, callVars
    <3>15. CASE ChildCloses(c)
      BY <3>15 DEF ChildCloses, Finish, callVars
    <3> QED
      BY <2>3, <3>1, <3>2, <3>3, <3>4, <3>5, <3>6, <3>7, <3>8, <3>9,
         <3>10, <3>11, <3>12, <3>13, <3>14, <3>15 DEF Step, Detected
  <2> QED
    BY <2>1, <2>2, <2>3 DEF Next
<1> QED
  BY <1>1, <1>2, TypeCorrect, ExecutionInvariant, PTL DEF Spec

\* Something will still end every live, unsettled execution.
THEOREM Stoppable == Spec => []LiveChildIsStoppable
<1>1. ExecutionIsConsistent => LiveChildIsStoppable
  BY DEF ExecutionIsConsistent, LiveChildIsStoppable
<1> QED
  BY <1>1, ExecutionInvariant, PTL

\* No two processes of one command are alive unless one was told to stop: both
\* would be executing calls of the key, and only one call is registered for it.
THEOREM OneUnkilledChild == Spec => []OneUnkilledChildPerKey
<1>1. TypeOK /\ RegisteredIsExecuting /\ ExecutionIsConsistent
        => OneUnkilledChildPerKey
  <2> SUFFICES ASSUME TypeOK, RegisteredIsExecuting, ExecutionIsConsistent,
                      NEW c \in Calls, NEW d \in Calls,
                      key[c] = key[d], child[c] = "alive", child[d] = "alive"
               PROVE  c = d
    BY DEF OneUnkilledChildPerKey
  <2>1. pc[c] = "executing" /\ pc[d] = "executing"
    BY DEF ExecutionIsConsistent
  <2>2. key[c] \in Keys
    BY DEF TypeOK
  <2>3. running[key[c]] = c /\ running[key[c]] = d
    BY <2>1, <2>2 DEF RegisteredIsExecuting
  <2> QED
    BY <2>3
<1> QED
  BY <1>1, TypeCorrect, RegisteredInvariant, ExecutionInvariant, PTL

\* What is behind a cancellation or a timeout, for every step that can bring one
\* about: a signal that was aborted, by the call itself, its timer or cancelAll;
\* and whoever was told has the outcome of the execution it awaited.
CancelHasACause ==
  \A c \in Calls :
    /\ pc[c] # "returned" => outcome[c] = None
    /\ pc[c] \in {"joined", "executing"} => owner[c] \in Calls
    /\ c \in abortQueued => c \in cancelled
    /\ child[c] = "killed" => c \in cancelled \union aborted
    /\ promise[c] = "cancelled" => c \in cancelled \union aborted
    /\ promise[c] = "timeout" => c \in aborted
    /\ outcome[c] \in {"cancelled", "timeout"} =>
         owner[c] \in Calls /\ promise[owner[c]] = outcome[c]

LEMMA CancelHasACauseStep ==
  ASSUME TypeOK, ExecutionIsConsistent, JoinsOwnCommand, CancelHasACause,
         NEW c \in Calls, Step(c)
  PROVE  CancelHasACause'
<1> USE CallsAssumption, OutcomesAssumption
    DEF TypeOK, ExecutionIsConsistent, CancelHasACause, Outcomes, Reasons
<1>1. CASE RejectOptions(c)
  BY <1>1 DEF RejectOptions, Return, execVars
<1>2. CASE Start(c)
  BY <1>2 DEF Start, execVars
<1>3. CASE AskUser(c)
  BY <1>3 DEF AskUser, execVars
<1>4. CASE CliMissing(c)
  BY <1>4 DEF CliMissing, Return, execVars
<1>5. CASE Join(c)
  BY <1>5 DEF Join, execVars
<1>6. ASSUME NEW started \in {"alive", "unborn"}, Execute(c, started)
      PROVE  CancelHasACause'
  BY <1>6 DEF Execute
<1>7. CASE ExecuteThrows(c)
  BY <1>7 DEF ExecuteThrows
<1>8. ASSUME NEW result \in Outcomes, OwnerReturns(c, result)
      PROVE  CancelHasACause'
  BY <1>8 DEF OwnerReturns, Return, Results, Outcomes, Promises, Reasons, execVars
<1>9. ASSUME NEW result \in Outcomes, JoinerReturns(c, result)
      PROVE  CancelHasACause'
  BY <1>9 DEF JoinerReturns, Return, Results, Outcomes, Promises, Reasons, execVars
<1>10. CASE Cancel(c)
  BY <1>10 DEF Cancel, Kill, Killable, Finish, SignalArmed, callVars
<1>11. CASE QueuedAbort(c)
  BY <1>11 DEF QueuedAbort, Kill, Killable, Finish, callVars
<1>12. CASE Timeout(c)
  BY <1>12 DEF Timeout, Kill, Killable, SignalArmed, callVars
<1>13. CASE SpawnFails(c)
  BY <1>13 DEF SpawnFails, Finish, callVars
<1>14. ASSUME NEW how \in {"exited-ok", "exited-bad"}, ChildExits(c, how)
       PROVE  CancelHasACause'
  BY <1>14 DEF ChildExits, callVars
<1>15. CASE ChildCloses(c)
  BY <1>15 DEF ChildCloses, Finish, callVars
<1> QED
  BY <1>1, <1>2, <1>3, <1>4, <1>5, <1>6, <1>7, <1>8, <1>9, <1>10, <1>11, <1>12, <1>13, <1>14, <1>15
     DEF Step, Detected

\* Whoever is told of a cancellation or a timeout awaited an execution that its
\* own caller, its timer or cancelAll has ended, for any number of calls.
THEOREM OwnersCancel == Spec => []OnlyTheOwnerCancels
<1>1. Init => CancelHasACause
  BY CallsAssumption, OutcomesAssumption DEF Init, CancelHasACause, Outcomes, Reasons
<1>2. TypeOK /\ ExecutionIsConsistent /\ JoinsOwnCommand /\ CancelHasACause /\ [Next]_vars
        => CancelHasACause'
  <2> SUFFICES ASSUME TypeOK, ExecutionIsConsistent, JoinsOwnCommand, CancelHasACause,
                      [Next]_vars
               PROVE  CancelHasACause'
    OBVIOUS
  <2>1. CASE UNCHANGED vars
    BY <2>1 DEF vars, callVars, execVars, CancelHasACause
  <2>2. CASE CancelAll
    BY <2>2 DEF TypeOK, ExecutionIsConsistent, CancelHasACause, CancelAll, Kill, Killable,
                SignalArmed, callVars
  <2>3. ASSUME NEW c \in Calls, Step(c)
        PROVE  CancelHasACause'
    BY <2>3, CancelHasACauseStep
  <2> QED
    BY <2>1, <2>2, <2>3 DEF Next
<1>3. CancelHasACause => OnlyTheOwnerCancels
  BY DEF CancelHasACause, OnlyTheOwnerCancels
<1> QED
  BY <1>1, <1>2, <1>3, TypeCorrect, ExecutionInvariant, JoinInvariant, PTL DEF Spec

\* What the runs check at once, for any number of calls and keys: types,
\* registration, executions and stoppable processes are consistent with one
\* another, and nothing of a settled execution is left.
THEOREM RunnerInvariant == Spec => []RunnerInv
BY TypeCorrect, RegisteredInvariant, ExecutionInvariant, Stoppable, NoLeakInvariant, PTL
   DEF RunnerInv

-----------------------------------------------------------------------------
(***************************************************************************)
(* The checks.                                                             *)
(***************************************************************************)

\* What a call has learned is what became of the execution it awaited, which
\* was of its own command; and only a process that ended well resolves one.
OutcomeIsOfExecution ==
  \A c \in Calls :
    /\ pc[c] # "returned" => outcome[c] = None
    /\ child[c] # "none" => owner[c] = c
    /\ pc[c] \in {"joined", "executing"} => owner[c] \in Calls
    /\ promise[c] = "resolved" => child[c] = "closed"
    /\ outcome[c] = "ok" => /\ owner[c] \in Calls
                            /\ promise[owner[c]] = "resolved"
                            /\ key[owner[c]] = key[c]

\* How the process of a call, its report and its verdict are tied together.
CheckIsConsistent ==
  \A c \in Calls :
    /\ verdict[c] # None => pc[c] = "returned"
    /\ child[c] = "exited-ok" => c \in wrote
    /\ promise[c] = "resolved" => c \in wrote

\* A report that nobody else could have touched is there until its check reads it.
OwnReportIsThere ==
  \A c \in wrote : Unshared(c) /\ verdict[c] = None => report[key[c].tick] = key[c].file

-----------------------------------------------------------------------------
LEMMA OutcomeStep ==
  ASSUME TypeOK, ExecutionIsConsistent, RegisteredIsExecuting, JoinsOwnCommand,
         OutcomeIsOfExecution, NEW c \in Calls, Step(c)
  PROVE  OutcomeIsOfExecution'
<1> USE CallsAssumption DEF TypeOK, ExecutionIsConsistent, RegisteredIsExecuting,
        JoinsOwnCommand, OutcomeIsOfExecution
<1>0. "ok" # None
  BY OutcomesAssumption DEF Outcomes
<1>1. CASE RejectOptions(c)
  BY <1>0, <1>1 DEF RejectOptions, Return, execVars
<1>2. CASE Start(c)
  BY <1>0, <1>2 DEF Start, execVars
<1>3. CASE AskUser(c)
  BY <1>0, <1>3 DEF AskUser, execVars
<1>4. CASE CliMissing(c)
  BY <1>0, <1>4 DEF CliMissing, Return, execVars
<1>5. CASE Join(c)
  <2>1. /\ owner'[c] \in Calls
        /\ pc[c] = "detecting" /\ pc'[c] = "joined"
        /\ \A d \in Calls \ {c} : owner'[d] = owner[d] /\ pc'[d] = pc[d]
    BY <1>5 DEF Join
  <2>2. UNCHANGED <<key, outcome, promise, child>>
    BY <1>5 DEF Join, execVars
  <2>3. outcome[c] # "ok" /\ outcome[c] = None /\ child[c] = "none"
    BY <1>0, <2>1
  <2>4. ASSUME NEW d \in Calls
        PROVE  /\ pc'[d] # "returned" => outcome'[d] = None
               /\ child'[d] # "none" => owner'[d] = d
               /\ pc'[d] \in {"joined", "executing"} => owner'[d] \in Calls
               /\ promise'[d] = "resolved" => child'[d] = "closed"
               /\ outcome'[d] = "ok" => /\ owner'[d] \in Calls
                                        /\ promise'[owner'[d]] = "resolved"
                                        /\ key'[owner'[d]] = key'[d]
    <3>1. CASE d = c
      BY <2>1, <2>2, <2>3, <3>1
    <3>2. CASE d # c
      BY <2>1, <2>2, <3>2
    <3> QED
      BY <3>1, <3>2
  <2> QED
    BY <2>4
<1>6. ASSUME NEW started \in {"alive", "unborn"}, Execute(c, started)
      PROVE  OutcomeIsOfExecution'
  BY <1>0, <1>6 DEF Execute
<1>7. CASE ExecuteThrows(c)
  BY <1>0, <1>7 DEF ExecuteThrows
<1>8. ASSUME NEW result \in Outcomes, OwnerReturns(c, result)
      PROVE  OutcomeIsOfExecution'
  BY <1>0, <1>8 DEF OwnerReturns, Return, Results, Outcomes, Promises, Reasons, execVars
<1>9. ASSUME NEW result \in Outcomes, JoinerReturns(c, result)
      PROVE  OutcomeIsOfExecution'
  BY <1>0, <1>9 DEF JoinerReturns, Return, Results, Outcomes, Promises, Reasons, execVars
<1>10. CASE Cancel(c)
  BY <1>0, <1>10 DEF Cancel, Kill, Killable, Finish, SignalArmed, callVars
<1>11. CASE QueuedAbort(c)
  BY <1>0, <1>11 DEF QueuedAbort, Kill, Killable, Finish, callVars
<1>12. CASE Timeout(c)
  BY <1>0, <1>12 DEF Timeout, Kill, Killable, SignalArmed, callVars
<1>13. CASE SpawnFails(c)
  BY <1>0, <1>13 DEF SpawnFails, Finish, callVars
<1>14. ASSUME NEW how \in {"exited-ok", "exited-bad"}, ChildExits(c, how)
      PROVE  OutcomeIsOfExecution'
  BY <1>0, <1>14 DEF ChildExits, callVars
<1>15. CASE ChildCloses(c)
  BY <1>0, <1>15 DEF ChildCloses, Finish, callVars
<1> QED
  BY <1>1, <1>2, <1>3, <1>4, <1>5, <1>6, <1>7, <1>8, <1>9, <1>10, <1>11, <1>12, <1>13, <1>14, <1>15
     DEF Step, Detected

\* No step of the runner takes back what a call has learned, and a promise is
\* resolved only by a process that has exited well.
LEMMA RunnerStepKeeps ==
  ASSUME TypeOK, Next
  PROVE  /\ key' = key
         /\ \A c \in Calls : pc[c] = "returned" => pc'[c] = "returned" /\ outcome'[c] = outcome[c]
         /\ \A c \in Calls : promise'[c] = "resolved"
                                => promise[c] = "resolved" \/ child[c] = "exited-ok"
<1> DEFINE Kept == /\ key' = key
                   /\ \A d \in Calls : pc[d] = "returned" => pc'[d] = "returned" /\ outcome'[d] = outcome[d]
                   /\ \A d \in Calls : promise'[d] = "resolved"
                                          => promise[d] = "resolved" \/ child[d] = "exited-ok"
<1>1. CASE CancelAll
  BY <1>1 DEF TypeOK, CancelAll, Kill, Killable, SignalArmed, callVars
<1>2. ASSUME NEW c \in Calls, Step(c)
      PROVE  Kept
  <2> USE DEF TypeOK
  <2>1. CASE RejectOptions(c)
    BY <2>1 DEF RejectOptions, Return, execVars
  <2>2. CASE Start(c)
    BY <2>2 DEF Start, execVars
  <2>3. CASE AskUser(c)
    BY <2>3 DEF AskUser, execVars
  <2>4. CASE CliMissing(c)
    BY <2>4 DEF CliMissing, Return, execVars
  <2>5. CASE Join(c)
    BY <2>5 DEF Join, execVars
  <2>6. ASSUME NEW started \in {"alive", "unborn"}, Execute(c, started)
        PROVE  Kept
    BY <2>6 DEF Execute
  <2>7. CASE ExecuteThrows(c)
    BY <2>7 DEF ExecuteThrows
  <2>8. ASSUME NEW result \in Outcomes, OwnerReturns(c, result)
        PROVE  Kept
    BY <2>8 DEF OwnerReturns, Return, Results, Outcomes, Promises, Reasons, execVars
  <2>9. ASSUME NEW result \in Outcomes, JoinerReturns(c, result)
        PROVE  Kept
    BY <2>9 DEF JoinerReturns, Return, Results, Outcomes, Promises, Reasons, execVars
  <2>10. CASE Cancel(c)
    BY <2>10 DEF Cancel, Kill, Killable, Finish, SignalArmed, callVars
  <2>11. CASE QueuedAbort(c)
    BY <2>11 DEF QueuedAbort, Kill, Killable, Finish, callVars
  <2>12. CASE Timeout(c)
    BY <2>12 DEF Timeout, Kill, Killable, SignalArmed, callVars
  <2>13. CASE SpawnFails(c)
    BY <2>13 DEF SpawnFails, Finish, callVars
  <2>14. ASSUME NEW how \in {"exited-ok", "exited-bad"}, ChildExits(c, how)
        PROVE  Kept
    BY <2>14 DEF ChildExits, callVars
  <2>15. CASE ChildCloses(c)
    BY <2>15 DEF ChildCloses, Finish, callVars
  <2> QED
    BY <1>2, <2>1, <2>2, <2>3, <2>4, <2>5, <2>6, <2>7, <2>8, <2>9, <2>10, <2>11, <2>12, <2>13,
       <2>14, <2>15 DEF Step, Detected
<1> QED
  BY <1>1, <1>2 DEF Next

-----------------------------------------------------------------------------
\* Every behaviour of the checks is one of the runner, and keeps its invariants.
THEOREM CheckImplementsRunner == CheckSpec => Spec
<1>1. CheckInit => Init
  BY DEF CheckInit
<1>2. [CheckNext]_allVars => [Next]_vars
  BY DEF CheckNext, RunnerStep, WriteReport, EndCheck, allVars
<1> QED
  BY <1>1, <1>2, PTL DEF CheckSpec, Spec

LEMMA RunnerFacts ==
  Spec => []OutcomeIsOfExecution
<1>1. Init => OutcomeIsOfExecution
  BY OutcomesAssumption DEF Init, OutcomeIsOfExecution, Outcomes
<1>2. TypeOK /\ ExecutionIsConsistent /\ RegisteredIsExecuting /\ JoinsOwnCommand
        /\ OutcomeIsOfExecution /\ [Next]_vars => OutcomeIsOfExecution'
  <2> SUFFICES ASSUME TypeOK, ExecutionIsConsistent, RegisteredIsExecuting, JoinsOwnCommand,
                      OutcomeIsOfExecution, [Next]_vars
               PROVE  OutcomeIsOfExecution'
    OBVIOUS
  <2>1. CASE UNCHANGED vars
    BY <2>1 DEF vars, callVars, execVars, OutcomeIsOfExecution
  <2>2. CASE CancelAll
    BY <2>2 DEF TypeOK, ExecutionIsConsistent, OutcomeIsOfExecution, CancelAll, Kill, Killable,
                SignalArmed, callVars
  <2>3. ASSUME NEW c \in Calls, Step(c)
        PROVE  OutcomeIsOfExecution'
    BY <2>3, OutcomeStep
  <2> QED
    BY <2>1, <2>2, <2>3 DEF Next
<1> QED
  BY <1>1, <1>2, TypeCorrect, ExecutionInvariant, RegisteredInvariant, JoinInvariant, PTL DEF Spec

\* What is left of a run's report, and what it was read as, for any step of the
\* checks; the runner's own invariants are those of CheckImplementsRunner.
ChecksFit == CheckTypeOK /\ CheckIsConsistent /\ OwnReportIsThere /\ ReportsAreRemoved
               /\ UnsharedCheckReportsOwnFile

LEMMA KeysAreNames ==
  ASSUME TypeOK, NEW c \in Calls
  PROVE  key[c].tick \in Ticks /\ key[c].file \in Files
BY CheckAssumption DEF TypeOK

LEMMA RunnerStepFits ==
  ASSUME TypeOK, TypeOK', ChecksFit, RunnerStep
  PROVE  ChecksFit'
<1> USE DEF ChecksFit
<1>1. /\ key' = key
      /\ \A c \in Calls : pc[c] = "returned" => pc'[c] = "returned" /\ outcome'[c] = outcome[c]
      /\ \A c \in Calls : promise'[c] = "resolved"
                             => promise[c] = "resolved" \/ child[c] = "exited-ok"
  BY RunnerStepKeeps DEF RunnerStep
<1>2. /\ UNCHANGED <<report, wrote, verdict>>
      /\ \A c \in Calls : child'[c] = "exited-ok" => c \in wrote
  BY DEF RunnerStep, checkVars
<1>3. CheckTypeOK'
  BY <1>2 DEF CheckTypeOK, Verdicts
<1>4. CheckIsConsistent'
  BY <1>1, <1>2 DEF CheckIsConsistent
<1>5. OwnReportIsThere'
  BY <1>1, <1>2 DEF OwnReportIsThere, Unshared
<1>6. ReportsAreRemoved'
  <2> SUFFICES ASSUME NEW t \in Ticks, report[t] # None
               PROVE  \E c \in wrote : key[c].tick = t /\ (verdict[c] = None \/ outcome'[c] # "ok")
    BY <1>1, <1>2 DEF ReportsAreRemoved
  <2>1. PICK c \in wrote : key[c].tick = t /\ (verdict[c] = None \/ outcome[c] # "ok")
    BY DEF ReportsAreRemoved
  <2>2. c \in Calls
    BY DEF CheckTypeOK
  <2>3. verdict[c] = None \/ outcome'[c] # "ok"
    BY <1>1, <2>1, <2>2 DEF CheckIsConsistent
  <2> QED
    BY <2>1, <2>3
<1>7. UnsharedCheckReportsOwnFile'
  BY <1>1, <1>2 DEF UnsharedCheckReportsOwnFile, Unshared, CheckIsConsistent
<1> QED
  BY <1>3, <1>4, <1>5, <1>6, <1>7

\* A process that is still there has not resolved its promise, so its check has
\* not learned that the run went well.
LEMMA WriteReportFits ==
  ASSUME TypeOK, OutcomeIsOfExecution, ChecksFit, NEW c \in Calls, WriteReport(c)
  PROVE  ChecksFit'
<1> USE DEF ChecksFit
<1>1. /\ child[c] \in {"alive", "killed"} /\ c \notin wrote
      /\ wrote' = wrote \union {c}
      /\ report' = [report EXCEPT ![key[c].tick] = key[c].file]
      /\ UNCHANGED <<key, pc, owner, outcome, running, promise, child, timer, controllers,
                     aborted, abortQueued, cancelled, verdict>>
  BY DEF WriteReport, vars, callVars, execVars
<1>2. key[c].tick \in Ticks /\ key[c].file \in Files
  BY KeysAreNames
<1>3. CheckTypeOK'
  BY <1>1, <1>2 DEF CheckTypeOK, TypeOK, Verdicts
<1>4. CheckIsConsistent'
  BY <1>1 DEF CheckIsConsistent
<1>5. OwnReportIsThere'
  BY <1>1, <1>2 DEF OwnReportIsThere, Unshared, CheckTypeOK
<1>6. outcome[c] # "ok"
  BY <1>1 DEF OutcomeIsOfExecution
<1>7. ReportsAreRemoved'
  <2> SUFFICES ASSUME NEW t \in Ticks, report'[t] # None
               PROVE  \E d \in wrote' : key[d].tick = t /\ (verdict[d] = None \/ outcome[d] # "ok")
    BY <1>1 DEF ReportsAreRemoved
  <2>1. CASE t = key[c].tick
    BY <1>1, <1>6, <2>1
  <2>2. CASE t # key[c].tick
    <3>1. report[t] # None
      BY <1>1, <2>2 DEF CheckTypeOK
    <3> QED
      BY <1>1, <3>1 DEF ReportsAreRemoved
  <2> QED
    BY <2>1, <2>2
<1>8. UnsharedCheckReportsOwnFile'
  BY <1>1 DEF UnsharedCheckReportsOwnFile, Unshared
<1> QED
  BY <1>3, <1>4, <1>5, <1>7, <1>8

\* A check that shares its millisecond with no other awaited its own execution,
\* so a run that went well has written the report that is read.
LEMMA EndCheckFits ==
  ASSUME TypeOK, OutcomeIsOfExecution, ChecksFit, NEW c \in Calls, EndCheck(c)
  PROVE  ChecksFit'
<1> USE DEF ChecksFit
<1>1. /\ pc[c] = "returned" /\ verdict[c] = None
      /\ \E v \in ReadReport(c) : verdict' = [verdict EXCEPT ![c] = v]
      /\ report' = [report EXCEPT ![key[c].tick] = None]
      /\ UNCHANGED <<key, pc, owner, outcome, running, promise, child, timer, controllers,
                     aborted, abortQueued, cancelled, wrote>>
  BY DEF EndCheck, vars, callVars, execVars
<1>2. key[c].tick \in Ticks /\ key[c].file \in Files
  BY KeysAreNames
<1>3. ReadReport(c) \subseteq Verdicts \ {None}
  BY <1>2, CheckAssumption DEF ReadReport, CheckTypeOK, Verdicts
<1>4. CheckTypeOK'
  BY <1>1, <1>2, <1>3 DEF CheckTypeOK, TypeOK, Verdicts
<1>5. CheckIsConsistent'
  BY <1>1 DEF CheckIsConsistent, CheckTypeOK
<1>6. OwnReportIsThere'
  BY <1>1, <1>2, <1>3 DEF OwnReportIsThere, Unshared, CheckTypeOK
<1>7. ReportsAreRemoved'
  <2> SUFFICES ASSUME NEW t \in Ticks, report'[t] # None
               PROVE  \E d \in wrote : key[d].tick = t /\ (verdict'[d] = None \/ outcome[d] # "ok")
    BY <1>1 DEF ReportsAreRemoved
  <2>1. t # key[c].tick /\ report[t] # None
    BY <1>1, <1>2 DEF CheckTypeOK
  <2>2. PICK d \in wrote : key[d].tick = t /\ (verdict[d] = None \/ outcome[d] # "ok")
    BY <2>1 DEF ReportsAreRemoved
  <2>3. verdict'[d] = verdict[d]
    BY <1>1, <2>1, <2>2 DEF CheckTypeOK
  <2> QED
    BY <2>2, <2>3
<1>8. Unshared(c) => ReadReport(c) \subseteq
        (IF outcome[c] = "ok" THEN {key[c].file, "unreadable"} ELSE {"error"})
  <2> SUFFICES ASSUME Unshared(c), outcome[c] = "ok"
               PROVE  ReadReport(c) \subseteq {key[c].file, "unreadable"}
    BY DEF ReadReport
  <2>1. owner[c] \in Calls /\ promise[owner[c]] = "resolved" /\ key[owner[c]] = key[c]
    BY DEF OutcomeIsOfExecution
  <2>2. owner[c] = c
    BY <2>1 DEF Unshared
  <2>3. report[key[c].tick] = key[c].file
    BY <1>1, <2>1, <2>2 DEF CheckIsConsistent, OwnReportIsThere
  <2> QED
    BY <1>2, <2>3, CheckAssumption DEF ReadReport
<1>9. UnsharedCheckReportsOwnFile'
  <2> SUFFICES ASSUME NEW d \in Calls, Unshared(d), verdict'[d] # None
               PROVE  verdict'[d] \in
                        (IF outcome[d] = "ok" THEN {key[d].file, "unreadable"} ELSE {"error"})
    BY <1>1 DEF UnsharedCheckReportsOwnFile, Unshared
  <2>1. CASE d = c
    BY <1>1, <1>8, <2>1 DEF CheckTypeOK
  <2>2. CASE d # c
    BY <1>1, <2>2 DEF CheckTypeOK, UnsharedCheckReportsOwnFile
  <2> QED
    BY <2>1, <2>2
<1> QED
  BY <1>4, <1>5, <1>6, <1>7, <1>9

LEMMA ChecksFitTogether == CheckSpec => []ChecksFit
<1>1. CheckInit => ChecksFit
  BY CheckAssumption DEF CheckInit, Init, ChecksFit, CheckTypeOK, TypeOK, Verdicts,
     CheckIsConsistent, OwnReportIsThere, ReportsAreRemoved, UnsharedCheckReportsOwnFile,
     PC, Promises, ChildStates
<1>2. TypeOK /\ TypeOK' /\ OutcomeIsOfExecution /\ ChecksFit /\ [CheckNext]_allVars => ChecksFit'
  <2> SUFFICES ASSUME TypeOK, TypeOK', OutcomeIsOfExecution, ChecksFit, [CheckNext]_allVars
               PROVE  ChecksFit'
    OBVIOUS
  <2>1. CASE UNCHANGED allVars
    BY <2>1 DEF allVars, checkVars, vars, callVars, execVars, ChecksFit, CheckTypeOK, TypeOK,
       CheckIsConsistent, OwnReportIsThere, ReportsAreRemoved, UnsharedCheckReportsOwnFile,
       Unshared
  <2>2. CASE RunnerStep
    BY <2>2, RunnerStepFits
  <2>3. ASSUME NEW c \in Calls, WriteReport(c)
        PROVE  ChecksFit'
    BY <2>3, WriteReportFits
  <2>4. ASSUME NEW c \in Calls, EndCheck(c)
        PROVE  ChecksFit'
    BY <2>4, EndCheckFits
  <2> QED
    BY <2>1, <2>2, <2>3, <2>4 DEF CheckNext
<1> QED
  BY <1>1, <1>2, CheckImplementsRunner, RunnerFacts, TypeCorrect, PTL DEF CheckSpec

\* Whatever is left of the reports is the work of a process that was told to
\* stop, for any number of checks in any interleaving.
THEOREM CheckInvariant == CheckSpec => []CheckInv
<1>1. ChecksFit => CheckInv
  BY DEF ChecksFit, CheckInv
<1> QED
  BY <1>1, ChecksFitTogether, PTL

\* A check alone in its millisecond reports on its own file, whatever the other
\* checks do.
THEOREM CheckReportsOwnFile == CheckSpec => []UnsharedCheckReportsOwnFile
<1>1. ChecksFit => UnsharedCheckReportsOwnFile
  BY DEF ChecksFit
<1> QED
  BY <1>1, ChecksFitTogether, PTL
=============================================================================
