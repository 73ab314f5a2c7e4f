---------------------------- MODULE CheckService ----------------------------
(***************************************************************************)
(* KiCadCheckService.runCheck (cli/checkCommands.ts) on top of the runner: *)
(* each DRC (or ERC) check names a report file in the temporary directory  *)
(* after the millisecond it began in, has kicad-cli write it, reads it     *)
(* when the run returns and removes it.  The report path is part of the    *)
(* command, so it is part of the runner's command key.                     *)
(*                                                                         *)
(* One kind of check: the kind is part of the report's name.               *)
(***************************************************************************)
EXTENDS CliRunner

CONSTANTS
  Files,   \* the boards (or schematics) that are checked
  Ticks    \* the values Date.now() may return

ASSUME CheckAssumption ==
  /\ Keys = [file : Files, tick : Ticks]
  /\ Files \intersect {"error", "unreadable"} = {}
  /\ None \notin Files \union {"error", "unreadable"}

VARIABLES
  report,    \* report[t]: the file reported on at kicadstudio-<kind>-<t>.json
  wrote,     \* executions whose process has written its report
  verdict    \* verdict[c]: the file whose report c parsed; "error" if the run failed
             \* or left no report, "unreadable" if reading or parsing it threw

checkVars == <<report, wrote, verdict>>
allVars   == <<vars, checkVars>>

Verdicts == Files \union {"error", "unreadable", None}

CheckTypeOK ==
  /\ TypeOK
  /\ report \in [Ticks -> Files \union {None}]
  /\ wrote \in SUBSET Calls
  /\ verdict \in [Calls -> Verdicts]

CheckInit ==
  /\ Init
  /\ report = [t \in Ticks |-> None]
  /\ wrote = {}
  /\ verdict = [c \in Calls |-> None]

\* runWithProgress on the check's command.  No parseOutput is given, and a
\* process that exits with 0 has written its report.
RunnerStep ==
  /\ Next
  /\ \A c \in Calls : outcome'[c] # "parse-error"
  /\ \A c \in Calls : child'[c] = "exited-ok" => c \in wrote
  /\ UNCHANGED checkVars

\* kicad-cli writes the report, possibly after it has been told to stop.
WriteReport(c) ==
  /\ child[c] \in {"alive", "killed"}
  /\ c \notin wrote
  /\ wrote' = wrote \union {c}
  /\ report' = [report EXCEPT ![key[c].tick] = key[c].file]
  /\ UNCHANGED <<vars, verdict>>

\* Mutant of ReadReport: what a failed run has written is read too.
ReadReportAnyway(c) ==
  IF report[key[c].tick] # None THEN {report[key[c].tick], "unreadable"} ELSE {"error"}

\* What the check may make of its path once the run is over: readFileSync throws
\* when there is no report; JSON.parse throws on one that another process has
\* not finished, and readTextFileSync when the checked file cannot be read.
ReadReport(c) ==
  IF outcome[c] = "ok" /\ report[key[c].tick] # None
    THEN {report[key[c].tick], "unreadable"}
    ELSE {"error"}

\* Mutant of EndCheck: the report is not removed.
EndCheckKeepingReport(c) ==
  /\ pc[c] = "returned"
  /\ verdict[c] = None
  /\ \E v \in ReadReport(c) : verdict' = [verdict EXCEPT ![c] = v]
  /\ UNCHANGED <<vars, report, wrote>>

\* The rest of runCheck: read and parse, then rmSync in the finally block.
EndCheck(c) ==
  /\ pc[c] = "returned"
  /\ verdict[c] = None
  /\ \E v \in ReadReport(c) : verdict' = [verdict EXCEPT ![c] = v]
  /\ report' = [report EXCEPT ![key[c].tick] = None]
  /\ UNCHANGED <<vars, wrote>>

CheckNext ==
  \/ RunnerStep
  \/ \E c \in Calls : WriteReport(c) \/ EndCheck(c)

CheckSpec == CheckInit /\ [][CheckNext]_allVars

\* The runner's fairness, and the code after "await" runs once the run is over.
CheckFairness == Fairness /\ \A c \in Calls : WF_allVars(EndCheck(c))

FairCheckSpec == CheckSpec /\ CheckFairness

-----------------------------------------------------------------------------
Unshared(c) == \A d \in Calls \ {c} : key[d].tick # key[c].tick

\* A check that shares its millisecond with no other check reports on its own
\* file, and it has a report to read whenever its run succeeded: no cancelled,
\* timed out or retried run in between takes it away.
UnsharedCheckReportsOwnFile ==
  \A c \in Calls : Unshared(c) /\ verdict[c] # None =>
    verdict[c] \in (IF outcome[c] = "ok" THEN {key[c].file, "unreadable"} ELSE {"error"})

\* Once its check is over a report file is left behind only by a process that
\* was told to stop and wrote it afterwards.
ReportsAreRemoved ==
  \A t \in Ticks : report[t] # None =>
    \E c \in wrote : key[c].tick = t /\ (verdict[c] = None \/ outcome[c] # "ok")

\* Types, and which reports may be left behind.
CheckInv == CheckTypeOK /\ ReportsAreRemoved

\* Every check that was started ends, with a report or with an error, even if
\* kicad-cli hangs, is cancelled, or serves two checks at once; only a message
\* that kicad-cli is missing is left to the user.
EveryCheckEnds ==
  \A c \in Calls : pc[c] = "detecting" ~> (verdict[c] # None \/ pc[c] = "asking")

\* "keeps diagnostics isolated while two project validations finish out of
\* order" (test/unit/multiProjectWorkspace.test.ts:215): whatever else runs, a
\* check never reports the violations of another file as those of its own.
ValidationsAreIsolated ==
  \A c \in Calls : verdict[c] \in {None, "error", "unreadable", key[c].file}
=============================================================================
