-------------------------- MODULE DiagnosticState --------------------------
(***************************************************************************)
(* DiagnosticStateStore (state/stateStores.ts) with what it writes to: the *)
(* Problems entries of each file (diagnosticsAggregator.ts) and the DRC    *)
(* and ERC items of the status bar (kicadStatusBar.ts).                    *)
(*                                                                         *)
(* Checks of several files of several projects are in flight at once; they *)
(* end in any order, so a result, a failure or a viewer reload of any file *)
(* may come at any time.  A failure also comes after a result: the catch   *)
(* of a check command covers the steps that follow applyValidationResult.  *)
(* The project of a file is asked for (findProjectForResource) only when   *)
(* the event is applied: projects come and go, so it may differ each time. *)
(***************************************************************************)
EXTENDS Naturals

CONSTANTS
  Projects,    \* ids of the discovered projects
  Sources,     \* kinds of check: drc, erc
  Files,       \* the boards and schematics that are checked
  SourceOf,    \* validationSourceForUri of a file
  MaxRuns,     \* bound on the number of successful checks
  None

ASSUME StateAssumption ==
  /\ SourceOf \in [Files -> Sources]
  /\ None \notin Projects
  /\ MaxRuns \in Nat

(***************************************************************************)
(* A run is a successful check, project the one its file was found in (or  *)
(* None), dirty: it found violations.  A summary                           *)
(* carries the file and project it names, its freshness, and in good the   *)
(* run whose time is its lastGoodTimestamp: the run itself when fresh.     *)
(***************************************************************************)
Owners == Projects \union {None}

Runs == [id : 1 .. MaxRuns, file : Files, project : Owners, dirty : BOOLEAN]

Summaries == [file : Files, project : Owners,
              freshness : {"fresh", "failed", "stale"}, good : Runs \union {None}]

\* The DRC/ERC entries listed under a file: those of a run, marked or not.
Listings == [run : Runs, stale : BOOLEAN]

ASSUME NoneAssumption == None \notin Runs /\ None \notin Summaries

VARIABLES
  runs,        \* number of successful checks so far
  summary,     \* summary[s]: this.drc, this.erc
  latest,      \* latest[s]: this.latestDrcRun, this.latestErcRun
  pSummary,    \* pSummary[p][s]: the same of projectDiagnostics.get(p)
  pLatest,     \* pLatest[p][s]
  active,      \* activeProjectId
  problems,    \* problems[f]: Problems entries of f's check, None if empty
  bar,         \* bar[s]: the summary the status bar shows, None if hidden
  listedFor    \* history: {p} if problems[f] was last set for project p, {} if
               \* never or when its document was closed since

vars == <<runs, summary, latest, pSummary, pLatest, active, problems, bar, listedFor>>

TypeOK ==
  /\ runs \in 0 .. MaxRuns
  /\ summary \in [Sources -> Summaries \union {None}]
  /\ latest \in [Sources -> Runs \union {None}]
  /\ pSummary \in [Projects -> [Sources -> Summaries \union {None}]]
  /\ pLatest \in [Projects -> [Sources -> Runs \union {None}]]
  /\ active \in Owners
  /\ problems \in [Files -> Listings \union {None}]
  /\ bar \in [Sources -> Summaries \union {None}]
  /\ listedFor \in [Files -> SUBSET Owners]

NoEntries == [s \in Sources |-> None]

Init ==
  /\ runs = 0
  /\ summary = NoEntries
  /\ latest = NoEntries
  /\ pSummary = [p \in Projects |-> NoEntries]
  /\ pLatest = [p \in Projects |-> NoEntries]
  /\ active = None
  /\ problems = [f \in Files |-> None]
  /\ bar = NoEntries
  /\ listedFor = [f \in Files |-> {}]

-----------------------------------------------------------------------------
Coalesce(x, y) == IF x # None THEN x ELSE y

\* getSnapshot(): a selected project's entry only, else the global one.
SnapshotOf(a, sum, psum) == IF a = None THEN sum ELSE psum[a]

Snapshot == SnapshotOf(active, summary, pSummary)

\* onDidChange: KiCadStatusBar.update keeps what it shows where the snapshot
\* has nothing.
Fire ==
  LET shown == SnapshotOf(active', summary', pSummary')
  IN  bar' = [s \in Sources |-> Coalesce(shown[s], bar[s])]

\* getSummaryForSource of the project, ?? that of the store; likewise
\* getLatestRunForSource.
Previous(p, s) ==
  IF p = None THEN summary[s] ELSE Coalesce(pSummary[p][s], summary[s])

LatestRun(p, s) ==
  IF p = None THEN latest[s] ELSE Coalesce(pLatest[p][s], latest[s])

\* setSummaryForSource: the store's entry and, in a project, the project's.
SetSummary(p, s, sum) ==
  /\ summary' = [summary EXCEPT ![s] = sum]
  /\ pSummary' = [q \in Projects |-> IF q = p THEN [pSummary[q] EXCEPT ![s] = sum]
                                              ELSE pSummary[q]]

SetLatest(p, s, run) ==
  /\ latest' = [latest EXCEPT ![s] = run]
  /\ pLatest' = [q \in Projects |-> IF q = p THEN [pLatest[q] EXCEPT ![s] = run]
                                             ELSE pLatest[q]]

\* normalizeDiagnosticSummary fills the project in only where there is none.
Named(sum, p) == [sum EXCEPT !.project = Coalesce(@, p)]

\* What the Problems panel lists for a run: nothing if it is clean.
Entries(run) == IF run.dirty THEN [run |-> run, stale |-> FALSE] ELSE None

\* Mutant of Apply: a clean check does not clear the entries of its file.
ApplyKeepingProblems(f, p, dirty) ==
  LET s   == SourceOf[f]
      run == [id |-> runs + 1, file |-> f, project |-> p, dirty |-> dirty]
  IN  /\ runs < MaxRuns
      /\ runs' = runs + 1
      /\ problems' = [problems EXCEPT
           ![f] = IF dirty THEN [run |-> run, stale |-> FALSE] ELSE @]
      /\ listedFor' = [listedFor EXCEPT ![f] = {p}]
      /\ SetSummary(p, s, [file |-> f, project |-> p,
                           freshness |-> "fresh", good |-> run])
      /\ SetLatest(p, s, run)
      /\ UNCHANGED active
      /\ Fire

\* applyValidationResult
Apply(f, p, dirty) ==
  LET s   == SourceOf[f]
      run == [id |-> runs + 1, file |-> f, project |-> p, dirty |-> dirty]
  IN  /\ runs < MaxRuns
      /\ runs' = runs + 1
      /\ problems' = [problems EXCEPT ![f] = Entries(run)]
      /\ listedFor' = [listedFor EXCEPT ![f] = {p}]
      /\ SetSummary(p, s, [file |-> f, project |-> p,
                           freshness |-> "fresh", good |-> run])
      /\ SetLatest(p, s, run)
      /\ UNCHANGED active
      /\ Fire

\* Mutant of RecordFailure: the previous report keeps its freshness.
RecordFailureAsFresh(f, p) ==
  LET s    == SourceOf[f]
      base == Coalesce(Previous(p, s), [file |-> f, project |-> None,
                                        freshness |-> "failed", good |-> None])
  IN  /\ SetSummary(p, s, Named(base, p))
      /\ UNCHANGED <<runs, latest, pLatest, active, problems, listedFor>>
      /\ Fire

\* Mutant of RecordFailure: lastGoodCapturedAt is not carried over.
RecordFailureForgetting(f, p) ==
  LET s    == SourceOf[f]
      base == Coalesce(Previous(p, s), [file |-> f, project |-> None,
                                        freshness |-> "failed", good |-> None])
  IN  /\ SetSummary(p, s, Named([base EXCEPT !.freshness = "failed",
                                             !.good = None], p))
      /\ UNCHANGED <<runs, latest, pLatest, active, problems, listedFor>>
      /\ Fire

\* recordValidationFailure
RecordFailure(f, p) ==
  LET s    == SourceOf[f]
      prev == Previous(p, s)
      base == Coalesce(prev, [file |-> f, project |-> None,
                              freshness |-> "failed", good |-> None])
  IN  /\ SetSummary(p, s, Named([base EXCEPT !.freshness = "failed"], p))
      /\ UNCHANGED <<runs, latest, pLatest, active, problems, listedFor>>
      /\ Fire

\* markValidationStale, called for a file whose viewer reloads; it lists the
\* latest run's entries again, marked, under the reloaded file.
MarkStale(f, p) ==
  LET s    == SourceOf[f]
      prev == Previous(p, s)
      run  == LatestRun(p, s)
  IN  /\ prev # None
      /\ SetSummary(p, s, Named([prev EXCEPT !.freshness = "stale"], p))
      /\ problems' = [problems EXCEPT
           ![f] = IF run # None /\ run.dirty THEN [run |-> run, stale |-> TRUE]
                                             ELSE @]
      /\ listedFor' = [listedFor EXCEPT
           ![f] = IF run # None /\ run.dirty THEN {p} ELSE @]
      /\ UNCHANGED <<runs, latest, pLatest, active>>
      /\ Fire

\* onDidCloseTextDocument: diagnosticsCollection.delete(uri).
CloseDocument(f) ==
  /\ problems' = [problems EXCEPT ![f] = None]
  /\ listedFor' = [listedFor EXCEPT ![f] = {}]
  /\ UNCHANGED <<runs, summary, latest, pSummary, pLatest, active, bar>>

\* Mutant of SetActiveProject: only a change of reports is announced.
SetActiveProjectSilently(p) ==
  /\ active' = p
  /\ UNCHANGED <<runs, summary, latest, pSummary, pLatest, problems, bar, listedFor>>

\* A refresh or the user selects the active project, or none is left.
SetActiveProject(p) ==
  /\ active' = p
  /\ UNCHANGED <<runs, summary, latest, pSummary, pLatest, problems, listedFor>>
  /\ Fire

Next ==
  \/ \E f \in Files, p \in Owners :
       \/ \E dirty \in BOOLEAN : Apply(f, p, dirty)
       \/ RecordFailure(f, p)
       \/ MarkStale(f, p)
  \/ \E f \in Files : CloseDocument(f)
  \/ \E p \in Owners : SetActiveProject(p)

Spec == Init /\ [][Next]_vars

-----------------------------------------------------------------------------
(***************************************************************************)
(* Properties.                                                             *)
(***************************************************************************)

\* The last good run of the report was checked for project p.
GoodOf(sum, p) == sum # None /\ sum.good # None /\ sum.good.project = p

\* A project without a report of its own is not what any other report is about:
\* a failure or a stale mark, which starts from the store's report where the
\* project has none, never adopts a run of the project itself and so loses it.
ReportlessIsUnknown ==
  \A p \in Projects, s \in Sources : pSummary[p][s] = None =>
    /\ pLatest[p][s] = None
    /\ ~GoodOf(summary[s], p)
    /\ \A q \in Projects : ~GoodOf(pSummary[q][s], p)

\* A report of a project that claims to be fresh is that of a run for this very
\* project; only failed and stale ones may be inherited from another.
FreshReportIsOwn ==
  \A p \in Projects, s \in Sources :
    LET sum == pSummary[p][s]
    IN  sum # None /\ sum.freshness = "fresh" =>
          /\ GoodOf(sum, p)
          /\ sum.good.file = sum.file /\ SourceOf[sum.file] = s

\* The store keeps its types, and tells whose report is whose: a project without
\* one is not what another's is about, and what claims to be fresh is its own.
StoreInv ==
  /\ TypeOK
  /\ ReportlessIsUnknown
  /\ FreshReportIsOwn

\* Through any sequence of failures and stale marks, of its own and inherited, a
\* project's report names as its last good one (lastGoodCapturedAt) the
\* project's latest successful run, and never an earlier one, whatever other
\* projects do meanwhile and whichever projects its files move to.
LastGoodIsLatestRun ==
  \A p \in Projects, s \in Sources :
    LET sum == pSummary[p][s]
    IN  /\ pLatest[p][s] # None => sum # None /\ sum.good = pLatest[p][s]
        /\ GoodOf(sum, p) => sum.good = pLatest[p][s]

\* What a report that claims to be fresh has found is what the Problems panel
\* lists under its file, unmarked, and nothing if it found nothing, as long as
\* the document is not closed and the file not reported on for another project.
FreshReportIsListed ==
  \A p \in Projects, s \in Sources :
    LET sum == pSummary[p][s]
    IN  sum # None /\ sum.freshness = "fresh" /\ p \in listedFor[sum.file] =>
          problems[sum.file] = Entries(sum.good)

\* Whatever is reported, for whichever project, and whichever project is
\* selected meanwhile: the status bar shows the report of the active project
\* when there is one, never an earlier one or another project's.  (When there is
\* none it keeps what it showed.)
BarFollowsReports ==
  \A s \in Sources : Snapshot[s] # None => bar[s] = Snapshot[s]
=============================================================================
