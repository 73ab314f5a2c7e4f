----------------------- MODULE DiagnosticStateProofs -----------------------
(***************************************************************************)
(* Proofs about DiagnosticState.                                           *)
(***************************************************************************)
EXTENDS DiagnosticState, TLAPS

\* What setSummaryForSource leaves in the store and in every project.
LEMMA StoredSummary ==
  ASSUME TypeOK, NEW p \in Owners, NEW s \in Sources,
         NEW sum \in Summaries, SetSummary(p, s, sum)
  PROVE  /\ summary' \in [Sources -> Summaries \union {None}]
         /\ pSummary' \in [Projects -> [Sources -> Summaries \union {None}]]
         /\ \A t \in Sources : summary'[t] = IF t = s THEN sum ELSE summary[t]
         /\ \A q \in Projects, t \in Sources :
              pSummary'[q][t] = IF q = p /\ t = s THEN sum ELSE pSummary[q][t]
<1>1. \A q \in Projects : pSummary[q] \in [Sources -> Summaries \union {None}]
  BY DEF TypeOK
<1>2. summary \in [Sources -> Summaries \union {None}]
  BY DEF TypeOK
<1> QED
  BY <1>1, <1>2 DEF SetSummary

\* The same of the latest run.
LEMMA StoredLatest ==
  ASSUME TypeOK, NEW p \in Owners, NEW s \in Sources,
         NEW run \in Runs, SetLatest(p, s, run)
  PROVE  /\ latest' \in [Sources -> Runs \union {None}]
         /\ pLatest' \in [Projects -> [Sources -> Runs \union {None}]]
         /\ \A q \in Projects, t \in Sources :
              pLatest'[q][t] = IF q = p /\ t = s THEN run ELSE pLatest[q][t]
<1>1. \A q \in Projects : pLatest[q] \in [Sources -> Runs \union {None}]
  BY DEF TypeOK
<1>2. latest \in [Sources -> Runs \union {None}]
  BY DEF TypeOK
<1> QED
  BY <1>1, <1>2 DEF SetLatest

\* What the status bar shows after a change is a report, or nothing.
LEMMA FiredBar ==
  ASSUME TypeOK, Fire,
         active' \in Owners,
         summary' \in [Sources -> Summaries \union {None}],
         pSummary' \in [Projects -> [Sources -> Summaries \union {None}]]
  PROVE  bar' \in [Sources -> Summaries \union {None}]
<1>1. SnapshotOf(active', summary', pSummary') \in [Sources -> Summaries \union {None}]
  BY DEF SnapshotOf, Owners
<1>2. bar \in [Sources -> Summaries \union {None}]
  BY DEF TypeOK
<1> QED
  BY <1>1, <1>2 DEF Fire, Coalesce

\* A successful check stores a fresh report of its file with its run as the
\* last good one, and lists the run under the file.
LEMMA Applied ==
  ASSUME TypeOK, NEW f \in Files, NEW p \in Owners, NEW dirty \in BOOLEAN,
         Apply(f, p, dirty)
  PROVE  \E run \in Runs, sum \in Summaries :
           /\ run.project = p /\ run.file = f
           /\ sum.file = f /\ sum.freshness = "fresh" /\ sum.good = run
           /\ SetSummary(p, SourceOf[f], sum)
           /\ SetLatest(p, SourceOf[f], run)
           /\ Entries(run) \in Listings \union {None}
           /\ problems' = [problems EXCEPT ![f] = Entries(run)]
           /\ listedFor' = [listedFor EXCEPT ![f] = {p}]
<1> DEFINE run == [id |-> runs + 1, file |-> f, project |-> p, dirty |-> dirty]
           sum == [file |-> f, project |-> p,
                   freshness |-> "fresh", good |-> run]
<1>1. runs + 1 \in 1 .. MaxRuns
  BY StateAssumption DEF TypeOK, Apply
<1>2. run \in Runs /\ run.project = p /\ run.file = f
  BY <1>1 DEF Runs
<1>3. sum \in Summaries
  BY <1>2 DEF Summaries
<1>4. Entries(run) \in Listings \union {None}
  BY <1>2 DEF Entries, Listings
<1>5. /\ SetSummary(p, SourceOf[f], sum)
      /\ SetLatest(p, SourceOf[f], run)
      /\ problems' = [problems EXCEPT ![f] = Entries(run)]
      /\ listedFor' = [listedFor EXCEPT ![f] = {p}]
  BY DEF Apply
<1>6. sum.file = f /\ sum.freshness = "fresh" /\ sum.good = run
  OBVIOUS
<1> HIDE DEF run, sum
<1> QED
  BY <1>2, <1>3, <1>4, <1>5, <1>6

\* A failure or a stale mark stores a report that is not fresh, about the file
\* and the run of the previous report if there is one.
LEMMA Reassessed ==
  ASSUME TypeOK, NEW f \in Files, NEW p \in Owners,
         RecordFailure(f, p) \/ MarkStale(f, p)
  PROVE  \E sum \in Summaries :
           /\ sum.freshness \in {"failed", "stale"}
           /\ SetSummary(p, SourceOf[f], sum)
           /\ LET prev == Previous(p, SourceOf[f])
              IN  IF prev # None THEN sum.good = prev.good ELSE sum.good = None
           /\ UNCHANGED <<latest, pLatest>>
<1> DEFINE s    == SourceOf[f]
           prev == Previous(p, s)
<1>1. s \in Sources
  BY StateAssumption
<1>2. prev \in Summaries \union {None}
  BY <1>1 DEF TypeOK, Previous, Coalesce, Owners
<1>3. ASSUME NEW base \in Summaries, NEW how \in {"failed", "stale"}
      PROVE  LET sum == Named([base EXCEPT !.freshness = how], p)
             IN  /\ sum \in Summaries /\ sum.freshness = how
                 /\ sum.good = base.good
  BY <1>1 DEF Summaries, Named, Coalesce
<1>4. CASE RecordFailure(f, p)
  <2> DEFINE new  == [file |-> f, project |-> None, freshness |-> "failed",
                      good |-> None]
             base == Coalesce(prev, new)
             sum  == Named([base EXCEPT !.freshness = "failed"], p)
  <2>1. new \in Summaries
    BY DEF Summaries, Owners
  <2>2. base \in Summaries
    BY <1>2, <2>1 DEF Coalesce
  <2>3. sum \in Summaries /\ sum.freshness = "failed" /\ sum.good = base.good
    BY <1>3, <2>2
  <2>4. SetSummary(p, s, sum) /\ UNCHANGED <<latest, pLatest>>
    BY <1>4 DEF RecordFailure
  <2> QED
    BY <1>4, <2>3, <2>4 DEF Coalesce
<1>5. CASE MarkStale(f, p)
  BY <1>2, <1>3, <1>5 DEF MarkStale
<1> QED
  BY <1>4, <1>5
-----------------------------------------------------------------------------
\* Summaries, runs, entries and what is shown are of their types.
THEOREM TypeCorrect == Spec => []TypeOK
<1>1. Init => TypeOK
  <2> SUFFICES ASSUME Init
               PROVE  TypeOK
    OBVIOUS
  <2>1. NoEntries \in [Sources -> Summaries \union {None}]
        /\ NoEntries \in [Sources -> Runs \union {None}]
    BY DEF NoEntries
  <2> QED
    BY <2>1, StateAssumption DEF Init, TypeOK, Owners
<1>2. TypeOK /\ [Next]_vars => TypeOK'
  <2> SUFFICES ASSUME TypeOK, [Next]_vars
               PROVE  TypeOK'
    OBVIOUS
  <2>1. ASSUME NEW f \in Files, NEW p \in Owners, NEW dirty \in BOOLEAN,
               Apply(f, p, dirty)
        PROVE  TypeOK'
    <3>1. PICK run \in Runs, sum \in Summaries :
            /\ SetSummary(p, SourceOf[f], sum)
            /\ SetLatest(p, SourceOf[f], run)
            /\ Entries(run) \in Listings \union {None}
            /\ problems' = [problems EXCEPT ![f] = Entries(run)]
            /\ listedFor' = [listedFor EXCEPT ![f] = {p}]
      BY <2>1, Applied
    <3>2. SourceOf[f] \in Sources
      BY StateAssumption
    <3>3. /\ summary' \in [Sources -> Summaries \union {None}]
          /\ pSummary' \in [Projects -> [Sources -> Summaries \union {None}]]
      BY <3>1, <3>2, StoredSummary
    <3>4. /\ latest' \in [Sources -> Runs \union {None}]
          /\ pLatest' \in [Projects -> [Sources -> Runs \union {None}]]
      BY <3>1, <3>2, StoredLatest
    <3>5. /\ problems' \in [Files -> Listings \union {None}]
          /\ listedFor' \in [Files -> SUBSET Owners]
      BY <3>1 DEF TypeOK
    <3>6. runs' \in 0 .. MaxRuns /\ active' \in Owners /\ Fire
      BY <2>1, StateAssumption DEF Apply, TypeOK
    <3>7. bar' \in [Sources -> Summaries \union {None}]
      BY <3>3, <3>6, FiredBar
    <3> QED
      BY <3>3, <3>4, <3>5, <3>6, <3>7 DEF TypeOK
  <2>2. ASSUME NEW f \in Files, NEW p \in Owners,
               RecordFailure(f, p) \/ MarkStale(f, p)
        PROVE  TypeOK'
    <3>1. PICK sum \in Summaries : SetSummary(p, SourceOf[f], sum)
      BY <2>2, Reassessed
    <3>2. SourceOf[f] \in Sources
      BY StateAssumption
    <3>3. /\ summary' \in [Sources -> Summaries \union {None}]
          /\ pSummary' \in [Projects -> [Sources -> Summaries \union {None}]]
      BY <3>1, <3>2, StoredSummary
    <3>4. UNCHANGED <<runs, latest, pLatest, active>> /\ Fire
      BY <2>2 DEF RecordFailure, MarkStale
    <3>5. bar' \in [Sources -> Summaries \union {None}]
      BY <3>3, <3>4, FiredBar DEF TypeOK
    <3>6. /\ problems' \in [Files -> Listings \union {None}]
          /\ listedFor' \in [Files -> SUBSET Owners]
      <4>1. CASE RecordFailure(f, p)
        BY <4>1 DEF RecordFailure, TypeOK
      <4>2. CASE MarkStale(f, p)
        <5> DEFINE run == LatestRun(p, SourceOf[f])
        <5>1. run \in Runs \union {None}
          BY <3>2 DEF LatestRun, Coalesce, TypeOK, Owners
        <5>2. run # None => [run |-> run, stale |-> TRUE] \in Listings
          BY <5>1 DEF Listings
        <5>3. /\ problems' = [problems EXCEPT
                  ![f] = IF run # None /\ run.dirty THEN [run |-> run, stale |-> TRUE]
                                                    ELSE @]
              /\ listedFor' = [listedFor EXCEPT
                  ![f] = IF run # None /\ run.dirty THEN {p} ELSE @]
          BY <4>2 DEF MarkStale
        <5> HIDE DEF run
        <5> QED
          BY <5>2, <5>3 DEF TypeOK
      <4> QED
        BY <2>2, <4>1, <4>2
    <3> QED
      BY <3>3, <3>4, <3>5, <3>6 DEF TypeOK
  <2>3. ASSUME NEW f \in Files, CloseDocument(f)
        PROVE  TypeOK'
    BY <2>3 DEF CloseDocument, TypeOK
  <2>4. ASSUME NEW p \in Owners, SetActiveProject(p)
        PROVE  TypeOK'
    <3>1. /\ UNCHANGED <<runs, summary, latest, pSummary, pLatest, problems, listedFor>>
          /\ active' \in Owners /\ Fire
      BY <2>4 DEF SetActiveProject
    <3>2. bar' \in [Sources -> Summaries \union {None}]
      BY <3>1, FiredBar DEF TypeOK
    <3> QED
      BY <3>1, <3>2 DEF TypeOK
  <2>5. CASE UNCHANGED vars
    BY <2>5 DEF vars, TypeOK
  <2> QED
    BY <2>1, <2>2, <2>3, <2>4, <2>5 DEF Next
<1> QED
  BY <1>1, <1>2, PTL DEF Spec

\* No report is about a project that has none of its own: a run enters the
\* store with the report of its own project, and no report is ever taken away.
THEOREM ReportlessUnknown == Spec => []ReportlessIsUnknown
<1>1. Init => ReportlessIsUnknown
  BY DEF Init, NoEntries, ReportlessIsUnknown, GoodOf
<1>2. TypeOK /\ ReportlessIsUnknown /\ [Next]_vars => ReportlessIsUnknown'
  <2> SUFFICES ASSUME TypeOK, ReportlessIsUnknown, [Next]_vars
               PROVE  ReportlessIsUnknown'
    OBVIOUS
  <2>1. ASSUME NEW f \in Files, NEW p \in Owners, NEW dirty \in BOOLEAN,
               Apply(f, p, dirty)
        PROVE  ReportlessIsUnknown'
    <3> DEFINE s == SourceOf[f]
    <3>1. PICK run \in Runs, sum \in Summaries :
            /\ run.project = p /\ sum.good = run
            /\ SetSummary(p, s, sum)
            /\ SetLatest(p, s, run)
      BY <2>1, Applied
    <3>2. s \in Sources
      BY StateAssumption
    <3>3. /\ \A t \in Sources : summary'[t] = IF t = s THEN sum ELSE summary[t]
          /\ \A q \in Projects, t \in Sources :
               pSummary'[q][t] = IF q = p /\ t = s THEN sum ELSE pSummary[q][t]
      BY <3>1, <3>2, StoredSummary
    <3>4. \A q \in Projects, t \in Sources :
            pLatest'[q][t] = IF q = p /\ t = s THEN run ELSE pLatest[q][t]
      BY <3>1, <3>2, StoredLatest
    <3> QED
      BY <3>1, <3>2, <3>3, <3>4, NoneAssumption DEF ReportlessIsUnknown, GoodOf
  <2>2. ASSUME NEW f \in Files, NEW p \in Owners,
               RecordFailure(f, p) \/ MarkStale(f, p)
        PROVE  ReportlessIsUnknown'
    <3> DEFINE s    == SourceOf[f]
               prev == Previous(p, s)
    <3>1. PICK sum \in Summaries :
            /\ SetSummary(p, s, sum)
            /\ IF prev # None THEN sum.good = prev.good ELSE sum.good = None
            /\ UNCHANGED <<latest, pLatest>>
      BY <2>2, Reassessed
    <3>2. s \in Sources
      BY StateAssumption
    <3>3. /\ \A t \in Sources : summary'[t] = IF t = s THEN sum ELSE summary[t]
          /\ \A q \in Projects, t \in Sources :
               pSummary'[q][t] = IF q = p /\ t = s THEN sum ELSE pSummary[q][t]
      BY <3>1, <3>2, StoredSummary
    <3>4. ASSUME NEW q \in Projects, pSummary[q][s] = None
          PROVE  ~GoodOf(prev, q)
      BY <3>2, <3>4, StateAssumption
         DEF ReportlessIsUnknown, Previous, Coalesce, Owners, GoodOf
    <3>5. ASSUME NEW q \in Projects, pSummary[q][s] = None
          PROVE  ~GoodOf(sum, q)
      BY <3>1, <3>4, <3>5 DEF GoodOf
    <3> QED
      BY <3>1, <3>2, <3>3, <3>5, NoneAssumption DEF ReportlessIsUnknown
  <2>3. CASE UNCHANGED <<summary, pSummary, pLatest>>
    BY <2>3 DEF ReportlessIsUnknown
  <2> QED
    BY <2>1, <2>2, <2>3 DEF Next, CloseDocument, SetActiveProject, vars
<1> QED
  BY <1>1, <1>2, TypeCorrect, PTL DEF Spec

\* The last good run of a project's report is that project's latest run, through
\* every failure and stale mark.
THEOREM LastGood == Spec => []LastGoodIsLatestRun
<1>1. Init => LastGoodIsLatestRun
  BY DEF Init, NoEntries, LastGoodIsLatestRun, GoodOf
<1>2. TypeOK /\ ReportlessIsUnknown /\ LastGoodIsLatestRun /\ [Next]_vars
        => LastGoodIsLatestRun'
  <2> SUFFICES ASSUME TypeOK, ReportlessIsUnknown, LastGoodIsLatestRun, [Next]_vars
               PROVE  LastGoodIsLatestRun'
    OBVIOUS
  <2>1. ASSUME NEW f \in Files, NEW p \in Owners, NEW dirty \in BOOLEAN,
               Apply(f, p, dirty)
        PROVE  LastGoodIsLatestRun'
    <3> DEFINE s == SourceOf[f]
    <3>1. PICK run \in Runs, sum \in Summaries :
            sum.good = run /\ SetSummary(p, s, sum) /\ SetLatest(p, s, run)
      BY <2>1, Applied
    <3>2. s \in Sources
      BY StateAssumption
    <3>3. \A q \in Projects, t \in Sources :
            pSummary'[q][t] = IF q = p /\ t = s THEN sum ELSE pSummary[q][t]
      BY <3>1, <3>2, StoredSummary
    <3>4. \A q \in Projects, t \in Sources :
            pLatest'[q][t] = IF q = p /\ t = s THEN run ELSE pLatest[q][t]
      BY <3>1, <3>2, StoredLatest
    <3> QED
      BY <3>1, <3>2, <3>3, <3>4, NoneAssumption DEF LastGoodIsLatestRun, GoodOf
  <2>2. ASSUME NEW f \in Files, NEW p \in Owners,
               RecordFailure(f, p) \/ MarkStale(f, p)
        PROVE  LastGoodIsLatestRun'
    <3> DEFINE s    == SourceOf[f]
               prev == Previous(p, s)
    <3>1. PICK sum \in Summaries :
            /\ SetSummary(p, s, sum)
            /\ IF prev # None THEN sum.good = prev.good ELSE sum.good = None
            /\ UNCHANGED <<latest, pLatest>>
      BY <2>2, Reassessed
    <3>2. s \in Sources
      BY StateAssumption
    <3>3. \A q \in Projects, t \in Sources :
            pSummary'[q][t] = IF q = p /\ t = s THEN sum ELSE pSummary[q][t]
      BY <3>1, <3>2, StoredSummary
    <3>4. CASE p = None
      BY <3>1, <3>2, <3>3, <3>4, StateAssumption DEF LastGoodIsLatestRun, GoodOf
    <3>5. CASE p \in Projects /\ pSummary[p][s] # None
      <4>1. prev = pSummary[p][s]
        BY <3>5, StateAssumption DEF Previous, Coalesce
      <4>2. sum.good = pSummary[p][s].good
        BY <3>1, <3>5, <4>1
      <4> QED
        BY <3>1, <3>2, <3>3, <3>5, <4>2, NoneAssumption DEF LastGoodIsLatestRun, GoodOf
    <3>6. CASE p \in Projects /\ pSummary[p][s] = None
      <4>1. prev = summary[s]
        BY <3>6, StateAssumption DEF Previous, Coalesce
      <4>2. pLatest[p][s] = None /\ ~GoodOf(prev, p)
        BY <3>2, <3>6, <4>1 DEF ReportlessIsUnknown
      <4>3. ~GoodOf(sum, p)
        BY <3>1, <4>2 DEF GoodOf
      <4> QED
        BY <3>1, <3>2, <3>3, <3>6, <4>2, <4>3 DEF LastGoodIsLatestRun
    <3> QED
      BY <3>2, <3>4, <3>5, <3>6 DEF Owners
  <2>3. CASE UNCHANGED <<pSummary, pLatest>>
    BY <2>3 DEF LastGoodIsLatestRun
  <2> QED
    BY <2>1, <2>2, <2>3 DEF Next, CloseDocument, SetActiveProject, vars
<1> QED
  BY <1>1, <1>2, TypeCorrect, ReportlessUnknown, PTL DEF Spec

\* A fresh report is one that a check for the project itself has stored.
THEOREM FreshOwn == Spec => []FreshReportIsOwn
<1>1. Init => FreshReportIsOwn
  BY DEF Init, NoEntries, FreshReportIsOwn
<1>2. TypeOK /\ FreshReportIsOwn /\ [Next]_vars => FreshReportIsOwn'
  <2> SUFFICES ASSUME TypeOK, FreshReportIsOwn, [Next]_vars
               PROVE  FreshReportIsOwn'
    OBVIOUS
  <2>1. ASSUME NEW f \in Files, NEW p \in Owners, NEW sum \in Summaries,
               SetSummary(p, SourceOf[f], sum),
               sum.freshness = "fresh" =>
                 GoodOf(sum, p) /\ sum.file = f /\ sum.good.file = f
        PROVE  FreshReportIsOwn'
    <3>1. SourceOf[f] \in Sources
      BY StateAssumption
    <3>2. \A q \in Projects, t \in Sources :
            pSummary'[q][t] = IF q = p /\ t = SourceOf[f]
                                THEN sum ELSE pSummary[q][t]
      BY <2>1, <3>1, StoredSummary
    <3> QED
      BY <2>1, <3>2 DEF FreshReportIsOwn
  <2>2. ASSUME NEW f \in Files, NEW p \in Owners, NEW dirty \in BOOLEAN,
               Apply(f, p, dirty)
        PROVE  FreshReportIsOwn'
    <3>1. PICK run \in Runs, sum \in Summaries :
            /\ run.project = p /\ run.file = f
            /\ sum.file = f /\ sum.freshness = "fresh" /\ sum.good = run
            /\ SetSummary(p, SourceOf[f], sum)
      BY <2>2, Applied
    <3> QED
      BY <2>1, <3>1, NoneAssumption DEF GoodOf
  <2>3. ASSUME NEW f \in Files, NEW p \in Owners,
               RecordFailure(f, p) \/ MarkStale(f, p)
        PROVE  FreshReportIsOwn'
    BY <2>1, <2>3, Reassessed
  <2>4. CASE UNCHANGED pSummary
    BY <2>4 DEF FreshReportIsOwn
  <2> QED
    BY <2>2, <2>3, <2>4 DEF Next, CloseDocument, SetActiveProject, vars
<1> QED
  BY <1>1, <1>2, TypeCorrect, PTL DEF Spec

\* What a fresh report found is exactly what the Problems panel lists under its
\* file: only checks and reloads of that file change the list, and for the
\* project they are for they replace the report in the same step.
THEOREM FreshListed == Spec => []FreshReportIsListed
<1>1. Init => FreshReportIsListed
  BY DEF Init, NoEntries, FreshReportIsListed
<1>2. TypeOK /\ FreshReportIsOwn /\ FreshReportIsListed /\ [Next]_vars
        => FreshReportIsListed'
  <2> SUFFICES ASSUME TypeOK, FreshReportIsOwn, FreshReportIsListed, [Next]_vars
               PROVE  FreshReportIsListed'
    OBVIOUS
  <2>1. \A q \in Projects, t \in Sources :
          pSummary[q][t] # None => pSummary[q][t].file \in Files
    BY DEF TypeOK, Summaries
  <2>2. ASSUME NEW f \in Files, NEW p \in Owners, NEW sum \in Summaries,
               SetSummary(p, SourceOf[f], sum),
               \A g \in Files : g # f =>
                 problems'[g] = problems[g] /\ listedFor'[g] = listedFor[g],
               \/ /\ problems'[f] = problems[f] /\ listedFor'[f] = listedFor[f]
                  /\ sum.freshness # "fresh"
               \/ /\ listedFor'[f] = {p}
                  /\ sum.freshness = "fresh" =>
                       sum.file = f /\ problems'[f] = Entries(sum.good)
        PROVE  FreshReportIsListed'
    <3> DEFINE s == SourceOf[f]
    <3>1. s \in Sources
      BY StateAssumption
    <3>2. \A q \in Projects, t \in Sources :
            pSummary'[q][t] = IF q = p /\ t = s THEN sum ELSE pSummary[q][t]
      BY <2>2, <3>1, StoredSummary
    <3> SUFFICES ASSUME NEW q \in Projects, NEW t \in Sources,
                        pSummary'[q][t] # None,
                        pSummary'[q][t].freshness = "fresh",
                        q \in listedFor'[pSummary'[q][t].file]
                 PROVE  problems'[pSummary'[q][t].file] = Entries(pSummary'[q][t].good)
      BY DEF FreshReportIsListed, Entries
    <3>3. CASE q = p /\ t = s
      BY <2>2, <3>2, <3>3
    <3>4. CASE ~(q = p /\ t = s)
      <4> DEFINE old == pSummary[q][t]
      <4>1. pSummary'[q][t] = old
        BY <3>2, <3>4
      <4>2. old.file \in Files /\ SourceOf[old.file] = t
        BY <2>1, <4>1 DEF FreshReportIsOwn
      <4>3. /\ problems'[old.file] = problems[old.file]
            /\ listedFor'[old.file] = listedFor[old.file]
        BY <2>2, <3>4, <4>1, <4>2
      <4> QED
        BY <4>1, <4>3 DEF FreshReportIsListed
    <3> QED
      BY <3>3, <3>4
  <2>3. ASSUME NEW f \in Files, NEW p \in Owners, NEW dirty \in BOOLEAN,
               Apply(f, p, dirty)
        PROVE  FreshReportIsListed'
    <3>1. PICK run \in Runs, sum \in Summaries :
            /\ sum.file = f /\ sum.good = run
            /\ SetSummary(p, SourceOf[f], sum)
            /\ problems' = [problems EXCEPT ![f] = Entries(run)]
            /\ listedFor' = [listedFor EXCEPT ![f] = {p}]
      BY <2>3, Applied
    <3>2. problems'[f] = Entries(run) /\ listedFor'[f] = {p}
      BY <3>1 DEF TypeOK
    <3>3. \A g \in Files : g # f =>
            problems'[g] = problems[g] /\ listedFor'[g] = listedFor[g]
      BY <3>1 DEF TypeOK
    <3>4. Entries(run) = Entries(sum.good)
      BY <3>1
    <3> QED
      BY <2>2, <3>1, <3>2, <3>3, <3>4
  <2>4. ASSUME NEW f \in Files, NEW p \in Owners,
               RecordFailure(f, p) \/ MarkStale(f, p)
        PROVE  FreshReportIsListed'
    <3>1. PICK sum \in Summaries :
            /\ sum.freshness \in {"failed", "stale"}
            /\ SetSummary(p, SourceOf[f], sum)
      BY <2>4, Reassessed
    <3>2. sum.freshness # "fresh"
      BY <3>1
    <3>3. \A g \in Files : g # f =>
            problems'[g] = problems[g] /\ listedFor'[g] = listedFor[g]
      BY <2>4 DEF RecordFailure, MarkStale, TypeOK
    <3>4. \/ problems'[f] = problems[f] /\ listedFor'[f] = listedFor[f]
          \/ listedFor'[f] = {p}
      BY <2>4 DEF RecordFailure, MarkStale, TypeOK
    <3> QED
      BY <2>2, <3>1, <3>2, <3>3, <3>4
  <2>5. ASSUME NEW f \in Files, CloseDocument(f)
        PROVE  FreshReportIsListed'
    BY <2>1, <2>5 DEF CloseDocument, FreshReportIsListed, Entries, TypeOK
  <2>6. CASE UNCHANGED <<pSummary, problems, listedFor>>
    BY <2>6 DEF FreshReportIsListed, Entries
  <2> QED
    BY <2>3, <2>4, <2>5, <2>6 DEF Next, SetActiveProject, vars
<1> QED
  BY <1>1, <1>2, TypeCorrect, FreshOwn, PTL DEF Spec

\* The status bar shows the active project's report wherever there is one: every
\* change of a report or of the selection announces the snapshot again.
THEOREM BarFollows == Spec => []BarFollowsReports
<1>1. Init => BarFollowsReports
  BY DEF Init, NoEntries, BarFollowsReports, Snapshot, SnapshotOf
<1>2. ASSUME Fire
      PROVE  BarFollowsReports'
  BY <1>2 DEF Fire, BarFollowsReports, Snapshot, Coalesce
<1>3. BarFollowsReports /\ [Next]_vars => BarFollowsReports'
  <2>1. ASSUME BarFollowsReports,
               UNCHANGED <<summary, pSummary, active, bar>>
        PROVE  BarFollowsReports'
    BY <2>1 DEF BarFollowsReports, Snapshot, SnapshotOf
  <2> QED
    BY <1>2, <2>1
       DEF Next, Apply, RecordFailure, MarkStale, CloseDocument, SetActiveProject, vars
<1> QED
  BY <1>1, <1>3, PTL DEF Spec

\* What the runs check at once: the store keeps its types and tells whose report
\* is whose, for any projects, files and sequences of events.
THEOREM StoreInvariant == Spec => []StoreInv
BY TypeCorrect, ReportlessUnknown, FreshOwn, PTL DEF StoreInv
=============================================================================
