---------------------------- MODULE QualityGates ----------------------------
(***************************************************************************)
(* QualityGateProvider (providers/qualityGateProvider.ts) over the gate    *)
(* tools of McpClient (mcp/mcpClient.ts).                                  *)
(*                                                                         *)
(* A run asks the server's gate tools and, when all have answered, puts    *)
(* the results into this.gates, which is also what workspaceState holds.   *)
(* Runs may be in flight together: the command for all gates, the command  *)
(* for one gate, and the refresh a debounce timer starts after a DRC.      *)
(*                                                                         *)
(* A result is the version of the design the tool saw.  The project tool   *)
(* reports one outcome for each gate it names, or none.  Names that belong *)
(* to no gate of the view are not modelled.                                *)
(***************************************************************************)
EXTENDS Integers, Sequences, Functions, McpAvailability

CONSTANTS
  MaxRuns,     \* bound on the runs in flight
  Reports,     \* the gates a project report may name, in its order
  MaxDesign    \* bound on the versions of the design

Default == <<"schematic", "connectivity", "placement", "transfer", "manufacturing">>
Gates   == Range(Default) \union {"project"}
Single  == {"placement", "transfer", "manufacturing"}
Tools   == Single \union {"project"}

ASSUME GatesAssumption ==
  /\ MaxRuns \in Nat /\ MaxDesign \in Nat \ {0}
  /\ Reports \subseteq Seq(Gates) \ {<< >>}

Slots == 1 .. MaxRuns

VARIABLES
  gates,     \* this.gates: the version each shows; 0 is PENDING, or "project" absent
  runs,      \* what is in flight
  drcTimer,  \* drcTimer is set
  design,    \* the version on disk
  due,       \* history: the version at the last DRC, until its gates show it
  lostDrc    \* history: a refresh after a DRC failed, or the window was reloaded

gvars == <<gates, runs, drcTimer, design, due, lostDrc>>

RunKinds == {"off", "all", "one", "drc"}
Off   == [kind |-> "off", gate |-> "project", asked |-> {}, report |-> << >>,
          got |-> [t \in Tools |-> 0], met |-> FALSE]

GatesTypeOK ==
  /\ gates \in [Gates -> 0 .. MaxDesign]
  /\ runs \in [Slots -> [kind : RunKinds, gate : Gates, asked : SUBSET Tools,
                         report : Reports \union {<< >>},
                         got : [Tools -> 0 .. MaxDesign], met : BOOLEAN]]
  /\ drcTimer \in BOOLEAN
  /\ design \in 1 .. MaxDesign /\ due \in 0 .. design
  /\ lostDrc \in BOOLEAN

GatesInit ==
  /\ gates = [g \in Gates |-> 0]
  /\ runs = [s \in Slots |-> Off]
  /\ drcTimer = FALSE /\ design = 1 /\ due = 0 /\ lostDrc = FALSE

-----------------------------------------------------------------------------
(***************************************************************************)
(* Which tools a run asks, and what becomes of their answers.              *)
(***************************************************************************)

ToolOf(g) == IF g \in Single THEN g ELSE "project"

Asks(kind, g) ==
  CASE kind = "all" -> Tools
    [] kind = "one" -> {ToolOf(g)}
    [] kind = "drc" -> {"placement", "transfer"}

Rank(g) == IF g = "project" THEN 6 ELSE CHOOSE i \in 1 .. 5 : Default[i] = g

\* mergeGates keeps the last of the gates with one name.
Shadowed(g, h) == Rank(h) > Rank(g) /\ (h # "project" \/ gates[h] # 0)

\* runGate: item g of the list is replaced by a result named h, then merged
\* with the defaults.
ReplaceItem(g, h, v) ==
  IF g = "project" /\ gates[g] = 0 THEN gates
  ELSE [x \in Gates |->
          IF x = h THEN (IF Shadowed(g, h) THEN gates[h] ELSE v)
          ELSE IF x = g THEN 0
          ELSE gates[x]]

\* The project tool's first outcome stands for the gate, whatever it names.
NameOfResult(run) ==
  IF ToolOf(run.gate) = "project" THEN Head(run.report) ELSE run.gate

\* Mutant of AfterDrc: the list is built from the defaults, as for all gates.
AfterDrcFromDefaults(run) ==
  [g \in Gates |-> IF g \in {"placement", "transfer"} THEN run.got[g] ELSE 0]

AfterDrc(run) ==
  [g \in Gates |-> IF g \in {"placement", "transfer"} THEN run.got[g] ELSE gates[g]]

\* this.gates once the run has all answers: built on the list as it is now,
\* or, for all gates, on the defaults.
Outcome(run) ==
  CASE run.kind = "all" ->
         [g \in Gates |-> IF g \in Single THEN run.got[g]
                          ELSE IF g \in Range(run.report) THEN run.got["project"]
                          ELSE 0]
    [] run.kind = "one" ->
         ReplaceItem(run.gate, NameOfResult(run), run.got[ToolOf(run.gate)])
    [] run.kind = "drc" -> AfterDrc(run)

-----------------------------------------------------------------------------
(***************************************************************************)
(* Runs.                                                                   *)
(***************************************************************************)
Free(s) == runs[s].kind = "off"

\* Runs have no identity: a new one takes the first free slot.
Begin(s, kind, g) ==
  /\ Free(s) /\ \A o \in 1 .. s - 1 : ~Free(o)
  /\ runs' = [runs EXCEPT ![s] = [Off EXCEPT !.kind = kind, !.gate = g,
                                             !.asked = Asks(kind, g)]]

\* runAll, runGate, unless blockUnavailableRunAction.
RunAll(s) ==
  /\ McpEvent /\ available
  /\ Begin(s, "all", "project")
  /\ UNCHANGED <<available, gates, drcTimer, design, due, lostDrc>>

\* The view lists "project" only after a report without outcomes.
RunGate(s, g) ==
  /\ McpEvent /\ available
  /\ g = "project" => gates[g] # 0
  /\ Begin(s, "one", g)
  /\ UNCHANGED <<available, gates, drcTimer, design, due, lostDrc>>

\* A tool sees the design as it is on disk and its answer arrives.
Answered(s, t, report) ==
  /\ t \in runs[s].asked
  /\ (t = "project") = (report # << >>)
  /\ runs' = [runs EXCEPT ![s].asked = @ \ {t}, ![s].got[t] = design,
                          ![s].report = IF t = "project" THEN report ELSE @]
  /\ UNCHANGED <<mcpvars, gates, drcTimer, design, due, lostDrc>>

Others(s) == {o \in Slots \ {s} : ~Free(o)}

\* The run is over: the slot is free, and the runs in flight have met its end.
Release(s) ==
  runs' = [o \in Slots |-> IF o = s THEN Off
                           ELSE IF Free(o) THEN runs[o]
                           ELSE [runs[o] EXCEPT !.met = TRUE]]

\* All have answered: this.gates is replaced and persisted.
RunEnds(s) ==
  /\ ~Free(s) /\ runs[s].asked = {}
  /\ gates' = Outcome(runs[s])
  /\ due' = IF gates'["placement"] >= due /\ gates'["transfer"] >= due THEN 0 ELSE due
  /\ Release(s)
  /\ UNCHANGED <<mcpvars, drcTimer, design, lostDrc>>

\* Promise.all rejects with the first failure, and nothing is kept.
RunFails(s) ==
  /\ ~Free(s) /\ runs[s].asked # {}
  /\ McpEvent
  /\ Release(s)
  /\ lostDrc' = (lostDrc \/ runs[s].kind = "drc")
  /\ UNCHANGED <<available, gates, drcTimer, design, due>>

\* Mutant of ScheduleDrcRefresh: not while a refresh is in flight.
ScheduleUnlessRefreshing ==
  /\ McpEvent
  /\ drcTimer' = (drcTimer \/ \A s \in Slots : runs[s].kind # "drc") /\ due' = design
  /\ UNCHANGED <<available, gates, runs, design, lostDrc>>

\* A DRC after a save has ended.  The timer is set, or set anew.
ScheduleDrcRefresh ==
  /\ McpEvent
  /\ drcTimer' = TRUE /\ due' = design
  /\ UNCHANGED <<available, gates, runs, design, lostDrc>>

\* The timer's callback does not ask whether the server is available.
DrcTimerFires(s) ==
  /\ drcTimer
  /\ Begin(s, "drc", "project")
  /\ drcTimer' = FALSE
  /\ UNCHANGED <<mcpvars, gates, design, due, lostDrc>>

DesignChanges ==
  /\ McpEvent /\ design < MaxDesign
  /\ design' = design + 1
  /\ UNCHANGED <<available, gates, runs, drcTimer, due, lostDrc>>

\* A new window reads the persisted gates.
GatesReload ==
  /\ runs' = [s \in Slots |-> Off]
  /\ drcTimer' = FALSE /\ lostDrc' = TRUE
  /\ UNCHANGED <<gates, design, due>>

GatesStep ==
  \/ \E s \in Slots : RunAll(s) \/ DrcTimerFires(s) \/ RunEnds(s) \/ RunFails(s)
  \/ \E s \in Slots, g \in Gates : RunGate(s, g)
  \/ \E s \in Slots, t \in Tools, r \in Reports \union {<< >>} : Answered(s, t, r)
  \/ ScheduleDrcRefresh \/ DesignChanges

\* A run that has its answers ends, and the timer fires.  Nobody need answer.
GatesFairness ==
  /\ \A s \in Slots : WF_gvars(RunEnds(s))
  /\ WF_gvars(\E s \in Slots : DrcTimerFires(s))

-----------------------------------------------------------------------------
(***************************************************************************)
(* Properties.                                                             *)
(***************************************************************************)

\* The gates a run is about.
Scope(run) ==
  CASE run.kind = "all" -> Gates
    [] run.kind = "drc" -> {"placement", "transfer"}
    [] run.kind = "one" /\ run.gate \in Single -> {run.gate}
    [] OTHER -> {run.gate, Head(run.report)}

Ended(s) == ~Free(s) /\ runs'[s].kind = "off"

\* Runs in flight together lose none of each other's results: what the view
\* shows of a gate changes only when a run of that gate ends with all of its
\* calls answered, and a run that fails half-way changes nothing.
OnlyRunGatesChange ==
  [][\A g \in Gates : gates'[g] # gates[g] =>
       \E s \in Slots : Ended(s) /\ runs[s].asked = {} /\ g \in Scope(runs[s])]_<<gates, runs>>

\* An older result takes the place of a newer one only through a run that was
\* in flight when another ended; and only a run that asked the project tool
\* takes a gate back to PENDING.
NewerResultsStay ==
  [][\A g \in Gates : gates'[g] < gates[g] =>
       \E s \in Slots : /\ Ended(s)
                        /\ IF gates'[g] = 0 THEN runs[s].got["project"] # 0
                                            ELSE runs[s].met]_<<gates, runs>>

\* A DRC is never forgotten while runs overlap: until its gates show it, a timer is
\* set or a refresh in flight asks both tools after it, unless one failed or the
\* window closed.
DrcIsUnderWay ==
  due # 0 =>
    \/ lostDrc \/ drcTimer
    \/ \E s \in Slots : /\ runs[s].kind = "drc"
                         /\ \A t \in {"placement", "transfer"} :
                              t \in runs[s].asked \/ runs[s].got[t] >= due

\* After a DRC the placement and transfer gates come to show the design that
\* was checked, or a newer one, unless the refresh failed or the window closed, if
\* no run awaits an answer for ever (McpClient's calls may: EveryCallEnds).
DrcRefreshFollows ==
  (\A s \in Slots : []<>(runs[s].asked = {})) => (due # 0 ~> due = 0 \/ lostDrc)
=============================================================================
