---------------------------- MODULE ActiveProject ----------------------------
(***************************************************************************)
(* What a reader of the project store (state/stateStores.ts,               *)
(* ProjectStateStore) is promised, whatever reads, debounces and queues    *)
(* there are behind it: a list of projects that changes as a whole, and an *)
(* active project that is the user's choice: it stays as long as the list  *)
(* has it, and where it is of an older list, until the next one.           *)
(*                                                                         *)
(* WorkspaceContext implements it.                                         *)
(***************************************************************************)
EXTENDS Integers, Sequences

CONSTANTS Projects, None

VARIABLES
  projects,  \* the published list
  active,    \* the active project
  saved,     \* the last choice, which outlives the window
  chosen     \* choices that are saved and not yet in effect

avars == <<projects, active, saved, chosen>>

ActiveInit ==
  /\ projects = {} /\ active = None
  /\ saved = None /\ chosen = << >>

\* A new list: its active project is the present one, or the saved one, or any.
Announce ==
  \E P \in SUBSET Projects :
    /\ projects' = P
    /\ active' \in P \union {None}
    /\ active' = None <=> P = {}
    /\ active \in P => active' = active
    /\ active \notin P /\ saved \in P => active' = saved
    /\ UNCHANGED <<saved, chosen>>

\* Of this list or, by an item that was shown before, of an older one.
Choose(p) ==
  /\ saved' = p /\ chosen' = Append(chosen, p)
  /\ UNCHANGED <<projects, active>>

\* Choices take effect in the order they were made.
Apply ==
  /\ chosen # << >>
  /\ active' = Head(chosen) /\ chosen' = Tail(chosen)
  /\ UNCHANGED <<projects, saved>>

Restart ==
  /\ projects' = {} /\ active' = None /\ chosen' = << >>
  /\ UNCHANGED saved

ActiveNext == Announce \/ (\E p \in Projects : Choose(p)) \/ Apply \/ Restart

ActiveSafeSpec == ActiveInit /\ [][ActiveNext]_avars

ActiveSpec == ActiveSafeSpec /\ WF_avars(Apply)
=============================================================================
