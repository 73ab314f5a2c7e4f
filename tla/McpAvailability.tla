--------------------------- MODULE McpAvailability ---------------------------
(***************************************************************************)
(* What the views of the MCP side bar see of McpStateStore                 *)
(* (state/stateStores.ts): whether the server can be called over HTTP.     *)
(* Also the budget of what users, servers and the network may do.          *)
(***************************************************************************)
EXTENDS Naturals

CONSTANT MaxEvents  \* bound on those events

ASSUME McpAvailabilityAssumption == MaxEvents \in Nat

VARIABLES
  available,  \* state.kind = 'Connected' and state.connected
  events

mcpvars == <<available, events>>

McpAvailabilityTypeOK ==
  /\ available \in BOOLEAN
  /\ events \in 0 .. MaxEvents

McpAvailabilityInit ==
  /\ available \in BOOLEAN
  /\ events = 0

McpEvent ==
  /\ events < MaxEvents
  /\ events' = events + 1
=============================================================================
