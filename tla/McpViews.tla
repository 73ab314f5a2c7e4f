------------------------------ MODULE McpViews ------------------------------
(***************************************************************************)
(* The views of the MCP side bar together: the quality gates and the fix   *)
(* queue over one McpStateStore (extension.ts subscribes both to it).      *)
(***************************************************************************)
EXTENDS QualityGates, FixQueue

vvars == <<mcpvars, gvars, fvars>>

McpViewsTypeOK == McpAvailabilityTypeOK /\ GatesTypeOK /\ FixTypeOK

McpViewsInit == McpAvailabilityInit /\ GatesInit /\ FixInit

ViewsReload ==
  /\ McpEvent
  /\ GatesReload /\ FixReload
  /\ UNCHANGED available

McpViewsNext ==
  \/ GatesStep /\ UNCHANGED fvars
  \/ FixStep /\ UNCHANGED gvars
  \/ ViewsReload

McpViewsSpec ==
  McpViewsInit /\ [][McpViewsNext]_vvars /\ GatesFairness

-----------------------------------------------------------------------------
\* Types, and: however the list is replaced while fixes are being applied, an
\* item that is shown as done is one the server has applied, or declined by a result.
McpViewsInv == McpViewsTypeOK /\ DoneIsAnswered
=============================================================================
