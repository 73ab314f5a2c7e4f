----------------------------- MODULE MCMcpViews -----------------------------
\* Instances of McpViews for TLC.
EXTENDS McpViews

\* A report of both gates, of one, and one without outcomes.
SomeReports == {<<"schematic", "connectivity">>, <<"connectivity">>, <<"project">>}
=============================================================================
