--------------------------- MODULE MCStudioContext ---------------------------
\* Instances of StudioContext for TLC.
EXTENDS StudioContext

MCContexts == Views \X (0 .. MaxRuns)
=============================================================================
