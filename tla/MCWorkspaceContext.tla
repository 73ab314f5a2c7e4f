------------------------- MODULE MCWorkspaceContext -------------------------
\* Instances of WorkspaceContext for TLC: two folders, two CLIs.
EXTENDS WorkspaceContext

CONSTANTS p1, p2

TwoFolders == <<p1, p2>>
=============================================================================
