--------------------------- MODULE MCViewerEditor ---------------------------
\* Instances of ViewerEditor for TLC.
EXTENDS ViewerEditor
=============================================================================
