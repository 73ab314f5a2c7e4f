------------------------- MODULE MCDiagnosticState -------------------------
\* An instance of DiagnosticState for TLC: two schematics, each in either
\* project or in none whenever it is asked for.  Schematics and projects are
\* interchangeable.
EXTENDS DiagnosticState, TLC

MCSourceOf == [f \in Files |-> "erc"]

Symmetry == Permutations(Files) \union Permutations(Projects)
=============================================================================
