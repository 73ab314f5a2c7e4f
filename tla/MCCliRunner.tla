---------------------------- MODULE MCCliRunner ----------------------------
\* Instances of CliRunner for TLC: three calls over two command keys, so that
\* two calls share an execution, a third runs beside it or retries after it.
EXTENDS CliRunner, TLC

Symmetry == Permutations(Calls) \union Permutations(Keys)
=============================================================================
