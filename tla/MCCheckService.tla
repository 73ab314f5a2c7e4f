--------------------------- MODULE MCCheckService ---------------------------
\* Instances of CheckService for TLC.  The keys are all pairs of a file and a
\* millisecond, so that checks share a millisecond, a file, both or neither.
\* Files and milliseconds are interchangeable: the first call checks the first
\* file in the first millisecond.
EXTENDS CheckService

CONSTANTS c1, f1, t1

MCKeys == [file : Files, tick : Ticks]

MCInit == CheckInit /\ key[c1] = [file |-> f1, tick |-> t1]

MCSpec == MCInit /\ [][CheckNext]_allVars /\ CheckFairness
=============================================================================
