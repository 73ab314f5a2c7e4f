---------------------------- MODULE MCPcmService ----------------------------
\* Instances of PcmService for TLC: two packages of two repositories, the name
\* of the second beginning with that of the first; two commands in flight.
EXTENDS PcmService, TLC

CONSTANTS p1, p2, r1, r2

MCRepositoryOf  == p1 :> r1 @@ p2 :> r2
MCNamedUnder    == p1 :> {p1, p2} @@ p2 :> {p2}
\* The second version of p2 differs from the first in its epoch alone.
MCVersionString == p1 :> <<1, 2>> @@ p2 :> <<1, 1>>
MCNewer         == [p \in {p1, p2} |-> {<<2, 1>>}]
MCSymmetry      == Permutations(Ops)

\* The first session installed directly what it installed, and the newest
\* versions are offered; commands and refreshes bring about the rest.
MCInit ==
  /\ PcmInit
  /\ \A p \in Packages : installed[p].by # "cli" /\ catalogue[p].latest = MaxVersion

MCSpec == MCInit /\ [][PcmNext]_pcmVars
=============================================================================
