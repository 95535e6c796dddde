---------------------------- MODULE MCReleaseTag ----------------------------
(* Instances of ReleaseTag for TLC.                                          *)
EXTENDS ReleaseTag, FiniteSets, TLC

\* Bound: of the pushes that nobody waits for any more, at most two are still under way.
FewAbandoned == Cardinality({p \in sent : p[1] = None}) <= 2

Symmetry == Permutations(Clone)
=============================================================================
