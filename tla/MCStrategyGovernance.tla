------------------------ MODULE MCStrategyGovernance ------------------------
(* A small instance of StrategyGovernance for TLC. *)
EXTENDS StrategyGovernance, TLC

CONSTANTS v1, v2, v3, v4, p1, p2, a1, a2, l1

ThreeVersions == {v1, v2, v3}
FourVersions == {v1, v2, v3, v4}
OneDraft == {v2}
TwoDrafts == {v2, v3}
OnePattern == {p1}
TwoPatterns == {p1, p2}
TwoAdmins == {a1, a2}
OneLearner == {l1}

\* Requests are interchangeable.
Interchangeable == Permutations(TwoAdmins)
=============================================================================
